------------------------------ MODULE Analyze ------------------------------
(***************************************************************************)
(* Statements to a typed route (analyze.cc): locals are numbered, guards   *)
(* and waits are put in source order, `if` and `match` become the terminal *)
(* control, nested matches are flattened into guarded arms, static loops   *)
(* are checked, named errors are numbered and decorators become guards.    *)
(*                                                                         *)
(* The route's locals are threaded through: every operator takes them and  *)
(* gives them back, with its result in out, and ok says that no frontend   *)
(* error was met.                                                          *)
(***************************************************************************)
EXTENDS AnalyzeExpr

Done(ok, locals, out) == [ok |-> ok, locals |-> locals, out |-> out]

\* A new local of the route, which joins the names in scope.
LocalFor(locals, env, name, init) == Local(next_local_ref_index(locals \o env.locals), name, init)
Fits(locals, l) == Len(locals) < kMaxLocals /\ l.ref < kMaxLocals
Into(env, l) == [env EXCEPT !.locals = Append(@, l)]

\* The initializer of a let inside a block; an array is no value there.
LetInit(s, env) ==
    LET init == analyze_expr(s.expr, env)
    IN Allowed(init.type # ArrayT, apply_declared_type_to_expr(init, s.type))

analyze_term(s) ==
    \/ s.kind = "ReturnStatus" /\ s.status \in 100 .. 999
    \/ s.kind = "ForwardUpstream" /\ s.upstream \in Range(Upstreams)

\* A two-way branch between terminators, or one terminator.
BranchOk(s, cond) == Good(<<cond>>) /\ cond.type = BoolT /\ analyze_term(s.then) /\ analyze_term(s.else)
TermOrIf(s, locals, env) ==
    LET cond == analyze_expr(s.expr, env)
    IN IF s.kind = "If" THEN Done(BranchOk(s, cond), locals, If(cond, s.then, s.else))
       ELSE Done(IsTerm(s) /\ analyze_term(s), locals, Direct(s))

----------------------------------------------------------------------------
(* What a guard does when it fails *)

\* Lets, as many as the body has room for, then a terminator or a branch.  The route keeps
\* a nameless copy of each local.
NoFailBody == FailBody(<<>>, Direct(ReturnStatus(0)))
RECURSIVE analyze_guard_fail_body(_, _, _)
analyze_guard_fail_body(s, locals, env) ==
    LET first == Head(s.stmts)
        init == LetInit(first, env)
        l == LocalFor(locals, env, first.name, init)
        rest == analyze_guard_fail_body(Block(Tail(s.stmts)), Append(locals, [l EXCEPT !.name = ""]),
                                        Into(env, l))
        leaf == TermOrIf(s, locals, env)
    IN CASE s.kind # "Block" -> [leaf EXCEPT !.out = FailBody(<<>>, @)]
         [] s.kind = "Block" /\ Len(s.stmts) = 1 /\ first.kind # "Let" ->
               analyze_guard_fail_body(first, locals, env)
         [] s.kind = "Block" /\ Len(s.stmts) > 1 /\ first.kind = "Let" ->
               IF Good(<<init>>) /\ Fits(locals, l)
               THEN [rest EXCEPT !.ok = @ /\ Len(rest.out.locals) < kMaxBodyLocals,
                                 !.out = FailBody(<<l>> \o @.locals, @.body)]
               ELSE Done(FALSE, locals, NoFailBody)
         [] OTHER -> Done(FALSE, locals, NoFailBody)

\* The case of an error whose number is not known yet.
UnnumberedCase(name) == [Expr("VariantCase", VariantT(""), <<>>) EXCEPT !.name = name]
ErrorPattern(p, subject, env) ==
    IF subject.evar = "" /\ p.kind = "VariantCase" /\ p.name = "" THEN UnnumberedCase(p.str)
    ELSE analyze_match_pattern(p, subject, env)
\* The arms of a failed guard: cases of the error, the last one a wildcard.
analyze_guard_match_arms(arms, subject, env) ==
    LET n == Len(arms)
        pats == [i \in DOMAIN arms |-> IF arms[i].is_wildcard THEN Bad
                                       ELSE ErrorPattern(arms[i].pattern, subject, env)]
    IN [ok |-> /\ subject.may_error /\ arms[n].is_wildcard
               /\ \A i \in 1 .. n : arms[i].guard = <<>> /\ IsTerm(arms[i].stmt) /\ analyze_term(arms[i].stmt)
               /\ \A i \in 1 .. n - 1 :
                     /\ ~arms[i].is_wildcard /\ pats[i].kind = "VariantCase"
                     /\ pats[i].type = VariantT(subject.evar)
                     /\ \A j \in 1 .. i - 1 : pats[j] # pats[i],
        out |-> FailMatch(subject, [i \in 1 .. n |-> [is_wildcard |-> arms[i].is_wildcard, pattern |-> pats[i],
                                                      term |-> arms[i].stmt]])]

GuardFail(s, subject, locals, env) ==
    LET arms == analyze_guard_match_arms(s.arms, subject, env)
    IN CASE s.arms # <<>> -> Done(arms.ok, locals, arms.out)
         [] s.arms = <<>> /\ IsTerm(s.else) -> Done(analyze_term(s.else), locals, FailTerm(s.else))
         [] OTHER -> analyze_guard_fail_body(s.else, locals, env)

\* A guard; env is the scope behind it, with the name it binds, and bound the local.
AnalyzeGuard(s, start, locals, env) ==
    LET bound == analyze_expr(s.expr, env)
        cond == analyze_guard_cond(s.expr, env)
        fail == GuardFail(s, bound, locals, env)
        l == LocalFor(fail.locals, env, s.name, make_guard_bound_init(bound))
        bare == [ok |-> fail.ok, locals |-> fail.locals, out |-> Guard(start, cond, fail.out), env |-> env,
                 bound |-> <<>>]
    IN CASE ~Good(<<bound, cond>>) ->
               [ok |-> FALSE, locals |-> locals, out |-> Guard(start, Bad, <<>>), env |-> env, bound |-> <<>>]
         [] s.name = "" -> bare
         [] OTHER -> [bare EXCEPT !.ok = @ /\ Bindable(bound, env) /\ Fits(fail.locals, l),
                                  !.bound = <<l>>, !.env = Into(env, l)]

----------------------------------------------------------------------------
(* The terminal control *)

\* The arm a constant match selects, with what its pattern binds.
SelectedBinding(arm, subject, env) ==
    IF arm.is_wildcard THEN env.binding
    ELSE bind_match_payload(arm, analyze_match_pattern(arm.pattern, subject, env), subject, env.binding)

NoArm == [guards |-> <<>>, body |-> Direct(ReturnStatus(0))]
\* What an arm does: lets and guards, then a terminator or a branch.
RECURSIVE analyze_match_arm_body(_, _, _)
analyze_match_arm_body(s, locals, env) ==
    LET first == Head(s.stmts)
        more == Len(s.stmts) > 1
        after(ls, e) == analyze_match_arm_body(Block(Tail(s.stmts)), ls, e)
        init == LetInit(first, env)
        l == LocalFor(locals, env, first.name, init)
        g == AnalyzeGuard(first, 0, locals, env)
        rest == after(g.locals \o g.bound, g.env)
        subject == analyze_expr(s.expr, env)
        n == IF Good(<<subject>>) THEN ConstArm(s.arms, subject, env) ELSE 0
        leaf == TermOrIf(s, locals, env)
    IN CASE s.kind = "Match" ->
               IF s.is_const /\ n # 0
               THEN analyze_match_arm_body(s.arms[n].stmt, locals,
                       [env EXCEPT !.binding = SelectedBinding(s.arms[n], subject, env)])
               ELSE Done(FALSE, locals, NoArm)
         [] s.kind \in {"If", "ReturnStatus", "ForwardUpstream"} ->
               [leaf EXCEPT !.out = [guards |-> <<>>, body |-> @]]
         [] s.kind = "Block" /\ more /\ first.kind = "Let" ->
               IF Good(<<init>>) /\ Fits(locals, l) THEN after(Append(locals, l), Into(env, l))
               ELSE Done(FALSE, locals, NoArm)
         [] s.kind = "Block" /\ more /\ first.kind = "Guard" ->
               IF g.ok /\ Len(rest.out.guards) < kMaxPreludeGuards
               THEN [rest EXCEPT !.out.guards = <<g.out>> \o @] ELSE Done(FALSE, locals, NoArm)
         [] s.kind = "Block" /\ Len(s.stmts) = 1 /\ first.kind \notin {"Let", "Guard"} ->
               analyze_match_arm_body(first, locals, env)
         [] OTHER -> Done(FALSE, locals, NoArm)

\* A match on what may be an error is on the case of the error.
IsErrorKind(subject, locals) ==
    /\ subject.type.k # "Variant" /\ subject.may_error
    /\ \/ subject.evar # ""
       \/ known_value_state(subject, locals) = "Error" /\ known_error_name(subject, locals) # ""
ControlPattern(p, subject, env) ==
    IF IsErrorKind(subject, env.locals) /\ subject.evar = "" /\ p.kind = "VariantCase" /\ p.name = "" /\ p.args = <<>>
    THEN UnnumberedCase(p.str) ELSE analyze_match_pattern(p, subject, env)
PatternFits(p, subject, env) ==
    IF IsErrorKind(subject, env.locals) THEN p.kind = "VariantCase" /\ p.type = VariantT(subject.evar)
    ELSE IsPattern(p, subject)

\* An arm that is nothing but another match is flattened into it.
Expandable(arm) == ~arm.is_wildcard /\ arm.guard = <<>> /\ arm.pattern.args = <<>>
IsMatch(s) == s.kind = "Match" /\ ~s.is_const
NestedMatch(arm) ==
    CASE ~Expandable(arm) -> <<>>
      [] Expandable(arm) /\ IsMatch(arm.stmt) -> <<arm.stmt>>
      [] OTHER -> IF arm.stmt.kind = "Block" /\ Len(arm.stmt.stmts) = 1 /\ IsMatch(arm.stmt.stmts[1])
                  THEN arm.stmt.stmts ELSE <<>>
\* A match at the end of a longer block is not supported.
TrailingMatch(arm) ==
    Expandable(arm) /\ arm.stmt.kind = "Block" /\ Len(arm.stmt.stmts) > 1 /\ IsMatch(Last(arm.stmt.stmts))

\* The arms of the inner match, each with the outer pattern and a guard on the inner one.
RECURSIVE NestedArms(_, _, _, _, _, _)
NestedArms(arms, i, subject, outer, locals, env) ==
    LET arm == arms[i]
        pat == analyze_match_pattern(arm.pattern, subject, env)
        body == analyze_match_arm_body(arm.stmt, locals, env)
        plain == Arm(FALSE, outer, body.out.guards, body.out.body)
        out == IF arm.is_wildcard THEN plain ELSE Guarded(plain, MatchTest(subject, pat))
        rest == NestedArms(arms, i + 1, subject, outer, body.locals, env)
    IN CASE i > Len(arms) -> Done(TRUE, locals, <<>>)
         [] ~(/\ arm.guard = <<>> /\ arm.pattern.args = <<>> /\ body.ok
              /\ IF arm.is_wildcard THEN i = Len(arms) ELSE IsPattern(pat, subject)) -> Done(FALSE, locals, <<>>)
         [] OTHER -> [rest EXCEPT !.out = <<out>> \o @]
ExpandNested(s, outer, locals, env) ==
    LET subject == analyze_expr(s.expr, env)
        pats == Patterns(s.arms, subject, env)
        named == {i \in DOMAIN s.arms : ~s.arms[i].is_wildcard}
        all == NestedArms(s.arms, 1, subject, outer, locals, env)
        n == Len(all.out)
    IN CASE ~(Plain(<<subject>>) /\ IsInjective([i \in named |-> pats[i]])) -> Done(FALSE, locals, <<>>)
         [] ~all.ok -> all
         [] named # DOMAIN s.arms -> all
         [] OTHER -> [all EXCEPT !.ok = Exhausts(subject.type, Range(pats)),
                                 !.out = [@ EXCEPT ![n].has_arm_guard = FALSE]]

\* The arms in order; no arm may follow a wildcard or an unguarded arm of its pattern.
RECURSIVE ControlArms(_, _, _, _, _)
ControlArms(arms, i, subject, locals, env) ==
    LET arm == arms[i]
        pat == ControlPattern(arm.pattern, subject, env)
        inner == [env EXCEPT !.binding = bind_match_payload(arm, pat, subject, @)]
        scope == IF arm.is_wildcard THEN env ELSE inner
        taken == \E j \in 1 .. i - 1 :
                    /\ arms[j].guard = <<>> /\ ~arms[j].is_wildcard
                    /\ pat.kind \in {"BoolLit", "VariantCase"}
                    /\ ControlPattern(arms[j].pattern, subject, env) = pat
        guard == analyze_expr(arm.guard[1], scope)
        body == analyze_match_arm_body(arm.stmt, locals, scope)
        bare == Arm(arm.is_wildcard, IF arm.is_wildcard THEN Bad ELSE pat, body.out.guards, body.out.body)
        nested == NestedMatch(arm)
        here == IF nested # <<>> THEN ExpandNested(nested[1], pat, locals, env)
                ELSE [body EXCEPT !.out = IF arm.guard = <<>> THEN <<bare>> ELSE <<Guarded(bare, guard)>>]
        rest == ControlArms(arms, i + 1, subject, here.locals, env)
        ok == /\ IF arm.is_wildcard THEN i = Len(arms) /\ arm.guard = <<>>
                 ELSE PatternFits(pat, subject, env) /\ ~taken
              /\ nested # <<>> => pat.type # VariantT("")
              /\ ~TrailingMatch(arm)
              /\ arm.guard # <<>> => Plain(<<guard>>) /\ guard.type = BoolT
    IN CASE i > Len(arms) -> Done(TRUE, locals, <<>>)
         [] ~ok -> Done(FALSE, locals, <<>>)
         [] ~here.ok -> here
         [] OTHER -> [rest EXCEPT !.out = here.out \o @]

\* A match on a subject that is known to be an error selects its arm at once, unless
\* the arm has a guard that is only known at run time.
ShortcutVerdict(arm, subject, env) ==
    LET err == Origin(subject, env.locals)
        pat == analyze_match_pattern(arm.pattern, subject, env)
        hit == IF err.evar # "" THEN pat = CaseExpr(err.evar, err.int + 1, <<>>)
               ELSE arm.pattern.str = err.name
        guard == analyze_expr(arm.guard[1], [env EXCEPT !.binding = bind_match_payload(arm, pat, subject, @)])
        value == const_eval_expr(guard, env.locals)
    IN CASE arm.is_wildcard -> "wildcard"
         [] ~arm.is_wildcard /\ (arm.pattern.kind # "VariantCase" \/ (err.evar # "" /\ pat.kind = "Bad")) -> "error"
         [] OTHER ->
               (CASE ~hit -> "miss"
                  [] hit /\ arm.guard = <<>> -> "hit"
                  [] OTHER -> (CASE ~(Plain(<<guard>>) /\ guard.type = BoolT) -> "error"
                                 [] value.kind # "BoolLit" -> "open"
                                 [] OTHER -> IF ConstTrue(value) THEN "hit" ELSE "miss"))
\* The number of the arm, 0 for an error, or that the match stays.
KnownArm(arms, subject, env) ==
    LET state == known_value_state(subject, env.locals)
        verdict(i) == ShortcutVerdict(arms[i], subject, env)
        settled == {i \in DOMAIN arms : state = "Error" /\ verdict(i) \in {"hit", "open", "error"}}
        first == Min(settled)
        wild == {i \in DOMAIN arms : arms[i].is_wildcard}
    IN CASE \E i \in wild : arms[i].guard # <<>> -> 0
         [] settled # {} /\ verdict(first) = "error" -> 0
         [] settled # {} /\ verdict(first) = "open" -> Len(arms) + 1
         [] settled # {} /\ verdict(first) = "hit" -> first
         [] OTHER -> IF wild = {} THEN 0 ELSE IF state = "Error" THEN Max(wild) ELSE Min(wild)

NoControl == Direct(ReturnStatus(0))
ControlIf(s, locals, env) ==
    LET cond == analyze_expr(s.expr, env)
        then == analyze_match_arm_body(s.then, locals, env)
        else == analyze_match_arm_body(s.else, then.locals, env)
        arm(b, body) == Arm(FALSE, BoolLit(b), body.out.guards, body.out.body)
        supported(b) == b.kind \in {"ReturnStatus", "ForwardUpstream", "If", "Block"}
    IN CASE ~(Good(<<cond>>) /\ cond.type = BoolT) -> Done(FALSE, locals, NoControl)
         [] IsTerm(s.then) /\ IsTerm(s.else) -> TermOrIf(s, locals, env)
         [] ~(supported(s.then) /\ supported(s.else)) -> Done(FALSE, locals, NoControl)
         [] ~(then.ok /\ else.ok) -> Done(FALSE, locals, NoControl)
         [] OTHER -> Done(TRUE, else.locals, Match(cond, <<arm(TRUE, then), arm(FALSE, else)>>))

ControlMatch(s, subject, locals, env) ==
    LET arms == ControlArms(s.arms, 1, subject, locals, env)
        pats == {ControlPattern(a.pattern, subject, env) : a \in {a \in Range(s.arms) : ~a.is_wildcard}}
        of == IF IsErrorKind(subject, env.locals) THEN VariantT(subject.evar) ELSE subject.type
        total == \/ \E a \in Range(s.arms) : a.is_wildcard
                 \/ /\ of # VariantT("") /\ Exhausts(of, pats)
                    /\ \A a \in Range(s.arms) : a.guard = <<>>
    IN IF arms.ok /\ total /\ Len(arms.out) <= kMaxMatchArms THEN [arms EXCEPT !.out = Match(subject, @)]
       ELSE Done(FALSE, locals, NoControl)

\* The statement a route ends with.  What is known when compiling is selected here.
RECURSIVE analyze_control_stmt(_, _, _)
analyze_control_stmt(s, locals, binding) ==
    LET env == Env(locals, binding)
        subject == analyze_expr(s.expr, env)
        value == const_eval_expr(subject, locals)
        n == IF Good(<<subject>>) THEN ConstArm(s.arms, subject, env) ELSE 0
        known == IsErrorKind(subject, locals) /\ known_value_state(subject, locals) # "Unknown"
        k == KnownArm(s.arms, subject, env)
    IN CASE s.kind = "If" /\ s.is_const ->
               IF Good(<<subject>>) /\ value.kind = "BoolLit"
               THEN analyze_control_stmt(IF ConstTrue(value) THEN s.then ELSE s.else, locals, binding)
               ELSE Done(FALSE, locals, NoControl)
         [] s.kind = "If" /\ ~s.is_const -> ControlIf(s, locals, env)
         [] s.kind = "Match" /\ s.is_const ->
               IF n # 0
               THEN analyze_control_stmt(s.arms[n].stmt, locals, SelectedBinding(s.arms[n], subject, env))
               ELSE Done(FALSE, locals, NoControl)
         [] s.kind = "Match" /\ ~s.is_const ->
               (CASE ~Good(<<subject>>) \/ (known /\ k = 0) -> Done(FALSE, locals, NoControl)
                  [] known /\ k \in DOMAIN s.arms -> analyze_control_stmt(s.arms[k].stmt, locals, binding)
                  [] OTHER -> ControlMatch(s, subject, locals, env))
         [] IsTerm(s) -> TermOrIf(s, locals, env)
         [] OTHER -> Done(FALSE, locals, NoControl)

----------------------------------------------------------------------------
(* Loops over arrays that are known when compiling *)

Named(locals, x) == \E l \in Range(locals) : l.name = x
is_static_for_iter_expr(e, locals) == Origin(e, locals).kind = "ArrayLit"

\* The end of an arm: a terminator, a branch, or an inner match, whose arms become guarded
\* copies of this one (and not of what was bound or checked in front of it).
LoopLeaf(s, env) ==
    LET leaf == TermOrIf(s, <<>>, env)
    IN [leaf EXCEPT !.ok = @ /\ (s.kind = "If" => Plain(<<leaf.out.cond>>))]
And(arm, test) == IF arm.has_arm_guard THEN Expr("IfElse", BoolT, <<arm.arm_guard, test, BoolLit(FALSE)>>)
                  ELSE test
LoopInner(s, arm, env) ==
    LET subject == analyze_expr(s.expr, env)
        n == Len(s.arms)
        pats == Patterns(s.arms, subject, env)
        leaf == [i \in 1 .. n |-> LoopLeaf(s.arms[i].stmt, env)]
        with(i) == [arm EXCEPT !.body = leaf[i].out]
    IN [ok |-> /\ Plain(<<subject>>) /\ s.arms[n].is_wildcard
               /\ IsInjective([i \in 1 .. n - 1 |-> pats[i]])
               /\ \A i \in 1 .. n :
                     /\ leaf[i].ok /\ s.arms[i].guard = <<>> /\ s.arms[i].pattern.args = <<>>
                     /\ i < n => ~s.arms[i].is_wildcard /\ IsPattern(pats[i], subject),
        out |-> [i \in 1 .. n |-> IF i = n THEN with(n)
                                  ELSE Guarded(with(i), And(arm, MatchTest(subject, pats[i])))]]

\* What an arm does.  Its lets belong to the arm, and only a guard's failing body leaves
\* locals in the route.
RECURSIVE LoopArm(_, _, _, _)
LoopArm(s, arm, locals, env) ==
    LET first == Head(s.stmts)
        more == s.kind = "Block" /\ Len(s.stmts) > 1
        init == LetInit(first, env)
        l == LocalFor(locals, env, first.name, init)
        g == AnalyzeGuard(first, 0, locals, env)
        rest == Block(Tail(s.stmts))
        leaf == LoopLeaf(s, env)
        inner == LoopInner(s, arm, env)
    IN CASE s.kind = "Match" -> Done(~s.is_const /\ inner.ok, locals, inner.out)
         [] s.kind \in {"If", "ReturnStatus", "ForwardUpstream"} ->
               Done(leaf.ok, locals, <<[arm EXCEPT !.body = leaf.out]>>)
         [] more /\ first.kind = "Let" ->
               IF /\ Good(<<init>>) /\ ~Named(env.locals, first.name) /\ Fits(<<>>, l)
                  /\ Len(arm.locals) < kMaxArmLocals
               THEN LoopArm(rest, [arm EXCEPT !.locals = Append(@, l)], locals, Into(env, l))
               ELSE Done(FALSE, locals, <<>>)
         [] more /\ first.kind = "Guard" ->
               IF /\ g.ok /\ (first.name # "" => ~Named(env.locals, first.name))
                  /\ Len(arm.guards) < kMaxArmGuards /\ Len(arm.locals \o g.bound) <= kMaxArmLocals
               THEN LoopArm(rest, [arm EXCEPT !.guards = Append(@, g.out), !.locals = @ \o g.bound], g.locals, g.env)
               ELSE Done(FALSE, locals, <<>>)
         [] s.kind = "Block" /\ Len(s.stmts) = 1 /\ first.kind \notin {"Let", "Guard"} ->
               LoopArm(first, arm, locals, env)
         [] OTHER -> Done(FALSE, locals, <<>>)

\* The arms of a match in a loop's body: the last one is a wildcard, and a pattern appears
\* once without a guard.
RECURSIVE LoopArms(_, _, _, _, _)
LoopArms(arms, i, subject, locals, env) ==
    LET arm == arms[i]
        pat == analyze_match_pattern(arm.pattern, subject, env)
        scope == IF arm.is_wildcard THEN env
                 ELSE [env EXCEPT !.binding = bind_match_payload(arm, pat, subject, @)]
        guard == analyze_expr(arm.guard[1], scope)
        taken == \E j \in 1 .. i - 1 :
                    arms[j].guard = <<>> /\ analyze_match_pattern(arms[j].pattern, subject, env) = pat
        bare == Arm(arm.is_wildcard, IF arm.is_wildcard THEN Bad ELSE pat, <<>>, NoControl)
        here == LoopArm(arm.stmt, IF arm.guard = <<>> THEN bare ELSE Guarded(bare, guard), locals, scope)
        rest == LoopArms(arms, i + 1, subject, here.locals, env)
        ok == /\ arm.is_wildcard = (i = Len(arms))
              /\ IF arm.is_wildcard THEN arm.guard = <<>> ELSE IsPattern(pat, subject) /\ ~taken
              /\ arm.guard # <<>> => Plain(<<guard>>) /\ guard.type = BoolT
    IN CASE i > Len(arms) -> Done(TRUE, locals, <<>>)
         [] ~ok -> Done(FALSE, locals, <<>>)
         [] ~here.ok -> here
         [] OTHER -> [rest EXCEPT !.out = here.out \o @]

\* One more step of a loop; ends says that no step can follow, so of branches and matches
\* there is one, and the lets and guards are what can be too many.
AddSteps(r, fi, steps, ends) ==
    LET all == r.loops[fi].steps \o steps
        count(kind) == Len(SelectSeq(all, LAMBDA st : st.kind = kind))
    IN [r EXCEPT !.ok = @ /\ count("Let") <= kMaxLoopLocals /\ count("Guard") <= kMaxLoopGuards,
                 !.loops[fi].steps = all, !.loops[fi].has_term = @ \/ ends]
Refused(r) == [r EXCEPT !.ok = FALSE]
LetSteps(locals) == [i \in DOMAIN locals |-> [kind |-> "Let", local |-> locals[i]]]
ItemStep(kind, item) == <<[kind |-> kind, item |-> item]>>

RECURSIVE analyze_for_stmt(_, _, _)

\* One statement in the body of loop fi.
LoopStmt(s, fi, r) ==
    LET env == Env(r.locals, NoBinding)
        init == LetInit(s, env)
        l == LocalFor(r.locals, env, s.name, init)
        g == AnalyzeGuard(s, 0, r.locals, env)
        leaf == LoopLeaf(s, env)
        subject == analyze_expr(s.expr, env)
        arms == LoopArms(s.arms, 1, subject, r.locals, env)
        nested == analyze_for_stmt(s, 0, r)
        child == Len(r.loops) + 1
        runs == nested.loops[child].has_term /\ Origin(nested.loops[child].iter, r.locals).args # <<>>
    IN CASE r.loops[fi].has_term -> Refused(r)
         [] s.kind = "Let" ->
               IF Good(<<init>>) /\ ~Named(r.locals, s.name) /\ Fits(r.locals, l)
               THEN AddSteps([r EXCEPT !.locals = Append(@, l)], fi, LetSteps(<<l>>), FALSE) ELSE Refused(r)
         [] s.kind = "Guard" ->
               IF g.ok /\ (s.name # "" => ~Named(r.locals, s.name))
               THEN AddSteps([r EXCEPT !.locals = g.locals \o g.bound], fi,
                             ItemStep("Guard", g.out) \o LetSteps(g.bound), FALSE) ELSE Refused(r)
         [] IsTerm(s) -> IF leaf.ok THEN AddSteps(r, fi, ItemStep("Term", s), TRUE) ELSE Refused(r)
         [] s.kind = "If" -> IF leaf.ok THEN AddSteps(r, fi, ItemStep("If", leaf.out), TRUE) ELSE Refused(r)
         [] s.kind = "Match" ->
               IF Plain(<<subject>>) /\ arms.ok /\ Len(arms.out) <= kMaxMatchArms
               THEN AddSteps([r EXCEPT !.locals = arms.locals], fi,
                             ItemStep("Match", Match(subject, arms.out)), TRUE) ELSE Refused(r)
         [] s.kind = "For" ->
               IF nested.ok THEN AddSteps(nested, fi, <<[kind |-> "For", index |-> child]>>, runs) ELSE nested
         [] OTHER -> Refused(r)

RECURSIVE LoopStmts(_, _, _)
LoopStmts(ss, fi, r) ==
    IF ss = <<>> \/ ~r.ok THEN r ELSE LoopStmts(Tail(ss), fi, LoopStmt(Head(ss), fi, r))

\* A loop: its variable and what its body binds are locals of the route, and their names
\* end with the loop.
analyze_for_stmt(s, start, r) ==
    LET iter == analyze_expr(s.expr, [Env(r.locals, NoBinding) EXCEPT !.arrays = TRUE])
        elem == Origin(iter, r.locals).args[1]
        ref == next_local_ref_index(r.locals)
        self == [Expr("LocalRef", elem.type, <<>>) EXCEPT !.ref = ref]
        var == Local(ref, s.name, self)
        entered == [r EXCEPT !.locals = Append(@, var),
                             !.loops = Append(@, [start |-> start, iter |-> iter, var |-> ref, steps |-> <<>>,
                                                  has_term |-> FALSE])]
        done == LoopStmts(s.body, Len(r.loops) + 1, entered)
    IN CASE s.expr.kind \in {"Call", "MethodCall", "Field", "Pipe"} -> Refused(r)
         [] ~(Good(<<iter>>) /\ iter.type = ArrayT /\ is_static_for_iter_expr(iter, r.locals)) -> Refused(r)
         [] Named(r.locals, s.name) \/ Len(r.loops) = kMaxForLoops \/ ~Fits(r.locals, var) -> Refused(r)
         [] s.body = <<>> \/ ~done.ok -> Refused(r)
         [] OTHER -> [done EXCEPT !.locals = [i \in DOMAIN @ |-> IF i <= Len(r.locals) THEN @[i]
                                                                 ELSE [@[i] EXCEPT !.name = ""]]]

----------------------------------------------------------------------------
(* Waits *)

WaitFor(event, ms) == [ok |-> TRUE, event |-> event, ms |-> ms]
NoWait == [WaitFor("", 0) EXCEPT !.ok = FALSE]
UpstreamEvents == [connect |-> "UpstreamConnect", recv |-> "UpstreamRecv", send |-> "UpstreamSend"]
\* One operation; the payload of an upstream's is its number counted from 1.
analyze_wait_io_op_spec(op) ==
    CASE op.op = "downstream.recv" -> WaitFor("Recv", 0)
      [] op.op \in DOMAIN UpstreamEvents /\ op.upstream \in Range(Upstreams) ->
            WaitFor(UpstreamEvents[op.op], CHOOSE i \in DOMAIN Upstreams : Upstreams[i] = op.upstream)
      [] OTHER -> NoWait
\* any(...): receives, and at most one timer.
analyze_wait_any_call(ops) ==
    LET timers == SelectSeq(ops, LAMBDA op : op.op = "timer")
        events == SelectSeq(ops, LAMBDA op : op.op # "timer")
    IN IF /\ events # <<>> /\ Len(timers) <= 1 /\ \A i \in DOMAIN timers : timers[i].ms > 0
          /\ \A i \in DOMAIN events : events[i].op = "downstream.recv"
       THEN WaitFor("Any", IF timers = <<>> THEN 0 ELSE timers[1].ms) ELSE NoWait
analyze_wait_value_spec(spec) ==
    LET op == spec.ops[1]
    IN CASE spec.any -> analyze_wait_any_call(spec.ops)
         [] ~spec.any /\ op.op = "timer" -> IF op.ms > 0 THEN WaitFor("Timer", op.ms) ELSE NoWait
         [] OTHER -> analyze_wait_io_op_spec(op)

\* Mutant: as many waits as the route has, whatever the frame holds.
AddWait_Uncounted(r, w, start) ==
    IF w.ok /\ r.loops = <<>>
    THEN [r EXCEPT !.waits = Append(@, [event |-> w.event, ms |-> w.ms, start |-> start])] ELSE Refused(r)

AddWait(r, w, start) ==
    IF w.ok /\ Len(r.waits) < kMaxWaits /\ r.loops = <<>>
    THEN [r EXCEPT !.waits = Append(@, [event |-> w.event, ms |-> w.ms, start |-> start])] ELSE Refused(r)
\* What a wait came back with, by the number of the wait.
WaitResultOf(w, n) == [Expr("WaitResult", UnknownT, <<>>) EXCEPT !.event = w.event, !.ms = w.ms, !.wait = n]

\* wait any { timer(ms) => ..., recv => ... }: a wait, and a branch on what ended it.
analyze_wait_any_stmt_control(s, start, r) ==
    LET w == WaitFor("Any", s.ms)
        timer == [Expr("WaitField", BoolT, <<WaitResultOf(w, Len(r.waits))>>) EXCEPT !.str = "timer"]
    IN IF s.ms > 0 /\ IsTerm(s.timer) /\ IsTerm(s.recv) /\ analyze_term(s.timer) /\ analyze_term(s.recv)
       THEN [AddWait(r, w, start) EXCEPT !.control = <<If(timer, s.timer, s.recv)>>] ELSE Refused(r)

----------------------------------------------------------------------------
(* A route *)

\* Whether a loop behind statement i runs over x, under this name or another.
RECURSIVE LoopsOver(_, _)
LoopsOver(s, x) == s.kind = "For" /\ (s.expr = Id(x) \/ \E i \in DOMAIN s.body : LoopsOver(s.body[i], x))
RECURSIVE can_be_used_for_iter(_, _, _)
can_be_used_for_iter(ss, x, i) ==
    \E j \in i .. Len(ss) :
       \/ LoopsOver(ss[j], x)
       \/ ss[j].kind = "Let" /\ ss[j].expr = Id(x) /\ can_be_used_for_iter(ss, ss[j].name, j + 1)

RouteLet(ss, i, r) ==
    LET s == ss[i]
        iter == can_be_used_for_iter(ss, s.name, i + 1)
        env == [Env(r.locals, NoBinding) EXCEPT !.arrays = iter \/ s.expr.kind = "ArrayLit"]
        w == analyze_wait_value_spec(s.expr)
        waited == AddWait(r, w, i)
        init == IF s.expr.kind = "Wait" THEN WaitResultOf(w, Len(r.waits)) ELSE analyze_expr(s.expr, env)
        typed == apply_declared_type_to_expr(init, s.type)
        l == LocalFor(r.locals, env, s.name, typed)
        next == IF s.expr.kind = "Wait" THEN waited ELSE r
    IN CASE s.expr.kind # "Wait" /\ r.waits # <<>> -> Refused(r)
         [] init.type = ArrayT /\ ~(iter /\ is_static_for_iter_expr(init, r.locals)) -> Refused(r)
         [] ~Good(<<init, typed>>) \/ ~Fits(r.locals, l) -> Refused(r)
         [] OTHER -> [next EXCEPT !.locals = Append(@, l)]
RouteGuard(s, i, last, r) ==
    LET g == AnalyzeGuard(s, i, r.locals, Env(r.locals, NoBinding))
    IN IF g.ok /\ ~last /\ Len(r.guards) < kMaxGuards
       THEN [r EXCEPT !.locals = g.locals \o g.bound, !.guards = Append(@, g.out)] ELSE Refused(r)

\* Statement i; the control is the last one.
RouteStmt(ss, i, r) ==
    LET s == ss[i]
        last == i = Len(ss)
        control == analyze_control_stmt(s, r.locals, NoBinding)
    IN CASE s.kind = "Wait" -> AddWait(r, analyze_wait_value_spec(s.spec), i)
         [] s.kind = "Let" -> RouteLet(ss, i, r)
         [] s.kind = "Guard" -> RouteGuard(s, i, last, r)
         [] s.kind = "WaitAny" -> IF last THEN analyze_wait_any_stmt_control(s, i, r) ELSE Refused(r)
         [] s.kind = "For" -> IF r.waits = <<>> THEN analyze_for_stmt(s, i, r) ELSE Refused(r)
         [] OTHER -> IF last /\ control.ok
                     THEN [r EXCEPT !.locals = control.locals, !.control = <<control.out>>] ELSE Refused(r)
RECURSIVE RouteStmts(_, _, _)
RouteStmts(ss, i, r) == IF i > Len(ss) \/ ~r.ok THEN r ELSE RouteStmts(ss, i + 1, RouteStmt(ss, i, r))

\* Every expression of a route is rebuilt with the errors numbered; the rest keeps its shape.
\* Outside a loop the condition in the failing body of a guard is passed over.
Patched(names, e) == patch_named_error_variant(e, "__error_route", names)
MapLocals(ls, names) == [i \in DOMAIN ls |-> Local(ls[i].ref, ls[i].name, Patched(names, ls[i].init))]
MapBody(b, names) == IF b.kind = "If" THEN [b EXCEPT !.cond = Patched(names, @)] ELSE b
MapFail(f, looped, names) ==
    CASE f.kind = "Term" -> f
      [] f.kind = "Body" -> FailBody(MapLocals(f.locals, names), IF looped THEN MapBody(f.body, names) ELSE f.body)
      [] f.kind = "Match" ->
           FailMatch(Patched(names, f.subject),
                     [i \in DOMAIN f.arms |-> [f.arms[i] EXCEPT !.pattern = Patched(names, @)]])
MapGuards(gs, looped, names) ==
    [i \in DOMAIN gs |-> Guard(gs[i].start, Patched(names, gs[i].cond), MapFail(gs[i].fail, looped, names))]
MapArm(a, looped, names) ==
    [a EXCEPT !.pattern = Patched(names, @), !.arm_guard = Patched(names, @),
              !.guards = MapGuards(@, looped, names), !.locals = MapLocals(@, names),
              !.body = MapBody(@, names)]
MapControl(c, looped, names) ==
    IF c.kind = "Match"
    THEN Match(Patched(names, c.subject), [i \in DOMAIN c.arms |-> MapArm(c.arms[i], looped, names)])
    ELSE MapBody(c, names)
MapStep(st, names) ==
    CASE st.kind = "Let" -> [st EXCEPT !.local = MapLocals(<<@>>, names)[1]]
      [] st.kind = "Guard" -> [st EXCEPT !.item = MapGuards(<<@>>, TRUE, names)[1]]
      [] st.kind \in {"If", "Match"} -> [st EXCEPT !.item = MapControl(@, TRUE, names)]
      [] OTHER -> st
MapRoute(r, names) ==
    [r EXCEPT !.locals = MapLocals(@, names), !.guards = MapGuards(@, FALSE, names),
              !.loops = [i \in DOMAIN @ |->
                           [@[i] EXCEPT !.iter = Patched(names, @),
                                        !.steps = [j \in DOMAIN @ |-> MapStep(@[j], names)]]],
              !.control = [i \in DOMAIN @ |-> MapControl(@[i], FALSE, names)]]

\* The expressions that can name an error, in the order in which their names are numbered.
Inits(ls) == [i \in DOMAIN ls |-> ls[i].init]
CondOf(b) == IF b.kind = "If" THEN <<b.cond>> ELSE <<>>
GuardExprs(g, looped) ==
    <<g.cond>> \o (CASE g.fail.kind = "Match" ->
                           <<g.fail.subject>> \o [i \in DOMAIN g.fail.arms |-> g.fail.arms[i].pattern]
                     [] g.fail.kind = "Body" ->
                           Inits(g.fail.locals) \o (IF looped THEN CondOf(g.fail.body) ELSE <<>>)
                     [] OTHER -> <<>>)
AllGuardExprs(gs, looped) == FlattenSeq([i \in DOMAIN gs |-> GuardExprs(gs[i], looped)])
ArmExprs(a, looped) ==
    <<a.pattern>> \o (IF a.has_arm_guard THEN <<a.arm_guard>> ELSE <<>>) \o Inits(a.locals)
    \o AllGuardExprs(a.guards, looped) \o CondOf(a.body)
ControlExprs(c, looped) ==
    IF c.kind # "Match" THEN CondOf(c)
    ELSE <<c.subject>> \o FlattenSeq([i \in DOMAIN c.arms |-> ArmExprs(c.arms[i], looped)])
\* Of a loop: what it runs over, then its lets, guards, branches and matches.
LoopExprs(loop) ==
    LET of(kind) == SelectSeq(loop.steps, LAMBDA st : st.kind = kind)
        items(kind) == [i \in DOMAIN of(kind) |-> of(kind)[i].item]
        controls(kind) == FlattenSeq([i \in DOMAIN of(kind) |-> ControlExprs(of(kind)[i].item, TRUE)])
    IN <<loop.iter>> \o [i \in DOMAIN of("Let") |-> of("Let")[i].local.init]
       \o AllGuardExprs(items("Guard"), TRUE) \o controls("If") \o controls("Match")
RouteExprs(r) ==
    Inits(r.locals) \o AllGuardExprs(r.guards, FALSE)
    \o FlattenSeq([i \in DOMAIN r.loops |-> LoopExprs(r.loops[i])])
    \o FlattenSeq([i \in DOMAIN r.control |-> ControlExprs(r.control[i], FALSE)])

\* Errors named without a variant are the cases of a variant of the route.
NumberErrors(r) ==
    LET es == RouteExprs(r)
        names == FirstOccurrences(FlattenSeq([i \in DOMAIN es |-> collect_named_error_cases(es[i])]))
    IN IF names = <<>> THEN r
       ELSE MapRoute(r, names)

----------------------------------------------------------------------------
(* Decorators *)

validate_decorator_signature(f) ==
    f \in DOMAIN Functions /\ Len(Functions[f].params) = 1 /\ Functions[f].ret = I32T
\* A decorator is a local with the value of its function and a guard that this is zero;
\* otherwise the route returns it as the status.
AddDecorator(r, f) ==
    LET init == instantiate_function_expr(AnalyzedFunction(f), <<IntLit(0)>>)
        ref == next_local_ref_index(r.locals)
        l == [Local(ref, "_deco", init) EXCEPT !.type = I32T, !.may_nil = FALSE, !.may_error = FALSE]
        self == [Expr("LocalRef", I32T, <<>>) EXCEPT !.ref = ref]
        guard == Guard(0, Expr("Eq", BoolT, <<self, IntLit(0)>>), FailTerm(ReturnLocal(ref)))
    IN IF /\ validate_decorator_signature(f) /\ Good(<<init>>) /\ Fits(r.locals, l)
          /\ Len(r.guards) < kMaxGuards
       THEN [r EXCEPT !.locals = Append(@, l), !.guards = Append(@, guard)] ELSE Refused(r)
RECURSIVE AddDecorators(_, _)
AddDecorators(r, fs) ==
    IF fs = <<>> \/ ~r.ok THEN r ELSE AddDecorators(AddDecorator(r, Head(fs)), Tail(fs))
\* The decorators' guards go in front.  With a wait a decorated route has nothing else.
Decorated(r, fs) ==
    LET all == AddDecorators(r, fs)
        n == Len(r.guards)
        own == SubSeq(all.guards, 1, n)
    IN CASE ~all.ok -> all
         [] /\ fs # <<>> /\ r.waits # <<>>
            /\ \/ \E l \in Range(r.locals) : l.name # ""
               \/ n > 0 \/ r.control[1].kind # "Direct" \/ r.loops # <<>> -> Refused(r)
         [] OTHER -> [all EXCEPT !.guards = SubSeq(@, n + 1, Len(@)) \o own]

\* The typed route, or ok = FALSE for a program the front end rejects.
analyze_route(route) ==
    LET empty == [ok |-> TRUE, locals |-> <<>>, guards |-> <<>>, waits |-> <<>>, loops |-> <<>>, control |-> <<>>]
        body == RouteStmts(route.statements, 1, empty)
        full == IF body.ok /\ body.control # <<>> THEN Decorated(NumberErrors(body), route.decorators)
                ELSE Refused(empty)
    IN IF full.ok THEN [full EXCEPT !.control = @[1]] ELSE Refused(empty)
=============================================================================
