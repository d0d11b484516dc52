------------------------------ MODULE MirBuild ------------------------------
(***************************************************************************)
(* From the typed route to basic blocks (mir_build.cc).  Block targets are *)
(* positions counted from 0 that the code computes before it pushes any    *)
(* block; the blocks themselves are then pushed in an order of their own,  *)
(* and nothing but the two agreeing makes a jump land where it should.     *)
(* One builder serves each shape of route: with waits, with loops, with    *)
(* guards only, and without any.                                           *)
(***************************************************************************)
EXTENDS Hir, SequencesExt, TLC

kMaxBlocks == 16

Rejected == [kind |-> "Rejected"]

----------------------------------------------------------------------------
(* Values *)

MirConst(e) == e

MirRequest(e) ==
    [e EXCEPT !.type = ReqType[e.kind],
              !.may_nil = e.kind \in ReqMayNil]

ConstKinds == {"BoolLit", "IntLit", "StrLit"}
AggregateKinds == {"Tuple", "StructInit", "TupleSlot", "VariantCase", "Field", "RegexMatch"}
OperatorKinds == {"Eq", "Lt", "Gt", "IfElse", "Or", "NoError", "HasValue", "ValueOf",
                  "MissingOf", "MatchPayload", "VariantTag", "Nil", "Error"}

RECURSIVE mir_value(_, _)

\* Aggregates and projections: every child is translated first.
MirAggregate(e, ctx) == [e EXCEPT !.args = [i \in DOMAIN e.args |-> mir_value(e.args[i], ctx)]]

\* Operators on values that may be nil or an error.
MirOperator(e, ctx) ==
    [e EXCEPT !.args = [i \in DOMAIN e.args |-> mir_value(e.args[i], ctx)],
              !.type = CASE e.kind \in {"Eq", "Lt", "Gt", "NoError", "HasValue"} -> BoolT
                         [] e.kind = "VariantTag" -> I32T
                         [] e.kind \in {"Nil", "Error"} -> UnknownT
                         [] OTHER -> e.type]

\* A reference to a loop variable, or to a local of the body being unrolled, becomes the
\* value it has in this iteration.
MirLocalRef(e, ctx) == IF e.ref \in DOMAIN ctx THEN ctx[e.ref] ELSE e

\* A field of a wait's result takes the number of its wait from the operand.
MirWait(e, ctx) ==
    IF e.kind = "WaitResult" THEN e
    ELSE LET w == mir_value(Lhs(e), ctx) IN [e EXCEPT !.args = <<w>>, !.wait = w.wait]

mir_value(e, ctx) ==
    CASE e.kind \in ConstKinds -> MirConst(e)
      [] e.kind \in AggregateKinds -> MirAggregate(e, ctx)
      [] e.kind \in ReqKinds -> MirRequest(e)
      [] e.kind \in OperatorKinds -> MirOperator(e, ctx)
      [] e.kind = "LocalRef" -> MirLocalRef(e, ctx)
      [] e.kind \in {"WaitResult", "WaitField"} -> MirWait(e, ctx)

NoCtx == <<>>
\* The first binding of a reference wins.
Bind(ctx, ref, v) == ctx @@ (ref :> v)

\* Locals that get a runtime value: tuples and arrays are expanded where they are used, a
\* local whose name was cleared is a loop variable, a wait's result lives in the frame.
mir_locals(route) ==
    LET kept == SelectSeq(route.locals,
                    LAMBDA l : /\ l.type.k \notin {"Tuple", "Array"}
                               /\ l.name # ""
                               /\ ~l.is_wait_result)
    IN [i \in DOMAIN kept |-> [kept[i] EXCEPT !.init = mir_value(kept[i].init, NoCtx)]]

----------------------------------------------------------------------------
(* Terminators and failing guards *)

set_term_from_hir(t) == t
Branch(c, then, else) == [kind |-> "Branch", use_cmp |-> FALSE, cond |-> c,
                          then |-> then, else |-> else]
Compare(l, r, then, else) == [kind |-> "Branch", use_cmp |-> TRUE, lhs |-> l, rhs |-> r,
                              then |-> then, else |-> else]

Tested(arms) == {i \in DOMAIN arms : ~arms[i].is_wildcard}

\* Mutant: the block of the condition is forgotten.
guard_fail_block_count_NoTest(g) ==
    CASE g.fail.kind = "Term" -> 1
      [] g.fail.kind = "Body" -> IF g.fail.body.kind = "If" THEN 2 ELSE 1
      [] g.fail.kind = "Match" -> Cardinality(Tested(g.fail.arms)) + Len(g.fail.arms)

guard_fail_block_count(g) ==
    CASE g.fail.kind = "Term" -> 1
      [] g.fail.kind = "Body" -> IF g.fail.body.kind = "If" THEN 3 ELSE 1
      [] g.fail.kind = "Match" -> Cardinality(Tested(g.fail.arms)) + Len(g.fail.arms)

RECURSIVE BindLocals(_, _)
BindLocals(ctx, locals) ==
    IF locals = <<>> THEN ctx
    ELSE BindLocals(Bind(ctx, Head(locals).ref, mir_value(Head(locals).init, ctx)), Tail(locals))

GuardFailBody(at, fail, ctx) ==
    LET body_ctx == BindLocals(ctx, fail.locals)
        b == fail.body
    IN IF b.kind = "If"
       THEN <<Branch(mir_value(b.cond, body_ctx), at + 1, at + 2),
              set_term_from_hir(b.then), set_term_from_hir(b.else)>>
       ELSE <<set_term_from_hir(b.term)>>

\* Tests of the arms that are not wildcards come first, then one block per arm.
GuardFailMatch(at, fail, ctx) ==
    LET arms == fail.arms
        tested == SetToSortSeq(Tested(arms), <)
        n == Len(tested)
        case_index(i) == at + n + i - 1
        default_index == CHOOSE d \in {case_index(i) : i \in DOMAIN arms \ Tested(arms)} : TRUE
        test(k) == Compare(mir_value(fail.subject, ctx), mir_value(arms[tested[k]].pattern, ctx),
                           case_index(tested[k]), IF k < n THEN at + k ELSE default_index)
    IN [k \in 1..n |-> test(k)] \o [i \in DOMAIN arms |-> set_term_from_hir(arms[i].term)]

\* Appends the blocks of a failing guard.
emit_guard_fail(blocks, g, ctx) ==
    blocks \o CASE g.fail.kind = "Term" -> <<set_term_from_hir(g.fail.term)>>
                [] g.fail.kind = "Body" -> GuardFailBody(Len(blocks), g.fail, ctx)
                [] g.fail.kind = "Match" -> GuardFailMatch(Len(blocks), g.fail, ctx)

RECURSIVE EmitFails(_, _, _)
EmitFails(blocks, guards, ctx) ==
    IF guards = <<>> THEN blocks
    ELSE EmitFails(emit_guard_fail(blocks, Head(guards), ctx), Tail(guards), ctx)

\* Where the blocks of each of these failing guards start, and where they end.
RECURSIVE FailStarts(_, _)
FailStarts(at, guards) ==
    IF guards = <<>> THEN <<at>>
    ELSE <<at>> \o FailStarts(at + guard_fail_block_count(Head(guards)), Tail(guards))

----------------------------------------------------------------------------
(* The match that ends a route *)

\* The blocks of one arm, from position at: the case block, the prelude guards (the first
\* sits in the case block unless an arm guard does), the body, the failing guards, the
\* branches of an If body.
ArmLayout(arm, at) ==
    LET n == Len(arm.guards)
        inline == IF arm.has_arm_guard THEN 0 ELSE 1
        body == IF n # 0 THEN at + n + 1 - inline ELSE IF arm.has_arm_guard THEN at + 1 ELSE at
        fails == FailStarts(body + 1, arm.guards)
        then == Last(fails)
    IN [block |-> at, guard |-> [i \in 1..n |-> at + i - inline], body |-> body, fail |-> fails,
        then |-> then, else |-> then + 1, next |-> IF arm.body.kind = "If" THEN then + 2 ELSE then]

RECURSIVE MatchLayout(_, _)
MatchLayout(arms, at) ==
    IF arms = <<>> THEN <<>>
    ELSE LET l == ArmLayout(Head(arms), at) IN <<l>> \o MatchLayout(Tail(arms), l.next)

\* Mutant: the next arm is entered without its test.
arm_fallthrough_target_NextArm(layout, at, i) == layout[i + 1].block

\* An arm whose guard fails goes on with the next test, or with the default arm.
arm_fallthrough_target(layout, at, i) ==
    IF i < Len(layout) - 1 THEN at + i ELSE layout[i + 1].block

BodyTerm(arm, l) ==
    IF arm.body.kind = "If" THEN Branch(mir_value(arm.body.cond, NoCtx), l.then, l.else)
    ELSE set_term_from_hir(arm.body.term)

set_match_arm_guard_branch(arm, l, fallthrough) ==
    Branch(mir_value(arm.arm_guard, NoCtx), IF arm.guards # <<>> THEN l.guard[1] ELSE l.body,
           fallthrough)

GuardTerm(arm, l, i) ==
    Branch(mir_value(arm.guards[i].cond, NoCtx),
           IF i < Len(arm.guards) THEN l.guard[i + 1] ELSE l.body, l.fail[i])

emit_match_prelude_guard_blocks(arm, l) ==
    LET from == IF arm.has_arm_guard THEN 1 ELSE 2
    IN [k \in 1..(Len(arm.guards) + 1 - from) |-> GuardTerm(arm, l, k + from - 1)]

ArmBlocks(blocks, layout, arms, at, i) ==
    LET arm == arms[i]
        l == layout[i]
        case == CASE arm.has_arm_guard ->
                         set_match_arm_guard_branch(arm, l, arm_fallthrough_target(layout, at, i))
                  [] ~arm.has_arm_guard /\ arm.guards # <<>> -> GuardTerm(arm, l, 1)
                  [] OTHER -> BodyTerm(arm, l)
        start == Append(blocks, case) \o emit_match_prelude_guard_blocks(arm, l)
        body == IF arm.guards # <<>> \/ arm.has_arm_guard
                THEN EmitFails(Append(start, BodyTerm(arm, l)), arm.guards, NoCtx)
                ELSE start
    IN IF arm.body.kind = "If"
       THEN body \o <<set_term_from_hir(arm.body.then), set_term_from_hir(arm.body.else)>>
       ELSE body

RECURSIVE ArmsFrom(_, _, _, _, _)
ArmsFrom(blocks, layout, arms, at, i) ==
    IF i > Len(arms) THEN blocks
    ELSE ArmsFrom(ArmBlocks(blocks, layout, arms, at, i), layout, arms, at, i + 1)

\* The last arm is never tested: it is where the last test goes when it fails.
MatchTests(layout, ctl, at) ==
    LET n == Len(ctl.arms) - 1
    IN [i \in 1..n |-> Compare(mir_value(ctl.subject, NoCtx), mir_value(ctl.arms[i].pattern, NoCtx),
                               layout[i].block, IF i < n THEN at + i ELSE layout[n + 1].block)]

MatchBlocks(blocks, ctl, at) ==
    LET layout == MatchLayout(ctl.arms, at + Len(ctl.arms) - 1)
    IN ArmsFrom(blocks \o MatchTests(layout, ctl, at), layout, ctl.arms, at, 1)

MatchEnd(ctl, at) == Last(MatchLayout(ctl.arms, at + Len(ctl.arms) - 1)).next

IfBlocks(blocks, ctl, at) ==
    blocks \o <<Branch(mir_value(ctl.cond, NoCtx), at + 1, at + 2),
                set_term_from_hir(ctl.then), set_term_from_hir(ctl.else)>>

\* The terminal control, which starts at position at.
ControlBlocks(blocks, ctl, at) ==
    CASE ctl.kind = "Direct" -> Append(blocks, set_term_from_hir(ctl.term))
      [] ctl.kind = "If" -> IfBlocks(blocks, ctl, at)
      [] ctl.kind = "Match" -> MatchBlocks(blocks, ctl, at)

ControlEnd(ctl, at) ==
    CASE ctl.kind = "Direct" -> at + 1
      [] ctl.kind = "If" -> at + 3
      [] ctl.kind = "Match" -> MatchEnd(ctl, at)

\* The last arm of a match has nothing to fall through to.
LastArmOpen(ctl) == ctl.kind = "Match" /\ Last(ctl.arms).has_arm_guard

----------------------------------------------------------------------------
(* Routes with waits *)

\* Guards and waits in the order of the source.
RouteSteps(route) ==
    LET guards == [i \in DOMAIN route.guards |->
                      [kind |-> "Guard", index |-> i, start |-> route.guards[i].start]]
        waits == [i \in DOMAIN route.waits |->
                      [kind |-> "Wait", index |-> i, start |-> route.waits[i].start]]
    IN SortSeq(guards \o waits, LAMBDA a, b : a.start < b.start)

WaitOrdinal(steps, si) == Cardinality({i \in 1..si : steps[i].kind = "Wait"})

StepGuards(route, steps) ==
    LET gs == SelectSeq(steps, LAMBDA st : st.kind = "Guard")
    IN [i \in DOMAIN gs |-> route.guards[gs[i].index]]

\* One block per step; a wait yields with its number, and its successor is where that
\* number resumes.
WaitStep(route, steps, fails, si) ==
    LET st == steps[si]
        ordinal == Cardinality({i \in 1..si : steps[i].kind = "Guard"})
    IN IF st.kind = "Guard" THEN Branch(mir_value(route.guards[st.index].cond, NoCtx), si,
                                        fails[ordinal])
       ELSE [kind |-> "YieldTimer", event |-> route.waits[st.index].event,
             ms |-> route.waits[st.index].ms, next_state |-> WaitOrdinal(steps, si)]

WaitBlocks(route) ==
    LET steps == RouteSteps(route)
        terminal == Len(steps)
        guards == StepGuards(route, steps)
        fails == FailStarts(ControlEnd(route.control, terminal), guards)
        stepped == [si \in 1..terminal |-> WaitStep(route, steps, fails, si)]
    IN EmitFails(ControlBlocks(stepped, route.control, terminal), guards, NoCtx)

\* resume_blocks[0] is the entry, resume_blocks[k] the block after the k-th wait.
ResumeBlocks(route) ==
    LET steps == RouteSteps(route)
        step(k) == CHOOSE si \in DOMAIN steps : steps[si].kind = "Wait" /\ WaitOrdinal(steps, si) = k
    IN [k \in 0..Len(route.waits) |-> IF k = 0 THEN 0 ELSE step(k)]

----------------------------------------------------------------------------
(* Routes without waits and loops *)

GuardChain(guards, body, fails) ==
    [i \in DOMAIN guards |-> Branch(mir_value(guards[i].cond, NoCtx),
                                    IF i < Len(guards) THEN i ELSE body, fails[i])]

PlainDirect(route) ==
    LET n == Len(route.guards)
        chain == GuardChain(route.guards, n, FailStarts(n + 1, route.guards))
    IN EmitFails(Append(chain, set_term_from_hir(route.control.term)), route.guards, NoCtx)

PlainIf(route) ==
    LET n == Len(route.guards)
        chain == GuardChain(route.guards, n, FailStarts(n + 3, route.guards))
    IN EmitFails(IfBlocks(chain, route.control, n), route.guards, NoCtx)

PlainMatch(route) ==
    LET n == Len(route.guards)
        layout == MatchLayout(route.control.arms, n + Len(route.control.arms) - 1)
        body == IF Len(route.control.arms) > 1 THEN n ELSE layout[1].block
        chain == GuardChain(route.guards, body, FailStarts(Last(layout).next, route.guards))
    IN EmitFails(MatchBlocks(chain, route.control, n), route.guards, NoCtx)

PlainBlocks(route) ==
    CASE route.control.kind = "Direct" -> PlainDirect(route)
      [] route.control.kind = "If" -> PlainIf(route)
      [] route.control.kind = "Match" -> PlainMatch(route)

----------------------------------------------------------------------------
(* Routes with static loops: each iteration's guards join one chain of steps *)

\* The array literal a loop runs over, inline or through route locals.
RECURSIVE iter_array_for(_, _)
iter_array_for(route, e) ==
    IF e.kind = "ArrayLit" THEN e.args
    ELSE iter_array_for(route, (CHOOSE l \in ToSet(route.locals) : l.ref = e.ref).init)

StepOf(kind, item, ctx, start) == [kind |-> kind, item |-> item, ctx |-> ctx, start |-> start]

IsChild(route, fi) ==
    \E f \in DOMAIN route.loops : \E s \in ToSet(route.loops[f].steps) :
        s.kind = "For" /\ s.index = fi

RECURSIVE emit_for_loop(_, _, _, _)
RECURSIVE LoopBody(_, _, _, _)
RECURSIVE LoopIterations(_, _, _, _, _)

\* The steps of one iteration: a let extends the context of the steps after it.
LoopBody(route, steps, ctx, start) ==
    IF steps = <<>> THEN <<>>
    ELSE LET st == Head(steps)
             rest(c) == LoopBody(route, Tail(steps), c, start)
         IN CASE st.kind = "Let" -> rest(Bind(ctx, st.local.ref, mir_value(st.local.init, ctx)))
              [] st.kind = "For" -> emit_for_loop(route, st.index, ctx, start) \o rest(ctx)
              [] OTHER -> <<StepOf(st.kind, st.item, ctx, start)>> \o rest(ctx)

LoopIterations(route, loop, elems, ctx, start) ==
    IF elems = <<>> THEN <<>>
    ELSE LoopBody(route, loop.steps, Bind(ctx, loop.var, mir_value(Head(elems), ctx)), start)
         \o LoopIterations(route, loop, Tail(elems), ctx, start)

\* A body that ends the route runs for the first element only.
emit_for_loop(route, fi, ctx, start) ==
    LET loop == route.loops[fi]
        elems == iter_array_for(route, loop.iter)
    IN LoopIterations(route, loop,
                      IF loop.has_term /\ elems # <<>> THEN <<elems[1]>> ELSE elems, ctx, start)

\* Route guards and unrolled loops in the order of the source, up to the first step that
\* ends the route.
ForSteps(route) ==
    LET guards == [i \in DOMAIN route.guards |->
                      StepOf("Guard", route.guards[i], NoCtx, route.guards[i].start)]
        tops == SelectSeq([i \in DOMAIN route.loops |-> i], LAMBDA fi : ~IsChild(route, fi))
        unrolled == FlattenSeq([k \in DOMAIN tops |->
                        emit_for_loop(route, tops[k], NoCtx, route.loops[tops[k]].start)])
        sorted == SortSeq(guards \o unrolled, LAMBDA a, b : a.start < b.start)
        ends == {i \in DOMAIN sorted : sorted[i].kind # "Guard"}
    IN IF ends = {} THEN sorted
       ELSE SubSeq(sorted, 1, CHOOSE i \in ends : \A j \in ends : i <= j)

Terminating(steps) == steps # <<>> /\ Last(steps).kind # "Guard"

\* A match inside a loop body: the first test is the step itself, the others follow, then
\* the arm guards, the prelude guards, the cases and the failing guards, arm by arm.
Offset(sizes, i) == FoldLeft(LAMBDA n, size : n + size, 0, SubSeq(sizes, 1, i - 1))

BodyMatchLayout(arms, at) ==
    LET tests == Cardinality(Tested(arms))
        extra == IF tests > 0 THEN tests - 1 ELSE 0
        guarded == [i \in DOMAIN arms |-> IF arms[i].has_arm_guard THEN 1 ELSE 0]
        preludes == [i \in DOMAIN arms |-> Len(arms[i].guards)]
        cases == [i \in DOMAIN arms |-> IF arms[i].body.kind = "If" THEN 3 ELSE 1]
        fails == [i \in DOMAIN arms |->
                    FoldLeft(LAMBDA m, g : m + guard_fail_block_count(g), 0, arms[i].guards)]
        n == Len(arms)
        guard0 == at + extra
        prelude0 == guard0 + Offset(guarded, n + 1)
        case0 == prelude0 + Offset(preludes, n + 1)
        fail0 == case0 + Offset(cases, n + 1)
    IN [tests |-> tests,
        test |-> [i \in DOMAIN arms |-> at + Cardinality({j \in Tested(arms) : j < i}) - 1],
        guard |-> [i \in DOMAIN arms |-> guard0 + Offset(guarded, i)],
        prelude |-> [i \in DOMAIN arms |-> prelude0 + Offset(preludes, i)],
        case |-> [i \in DOMAIN arms |-> case0 + Offset(cases, i)],
        fail |-> [i \in DOMAIN arms |-> FailStarts(fail0 + Offset(fails, i), arms[i].guards)],
        end |-> fail0 + Offset(fails, n + 1)]

body_match_arm_body_index(arms, l, i) ==
    IF arms[i].guards # <<>> THEN l.prelude[i] ELSE l.case[i]

body_match_arm_entry_index(arms, l, i) ==
    IF arms[i].has_arm_guard THEN l.guard[i] ELSE body_match_arm_body_index(arms, l, i)

\* Where an arm goes whose test or guard fails: the default arm, the next test, or, after
\* the last arm, that arm itself.
body_match_fallthrough_target(arms, l, i) ==
    CASE i = Len(arms) -> body_match_arm_entry_index(arms, l, i)
      [] i < Len(arms) /\ arms[i + 1].is_wildcard -> body_match_arm_entry_index(arms, l, i + 1)
      [] OTHER -> l.test[i + 1]

BodyMatchTest(m, ctx, l, i) ==
    Compare(mir_value(m.subject, ctx), mir_value(m.arms[i].pattern, ctx),
            body_match_arm_entry_index(m.arms, l, i),
            IF i < l.tests THEN l.test[i + 1] ELSE body_match_fallthrough_target(m.arms, l, i))

\* The step that starts the match.
BodyMatchEntry(m, ctx, l) ==
    IF l.tests = 0
    THEN Branch(BoolLit(TRUE), body_match_arm_entry_index(m.arms, l, 1),
                body_match_arm_entry_index(m.arms, l, 1))
    ELSE BodyMatchTest(m, ctx, l, 1)

extend_for_loop_match_arm_ctx(arm, ctx) == BindLocals(ctx, arm.locals)

BodyMatchArmGuard(m, ctx, l, i) ==
    Branch(mir_value(m.arms[i].arm_guard, extend_for_loop_match_arm_ctx(m.arms[i], ctx)),
           body_match_arm_body_index(m.arms, l, i), body_match_fallthrough_target(m.arms, l, i))

emit_body_match_prelude_guards(arm, ctx, l, i) ==
    [g \in DOMAIN arm.guards |->
        Branch(mir_value(arm.guards[g].cond, extend_for_loop_match_arm_ctx(arm, ctx)),
               IF g < Len(arm.guards) THEN l.prelude[i] + g ELSE l.case[i], l.fail[i][g])]

\* The case of an arm and the branches of an If body.
set_body_match_arm_term(arm, ctx, l, i) ==
    IF arm.body.kind = "If"
    THEN <<Branch(mir_value(arm.body.cond, extend_for_loop_match_arm_ctx(arm, ctx)),
                  l.case[i] + 1, l.case[i] + 2),
           set_term_from_hir(arm.body.then), set_term_from_hir(arm.body.else)>>
    ELSE <<set_term_from_hir(arm.body.term)>>

RECURSIVE emit_body_match_prelude_guard_fails(_, _, _)
emit_body_match_prelude_guard_fails(blocks, arms, ctx) ==
    IF arms = <<>> THEN blocks
    ELSE emit_body_match_prelude_guard_fails(
             EmitFails(blocks, Head(arms).guards, extend_for_loop_match_arm_ctx(Head(arms), ctx)),
             Tail(arms), ctx)

BodyMatchBlocks(blocks, m, ctx, l) ==
    LET guarded == SelectSeq([i \in DOMAIN m.arms |-> i], LAMBDA i : m.arms[i].has_arm_guard)
        tests == [k \in 1..(l.tests - 1) |-> BodyMatchTest(m, ctx, l, k + 1)]
        guards == [k \in DOMAIN guarded |-> BodyMatchArmGuard(m, ctx, l, guarded[k])]
        preludes == FlattenSeq([i \in DOMAIN m.arms |->
                                   emit_body_match_prelude_guards(m.arms[i], ctx, l, i)])
        cases == FlattenSeq([i \in DOMAIN m.arms |->
                                set_body_match_arm_term(m.arms[i], ctx, l, i)])
    IN emit_body_match_prelude_guard_fails(blocks \o tests \o guards \o preludes \o cases,
                                           m.arms, ctx)

\* Where the blocks of the failing guards start.
ForFailStart(route, steps) ==
    LET at == Len(steps)
    IN IF ~Terminating(steps) THEN ControlEnd(route.control, at)
       ELSE CASE Last(steps).kind = "Term" -> at
              [] Last(steps).kind = "If" -> at + 2
              [] Last(steps).kind = "Match" -> BodyMatchLayout(Last(steps).item.arms, at).end

ForStep(steps, fails, si) ==
    LET st == steps[si]
        at == Len(steps)
        ordinal == Cardinality({i \in 1..si : steps[i].kind = "Guard"})
    IN CASE st.kind = "Term" -> set_term_from_hir(st.item)
         [] st.kind = "If" -> Branch(mir_value(st.item.cond, st.ctx), at, at + 1)
         [] st.kind = "Match" -> BodyMatchEntry(st.item, st.ctx, BodyMatchLayout(st.item.arms, at))
         [] st.kind = "Guard" -> Branch(mir_value(st.item.cond, st.ctx), si, fails[ordinal])

\* What follows the steps: the rest of the step that ends the route, or the route's control.
ForTail(route, steps, blocks) ==
    LET last == Last(steps)
    IN IF ~Terminating(steps) THEN ControlBlocks(blocks, route.control, Len(steps))
       ELSE CASE last.kind = "Term" -> blocks
              [] last.kind = "If" -> blocks \o <<set_term_from_hir(last.item.then),
                                                set_term_from_hir(last.item.else)>>
              [] last.kind = "Match" ->
                     BodyMatchBlocks(blocks, last.item, last.ctx,
                                     BodyMatchLayout(last.item.arms, Len(steps)))

RECURSIVE ForFails(_, _)
ForFails(blocks, steps) ==
    IF steps = <<>> THEN blocks
    ELSE ForFails(emit_guard_fail(blocks, Head(steps).item, Head(steps).ctx), Tail(steps))

ForBlocks(route) ==
    LET steps == ForSteps(route)
        guards == SelectSeq(steps, LAMBDA st : st.kind = "Guard")
        fails == FailStarts(ForFailStart(route, steps), [i \in DOMAIN guards |-> guards[i].item])
        stepped == [si \in DOMAIN steps |-> ForStep(steps, fails, si)]
    IN ForFails(ForTail(route, steps, stepped), guards)

----------------------------------------------------------------------------
\* One function per route; a route that needs more than kMaxBlocks is refused.
build_mir(route) ==
    LET blocks == IF route.loops # <<>> THEN ForBlocks(route)
                  ELSE IF route.waits # <<>> THEN WaitBlocks(route)
                  ELSE PlainBlocks(route)
        explicit == route.waits # <<>> /\ route.loops = <<>>
        ended == route.loops # <<>> /\ Terminating(ForSteps(route))
    IN IF (~ended /\ LastArmOpen(route.control)) \/ Len(blocks) > kMaxBlocks THEN Rejected
       ELSE [kind |-> "Mir", locals |-> mir_locals(route), waits |-> route.waits,
             blocks |-> blocks, explicit |-> explicit,
             resume |-> IF explicit THEN ResumeBlocks(route) ELSE <<>>]
=============================================================================
