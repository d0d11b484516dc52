------------------------------ MODULE Codegen ------------------------------
(***************************************************************************)
(* What a compiled handler does (codegen.cc, jit_engine.cc, handler_abi.h, *)
(* jit_dispatch.h): the check LLVM makes of the module, the dispatch on    *)
(* the state of the frame, the value of every instruction, the stores into *)
(* the frame, the packed result and how the event loop reads it.           *)
(***************************************************************************)
EXTENDS LowerRir

----------------------------------------------------------------------------
(* Verification: a value computed in block 0 is not there when a resume skips block 0 *)

RECURSIVE LocalsOf(_)
LocalsOf(v) == IF v.op = "Local" THEN {v.int}
               ELSE UNION {LocalsOf(v.args[i]) : i \in DOMAIN v.args}

\* LLVM folds these into constants, which every block may use.
FoldedOps == {"Const", "ConstStr", "OptNil", "OptWrap", "OptIsNil", "OptUnwrap", "Select",
              "StructCreate", "StructField", "CmpEq", "CmpLt", "CmpGt", "CmpGe"}
RECURSIVE IsConstant(_, _)
IsConstant(v, constants) ==
    IF v.op = "Local" THEN v.int \in constants
    ELSE /\ v.op \in FoldedOps
         /\ v.op \in {"CmpEq", "CmpLt", "CmpGt", "CmpGe"} => v.args[1].type.k # "Str"
         /\ \A i \in DOMAIN v.args : IsConstant(v.args[i], constants)

RECURSIVE ConstantLocals(_, _)
ConstantLocals(locals, constants) ==
    IF locals = <<>> THEN constants
    ELSE ConstantLocals(Tail(locals),
                        IF IsConstant(Head(locals).value, constants)
                        THEN constants \union {Head(locals).ref} ELSE constants)

TermUses(term) ==
    CASE term.kind = "Br" -> LocalsOf(term.cond)
      [] term.kind = "RetStatus" -> IF term.literal THEN {} ELSE LocalsOf(term.value)
      [] OTHER -> {}
TermTargets(term) == IF term.kind = "Br" THEN {term.then, term.else} ELSE {}

RECURSIVE ReachableFrom(_, _)
ReachableFrom(fn, from) ==
    LET next == from \union UNION {TermTargets(fn.blocks[b + 1].term) : b \in from}
    IN IF next = from THEN from ELSE ReachableFrom(fn, next)

verify(fn) ==
    LET constants == ConstantLocals(fn.locals, {})
        resumed == IF fn.explicit THEN ReachableFrom(fn, {fn.resume[k] : k \in 1..Len(fn.yields)}) ELSE {}
    IN \A b \in resumed : TermUses(fn.blocks[b + 1].term) \subseteq constants

\* The code generator has room for so many values of a function.  A value that is an operand
\* twice is counted twice, so the count is never below the code's.  Its other limit, 64
\* blocks, is above what a route can have.
kMaxValues == 512
RECURSIVE ValueCount(_)
ValueCount(vs) ==
    IF vs = <<>> THEN 0
    ELSE (IF Head(vs).op = "Local" THEN 0 ELSE 1) + ValueCount(Head(vs).args) + ValueCount(Tail(vs))
TermValues(term) ==
    CASE term.kind = "Br" -> <<term.cond>>
      [] term.kind = "RetForward" \/ (term.kind = "RetStatus" /\ ~term.literal) -> <<term.value>>
      [] OTHER -> <<>>
FunctionValues(fn) ==
    [i \in DOMAIN fn.locals |-> fn.locals[i].value]
    \o FlattenSeq([b \in DOMAIN fn.blocks |->
                     [i \in DOMAIN fn.blocks[b].stores |-> fn.blocks[b].stores[i].value]
                     \o TermValues(fn.blocks[b].term)])
HasRoom(fn) == ValueCount(FunctionValues(fn)) <= kMaxValues

\* The engine takes all functions of a module or none.
compile(rir) ==
    IF \A i \in DOMAIN rir.functions : HasRoom(rir.functions[i]) /\ verify(rir.functions[i])
    THEN rir ELSE Rejected

----------------------------------------------------------------------------
(* Values at run time *)

IntV(n) == [t |-> "int", n |-> n]
BoolV(b) == IntV(IF b THEN 1 ELSE 0)
TextV(s) == [t |-> "str", s |-> s]
Some(v) == [t |-> "opt", some |-> TRUE, v |-> v]
None(v) == [t |-> "opt", some |-> FALSE, v |-> v]
StructVal(fields) == [t |-> "struct", f |-> fields]
Undef == [t |-> "undef"]

\* The payload of nil is zeroed for integers and strings only.
NilPayload(inner) == CASE inner.k = "I32" -> IntV(0)
                       [] inner.k = "Str" -> TextV("")
                       [] OTHER -> Undef

StrRank(s) == CHOOSE i \in DOMAIN StrOrder : StrOrder[i] = s

EmitCmp(op, a, b) ==
    LET x == IF a.t = "str" THEN StrRank(a.s) ELSE a.n
        y == IF b.t = "str" THEN StrRank(b.s) ELSE b.n
    IN IF Undef \in {a, b} THEN Undef
       ELSE CASE op = "CmpEq" -> BoolV(x = y)
              [] op = "CmpLt" -> BoolV(x < y)
              [] op = "CmpGt" -> BoolV(x > y)
              [] op = "CmpGe" -> BoolV(x >= y)

\* A frame without the slot reads the last event instead: even slots hold kinds.
CtxLoadSlot(ctx, slot) ==
    IntV(CASE slot < Len(ctx.slots) -> ctx.slots[slot + 1]
          [] slot >= Len(ctx.slots) /\ slot % 2 = 0 -> ctx.kind
          [] slot >= Len(ctx.slots) /\ slot % 2 = 1 -> ctx.result)

OptUnwrap(o) == IF o = Undef THEN Undef ELSE o.v
OptIsNil(o) == IF o = Undef THEN Undef ELSE BoolV(~o.some)
FieldAt(s, type, name) ==
    IF s = Undef THEN Undef ELSE s.f[CHOOSE i \in DOMAIN type.fields : type.fields[i].name = name]
SelectVal(c, t, e) == IF c = Undef THEN Undef ELSE IF c.n = 1 THEN t ELSE e

\* What the runtime helpers give: text, a flag, a number, or a lookup that may find nothing.
ReqText(x) == TextV(x.text)
ReqFlag(x) == BoolV(x.truth)
ReqNumber(x) == IntV(x.num)
ReqLookup(x) == IF x.v = "nil" THEN None(TextV("")) ELSE Some(TextV(x.text))
HelperValue(kind, x) ==
    CASE kind \in ReqMayNil -> ReqLookup(x)
      [] kind \notin ReqMayNil /\ x.v = "num" -> ReqNumber(x)
      [] kind \notin ReqMayNil /\ x.v = "truth" -> ReqFlag(x)
      [] kind \notin ReqMayNil /\ x.v = "text" -> ReqText(x)
HelperReturns(req) ==
    [k \in DOMAIN req |-> IF k[1] = "regex" THEN req[k] ELSE HelperValue(k[1], req[k])]

\* The request is the function from accessors to what the runtime helpers return.
RECURSIVE emit_instruction(_, _, _, _)
emit_instruction(v, req, ctx, locals) ==
    LET arg(i) == emit_instruction(v.args[i], req, ctx, locals)
    IN CASE v.op = "Const" -> IntV(v.int)
         [] v.op = "ConstStr" -> TextV(v.str)
         [] v.op = "Local" -> locals[v.int]
         [] v.op \in ReqKinds -> req[<<v.op, v.str>>]
         [] v.op = "StrRegexMatch" -> BoolV(<<v.str, arg(1).s>> \in req[<<"regex", "">>])
         [] v.op = "ResumeEventKind" -> IntV(ctx.kind)
         [] v.op = "ResumeEventResult" -> IntV(ctx.result)
         [] v.op = "CtxLoadSlotI32" -> CtxLoadSlot(ctx, v.int)
         [] v.op \in {"CmpEq", "CmpLt", "CmpGt", "CmpGe"} -> EmitCmp(v.op, arg(1), arg(2))
         [] v.op = "OptNil" -> None(NilPayload(v.type.inner))
         [] v.op = "OptWrap" -> Some(arg(1))
         [] v.op = "OptIsNil" -> OptIsNil(arg(1))
         [] v.op = "OptUnwrap" -> OptUnwrap(arg(1))
         [] v.op = "Select" -> SelectVal(arg(1), arg(2), arg(3))
         [] v.op = "StructCreate" -> StructVal([i \in DOMAIN v.args |-> arg(i)])
         [] v.op = "StructField" -> FieldAt(arg(1), v.args[1].type, v.str)

----------------------------------------------------------------------------
(* The packed result: eight bytes, low first *)

Low(n) == n % 256
High(n) == (n \div 256) % 256
pack(action, status, upstream, next_state, kind) ==
    <<action, Low(status), High(status), Low(upstream), High(upstream), Low(next_state),
      High(next_state), kind>>

make_result_status(code, body_idx, headers_idx) == pack(0, code, body_idx, headers_idx, 0)
make_result_forward(upstream) == pack(1, 0, upstream, 0, 0)
\* The payload of a yield takes the status and the upstream fields.
make_result_yield(next_state, kind, payload) ==
    pack(2, payload % 2^16, (payload \div 2^16) % 2^16, next_state, kind)
UndefResult == <<>>

ResultOf(term, req, ctx, locals) ==
    LET value == emit_instruction(term.value, req, ctx, locals)
    IN CASE term.kind = "RetStatus" /\ term.literal ->
                make_result_status(term.code, term.body_idx, term.headers_idx)
         [] term.kind = "RetStatus" /\ ~term.literal ->
                IF value.t # "int" THEN UndefResult ELSE make_result_status(value.n % 2^16, 0, 0)
         [] term.kind = "RetForward" -> make_result_forward(value.n)
         [] term.kind = "Yield" -> make_result_yield(term.next_state, term.event, term.payload)

----------------------------------------------------------------------------
(* One call of a handler *)

RECURSIVE Store(_, _)
Store(ctx, stores) ==
    IF stores = <<>> THEN ctx
    ELSE LET st == Head(stores)
             v == emit_instruction(st.value, <<>>, ctx, <<>>).n
         IN Store(IF st.slot < Len(ctx.slots) THEN [ctx EXCEPT !.slots[st.slot + 1] = v] ELSE ctx,
                  Tail(stores))

RECURSIVE ComputeLocals(_, _, _, _)
ComputeLocals(ls, req, ctx, done) ==
    IF ls = <<>> THEN done
    ELSE LET v == emit_instruction(Head(ls).value, req, ctx, done)
         IN ComputeLocals(Tail(ls), req, ctx, (Head(ls).ref :> v) @@ done)

\* Runs from a block to a result; the frame keeps what was stored on the way.
RECURSIVE RunBlocks(_, _, _, _, _)
RunBlocks(fn, req, ctx, locals, bi) ==
    LET block == fn.blocks[bi + 1]
        stored == Store(ctx, block.stores)
        term == block.term
        cond == emit_instruction(term.cond, req, stored, locals)
    IN IF term.kind # "Br" THEN [ctx |-> stored, packed |-> ResultOf(term, req, stored, locals)]
       ELSE IF cond = Undef THEN [ctx |-> stored, packed |-> UndefResult]
       ELSE RunBlocks(fn, req, stored, locals, IF cond.n = 1 THEN term.then ELSE term.else)

\* The entry of a function with yields is a switch on the state.
emit_function(fn, req, ctx) ==
    LET target == CASE ~fn.explicit -> 0
                    [] fn.explicit /\ ctx.state <= Len(fn.yields) -> fn.resume[ctx.state]
                    [] OTHER -> fn.resume[0]
    IN RunBlocks(fn, req, ctx, ComputeLocals(fn.locals, req, ctx, <<>>), target)

----------------------------------------------------------------------------
(* What the event loop makes of it *)

Word(packed, i) == packed[i + 1] + packed[i + 2] * 256
yield_payload_u32(packed) == Word(packed, 1) + Word(packed, 3) * 2^16

kTimer == 3
kAny == 4
EventKinds == 4..9

Outcome(kind) == [kind |-> kind, status |-> 0, upstream |-> 0, next_state |-> 0, yield_kind |-> 0,
                  timer_ms |-> 0, body_idx |-> 0, headers_idx |-> 0]
invoke_jit_handler(packed) ==
    CASE packed = UndefResult -> Outcome("Undefined")
      [] packed # UndefResult /\ packed[1] = 0 ->
             [Outcome("ReturnStatus") EXCEPT !.status = Word(packed, 1), !.body_idx = Word(packed, 3),
                                             !.headers_idx = Word(packed, 5)]
      [] packed # UndefResult /\ packed[1] = 1 ->
             [Outcome("Forward") EXCEPT !.upstream = Word(packed, 3)]
      [] packed # UndefResult /\ packed[1] = 2 /\ packed[8] \in EventKinds \union {kTimer} ->
             [Outcome(IF packed[8] = kTimer THEN "TimerYield" ELSE "EventYield")
                 EXCEPT !.next_state = Word(packed, 5), !.yield_kind = packed[8],
                        !.timer_ms = yield_payload_u32(packed)]
      [] OTHER -> Outcome("Error")

\* The event that ends a wait; a wait for any takes a receive or its timer.
yield_kind_matches_event(kind, event) ==
    IF kind = kAny THEN event \in {5, kTimer} ELSE event = kind
=============================================================================
