-------------------------------- MODULE Hir --------------------------------
(***************************************************************************)
(* The typed route that the analyser hands to the back half of the         *)
(* compiler: type shapes, expressions, guards, match arms, loops and the   *)
(* terminal control of one route (hir.h).  A node refers to its children   *)
(* by value where the code points into a pool; source positions are kept   *)
(* only where the code sorts by them.                                      *)
(***************************************************************************)
EXTENDS Naturals, Sequences, FiniteSets, TLC

CONSTANTS
    Structs,        \* struct name -> sequence of [name, type] fields
    Variants,       \* variant name -> sequence of [name, payload] cases
    Upstreams,      \* the upstream declarations in source order
    StrOrder        \* the strings that occur, in byte order

\* Interned type shapes: two shapes have one index exactly when they are equal.
Prim(k) == [k |-> k]
BoolT == Prim("Bool")
I32T == Prim("I32")
StrT == Prim("Str")
MethodT == Prim("Method")
UnknownT == Prim("Unknown")
ArrayT == Prim("Array")
TupleT(elems) == [k |-> "Tuple", elems |-> elems]
StructT(s) == [k |-> "Struct", name |-> s]
VariantT(v) == [k |-> "Variant", name |-> v]
NoPayload == Prim("None")

HasPayload(c) == c.payload # NoPayload
FieldIndex(s, f) == CHOOSE i \in DOMAIN Structs[s] : Structs[s][i].name = f
FieldType(s, f) == Structs[s][FieldIndex(s, f)].type

\* An expression; the fields a kind does not use keep these defaults.
Expr(kind, type, args) ==
    [kind |-> kind, type |-> type, may_nil |-> FALSE, may_error |-> FALSE, args |-> args,
     int |-> 0, str |-> "", name |-> "", ref |-> 0, names |-> <<>>, estruct |-> "", evar |-> "",
     wait |-> 0, event |-> "", ms |-> 0]
IsWaitResult(e) == e.event # ""
Fallible(e) == e.may_nil \/ e.may_error

Lhs(e) == e.args[1]
Rhs(e) == e.args[2]

IntLit(n) == [Expr("IntLit", I32T, <<>>) EXCEPT !.int = n]
StrLit(s) == [Expr("StrLit", StrT, <<>>) EXCEPT !.str = s]
BoolLit(b) == [Expr("BoolLit", BoolT, <<>>) EXCEPT !.int = IF b THEN 1 ELSE 0]

\* Accessors of the request; the lookups by name, other than of a path parameter, may be absent.
ReqType ==
    [k \in {"ReqHeader", "ReqParam", "ReqCookie", "ReqQuery", "ReqQueryString", "ReqPath",
            "ReqPathOnly", "ReqBody", "ReqHttpVersion"} |-> StrT]
    @@ [k \in {"ReqKeepAlive", "ReqChunked", "ReqHasContentLength", "ReqHttp10", "ReqHttp11"} |-> BoolT]
    @@ [k \in {"ReqMethod", "ConstMethod"} |-> MethodT]
    @@ ("ReqContentLength" :> Prim("ByteSize")) @@ ("ReqRemoteAddr" :> Prim("IP"))
ReqKinds == DOMAIN ReqType
ReqMayNil == {"ReqHeader", "ReqCookie", "ReqQuery", "ReqQueryString"}

\* How a route ends: a status (a literal, or the value of a local) or a proxied upstream.
ReturnStatus(code) == [kind |-> "ReturnStatus", source |-> "Literal", status |-> code,
                       ref |-> 0, body |-> "", headers |-> <<>>, upstream |-> ""]
ReturnLocal(ref) == [ReturnStatus(0) EXCEPT !.source = "LocalRef", !.ref = ref]
ForwardUpstream(u) == [ReturnStatus(0) EXCEPT !.kind = "ForwardUpstream", !.upstream = u]

\* Control: one terminator, a two-way branch, or a match whose last arm is the default.
Direct(t) == [kind |-> "Direct", term |-> t]
If(c, t, e) == [kind |-> "If", cond |-> c, then |-> t, else |-> e]
Match(s, arms) == [kind |-> "Match", subject |-> s, arms |-> arms]

\* What a failing guard does: terminate, run a small body, or match on the error.
FailTerm(t) == [kind |-> "Term", term |-> t]
FailBody(locals, b) == [kind |-> "Body", locals |-> locals, body |-> b]
FailMatch(s, arms) == [kind |-> "Match", subject |-> s, arms |-> arms]

Guard(start, c, fail) == [start |-> start, cond |-> c, fail |-> fail]

\* One arm of a match: pattern, optional arm guard, prelude guards, Direct or If body.
\* locals are bound by an arm of a match inside a loop.
Arm(wild, p, guards, b) ==
    [is_wildcard |-> wild, pattern |-> p, has_arm_guard |-> FALSE, arm_guard |-> p,
     guards |-> guards, locals |-> <<>>, body |-> b]
Guarded(arm, c) == [arm EXCEPT !.has_arm_guard = TRUE, !.arm_guard = c]

Local(ref, name, init) == [ref |-> ref, name |-> name, type |-> init.type, may_nil |-> init.may_nil,
                           may_error |-> init.may_error, estruct |-> init.estruct,
                           evar |-> init.evar, init |-> init, is_wait_result |-> IsWaitResult(init)]

\* Caps of the fixed vectors a route is built in.
kMaxGuards == 8
kMaxLocals == 16
kMaxForLoops == 2
kMaxWaits == 4
\* Of the parts of a route: a failing body, a match, an arm, a loop's body and its arms.
kMaxBodyLocals == 4
kMaxMatchArms == 8
kMaxPreludeGuards == 4
kMaxLoopLocals == 4
kMaxLoopGuards == 2
kMaxArmLocals == 4
kMaxArmGuards == 2
=============================================================================
