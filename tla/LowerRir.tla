------------------------------ MODULE LowerRir ------------------------------
(***************************************************************************)
(* From basic blocks to the low-level IR (lower_rir.cc): the carriers of   *)
(* structs, variants, tuples and fallible values, the code of each         *)
(* expression, the locals (all computed once, in block 0), the stores of   *)
(* wait results where a wait resumes, and the terminators.                 *)
(***************************************************************************)
EXTENDS MirBuild, RirBuilder

CONSTANTS
    StructNames,    \* the struct declarations in source order
    VariantNames    \* the variant declarations in source order

----------------------------------------------------------------------------
(* Carriers *)

ErrorFieldNames == <<"code", "msg", "file", "func", "line">>
ErrorStruct ==
    StructDef("Error", "", <<>>,
              [i \in 1..5 |-> Field(ErrorFieldNames[i],
                                    IF ErrorFieldNames[i] \in {"code", "line"} THEN Ty("I32")
                                    ELSE Ty("Str"))])

TupleFieldNames == <<"_1", "_2", "_3", "_4">>

PayloadKinds == <<"Bool", "I32", "Str", "Tuple", "Variant", "Struct">>
payload_field_name(k) == CASE k = "Bool" -> "payload_bool"
                           [] k = "Str" -> "payload_str"
                           [] k = "Tuple" -> "payload_tuple"
                           [] k = "Variant" -> "payload_variant"
                           [] k = "Struct" -> "payload_struct"
                           [] OTHER -> "payload_i32"

\* A variant the front end made of the named errors of a function or a route is not among
\* the declarations; none of its cases has a payload.
DeclaredCases(v) == IF v \in DOMAIN Variants THEN Variants[v] ELSE <<>>
CasePayload(v, i) == IF v \in DOMAIN Variants THEN Variants[v][i].payload ELSE NoPayload
ErrorCasesCarrier(v) ==
    StructDef("variant", v, <<>>,
              <<Field("tag", Ty("I32"))>> \o
              [i \in 1..6 |-> Field(payload_field_name(PayloadKinds[i]),
                                    Optional(Ty(IF PayloadKinds[i] \in {"Bool", "Str"} THEN PayloadKinds[i]
                                                ELSE "I32")))])

\* infos.structs and infos.variants hold the carriers built so far, infos.tuples those of
\* the tuple shapes met so far.
RECURSIVE rir_type_for_shape(_, _)
rir_type_for_shape(infos, t) ==
    CASE t.k \in {"Bool", "I32", "Str", "Method"} -> Ty(t.k)
      [] t.k = "Variant" ->
             IF t.name \in DOMAIN infos.variants THEN infos.variants[t.name]
             ELSE IF t.name \in DOMAIN Variants THEN Ty("I32") ELSE ErrorCasesCarrier(t.name)
      [] t.k = "Struct" ->
             IF t.name \in DOMAIN infos.structs THEN infos.structs[t.name] ELSE NoType
      [] t.k = "Tuple" ->
             IF t.elems \in DOMAIN infos.tuples THEN infos.tuples[t.elems]
             ELSE StructDef("__tuple", "", t.elems,
                            [i \in DOMAIN t.elems |->
                                Field(TupleFieldNames[i], rir_type_for_shape(infos, t.elems[i]))])
      [] OTHER -> NoType

\* A tuple shape is lowered once, with the carriers known then.
get_or_create_tuple_lowering(infos, t) ==
    IF t.elems \in DOMAIN infos.tuples THEN infos
    ELSE [infos EXCEPT !.tuples = @ @@ (t.elems :> rir_type_for_shape(infos, t))]

Incomplete(type) == type.k = "Struct" /\ \E i \in DOMAIN type.fields : type.fields[i].type = NoType

----------------------------------------------------------------------------
\* The aggregate payload a carrier is laid out for: the first of each kind counts, and the
\* last kind met wins; two shapes of one kind are refused.
Payloads(v) == LET with == SelectSeq(DeclaredCases(v), HasPayload)
               IN [i \in DOMAIN with |-> with[i].payload]
FirstOfKind(ps, i) == \A j \in 1..(i - 1) : ps[j].k # ps[i].k
AggregateShapes(v) ==
    LET ps == Payloads(v)
        firsts == SelectSeq([i \in DOMAIN ps |-> i],
                            LAMBDA i : ps[i].k \in {"Tuple", "Variant", "Struct"} /\ FirstOfKind(ps, i))
    IN [i \in DOMAIN firsts |-> ps[firsts[i]]]
PayloadConflict(v) ==
    LET ps == Payloads(v)
    IN \E i, j \in DOMAIN ps : /\ ps[i].k \in {"Tuple", "Variant", "Struct"}
                               /\ ps[i].k = ps[j].k /\ ps[i] # ps[j]
PayloadShape(v) == IF AggregateShapes(v) = <<>> THEN UnknownT ELSE Last(AggregateShapes(v))
TuplePayload(v) == IF PayloadShape(v).k = "Tuple" THEN PayloadShape(v) ELSE TupleT(<<>>)
HasKind(v, k) == \E i \in DOMAIN AggregateShapes(v) : AggregateShapes(v)[i].k = k

PayloadKind(k) == IF k \in {"Bool", "Str", "Tuple", "Variant", "Struct"} THEN k ELSE "I32"

\* The inner type of a payload field; a kind no case uses is an i32.
payload_inner_type(infos, v, k) ==
    CASE k \in {"Bool", "Str"} -> Ty(k)
      [] k \in {"Tuple", "Variant", "Struct"} /\ HasKind(v, k) ->
             rir_type_for_shape(infos, IF k = "Tuple" THEN TuplePayload(v) ELSE PayloadShape(v))
      [] OTHER -> Ty("I32")

FieldTypeReady(infos, t) ==
    CASE t.k = "Variant" -> t.name \in DOMAIN infos.variants
      [] t.k = "Struct" -> t.name \in DOMAIN infos.structs
      [] OTHER -> TRUE

CarrierFieldType(infos, t) == IF t.k = "Error" THEN ErrorStruct ELSE rir_type_for_shape(infos, t)

\* Lowers the tuple shapes among these; one with an element that has no carrier fails.
RECURSIVE LowerTuples(_, _)
LowerTuples(infos, types) ==
    IF types = <<>> THEN infos
    ELSE LET t == Head(types)
             next == IF t.k = "Tuple" THEN get_or_create_tuple_lowering(infos, t) ELSE infos
         IN LowerTuples([next EXCEPT !.ok = @ /\ ~Incomplete(rir_type_for_shape(next, t))], Tail(types))

\* Builds the struct unless a field waits for another carrier; the tuple fields before that
\* field are lowered either way, with the carriers known now.
build_user_struct(infos, s) ==
    LET fields == Structs[s]
        waiting == {i \in DOMAIN fields : ~FieldTypeReady(infos, fields[i].type)}
        reached == IF waiting = {} THEN Len(fields) ELSE Min(waiting) - 1
        next == LowerTuples(infos, [i \in 1..reached |-> fields[i].type])
        def == StructDef("struct", s, <<>>,
                         [i \in DOMAIN fields |->
                             Field(fields[i].name, CarrierFieldType(next, fields[i].type))])
    IN IF s \in DOMAIN infos.structs THEN infos
       ELSE IF waiting # {} THEN next
       ELSE [next EXCEPT !.structs = @ @@ (s :> def), !.ok = @ /\ ~Incomplete(def)]

CarrierWaits(infos, v) ==
    \E k \in {"Variant", "Struct"} :
        HasKind(v, k) /\ ~(PayloadShape(v).k = k /\ FieldTypeReady(infos, PayloadShape(v)))

\* The carrier of a variant: a tag and one optional payload per kind.
build_variant_carrier(infos, v) ==
    LET next == IF HasKind(v, "Tuple") THEN LowerTuples(infos, <<TuplePayload(v)>>) ELSE infos
        def == StructDef("variant", v, <<>>,
                   <<Field("tag", Ty("I32"))>> \o
                   [i \in 1..6 |-> Field(payload_field_name(PayloadKinds[i]),
                                         Optional(payload_inner_type(next, v, PayloadKinds[i])))])
    IN IF v \in DOMAIN infos.variants \/ CarrierWaits(infos, v) THEN infos
       ELSE [next EXCEPT !.variants = @ @@ (v :> def)]

RECURSIVE BuildStructs(_, _)
BuildStructs(infos, names) ==
    IF names = <<>> THEN infos ELSE BuildStructs(build_user_struct(infos, Head(names)), Tail(names))
RECURSIVE BuildVariants(_, _)
BuildVariants(infos, names) ==
    IF names = <<>> THEN infos
    ELSE BuildVariants(build_variant_carrier(infos, Head(names)), Tail(names))

\* Passes over the declarations, structs first, until one makes no progress.
RECURSIVE BuildCarriers(_)
BuildCarriers(infos) ==
    LET next == BuildVariants(BuildStructs(infos, StructNames), VariantNames)
    IN IF next = infos THEN infos ELSE BuildCarriers(next)

NoInfos == [structs |-> <<>>, variants |-> <<>>, tuples |-> <<>>, ok |-> TRUE]
Infos == BuildCarriers(NoInfos)
CarriersBuilt(infos) ==
    /\ infos.ok
    /\ \A v \in Range(VariantNames) : v \in DOMAIN infos.variants /\ ~PayloadConflict(v)
    /\ \A s \in Range(StructNames) : s \in DOMAIN infos.structs

\* The carrier of a value that may be an error: the error and the payload, both optional.
make_error_info(name, of, inner) ==
    [def |-> StructDef(name, of, <<>>, <<Field("err", Optional(ErrorStruct)),
                                         Field("payload", Optional(inner))>>),
     inner |-> inner]
error_info_for(infos, t, estruct) ==
    IF estruct # "" THEN make_error_info("__error_struct", estruct, infos.structs[estruct])
    ELSE CASE t.k \in {"Bool", "I32", "Str"} -> make_error_info("__error", t.k, Ty(t.k))
           [] t.k = "Variant" ->
                  make_error_info("__error_variant", t.name, rir_type_for_shape(infos, t))
           [] OTHER -> make_error_info("__error", "Unknown", Ty("I32"))

----------------------------------------------------------------------------
(* Comparisons, by the shape of the operands *)

\* The fields of a tuple or struct shape, in order.
FieldsOf(t) == IF t.k = "Tuple" THEN [i \in DOMAIN t.elems |-> Field(TupleFieldNames[i], t.elems[i])]
               ELSE Structs[t.name]

RECURSIVE emit_eq_for_standard_error(_, _, _, _)
emit_eq_for_standard_error(l, r, i, result) ==
    IF i > 5 THEN result
    ELSE LET f == ErrorStruct.fields[i]
             eq == emit_cmp("CmpEq", emit_struct_field(l, f.name, f.type),
                            emit_struct_field(r, f.name, f.type))
         IN emit_eq_for_standard_error(l, r, i + 1, emit_select(result, eq, result))

RECURSIVE emit_eq_for_shape(_, _, _, _)

EqField(infos, f, l, r) ==
    IF f.type.k = "Error"
    THEN emit_eq_for_standard_error(emit_struct_field(l, f.name, ErrorStruct),
                                    emit_struct_field(r, f.name, ErrorStruct), 1,
                                    emit_const_bool(TRUE))
    ELSE LET ty == rir_type_for_shape(infos, f.type)
         IN emit_eq_for_shape(infos, f.type, emit_struct_field(l, f.name, ty),
                              emit_struct_field(r, f.name, ty))

\* Tuples and structs: every field equal.
RECURSIVE EqFields(_, _, _, _, _)
EqFields(infos, fields, l, r, result) ==
    IF fields = <<>> THEN result
    ELSE EqFields(infos, Tail(fields), l, r,
                  emit_select(result, EqField(infos, Head(fields), l, r), result))

Tag(v) == emit_struct_field(v, "tag", Ty("I32"))
Payload(infos, name, t, v) ==
    LET inner == payload_inner_type(infos, name, PayloadKind(t.k))
    IN emit_opt_unwrap(emit_struct_field(v, payload_field_name(t.k), Optional(inner)), inner)

\* Variants: the tags, or the payloads where the case of the left operand has one.
RECURSIVE EqCases(_, _, _, _, _, _)
EqCases(infos, name, i, l, r, result) ==
    IF i > Len(DeclaredCases(name)) THEN result
    ELSE LET c == DeclaredCases(name)[i]
             match == emit_cmp("CmpEq", Tag(l), emit_const_i32(i - 1))
             eq == emit_eq_for_shape(infos, c.payload, Payload(infos, name, c.payload, l),
                                     Payload(infos, name, c.payload, r))
         IN EqCases(infos, name, i + 1, l, r,
                    IF HasPayload(c) THEN emit_select(match, eq, result) ELSE result)

emit_eq_for_shape(infos, t, l, r) ==
    CASE t.k \in {"Bool", "I32", "Str", "Method"} -> emit_cmp("CmpEq", l, r)
      [] t.k \in {"Tuple", "Struct"} -> EqFields(infos, FieldsOf(t), l, r, emit_const_bool(TRUE))
      [] t.k = "Variant" -> EqCases(infos, t.name, 1, l, r, emit_cmp("CmpEq", Tag(l), Tag(r)))
      [] OTHER -> Invalid

RECURSIVE emit_ord_for_shape(_, _, _, _, _)

\* Lexicographic order: from the last field to the first.
RECURSIVE OrdFields(_, _, _, _, _, _)
OrdFields(infos, op, fields, l, r, result) ==
    IF fields = <<>> THEN result
    ELSE LET f == Last(fields)
             ty == rir_type_for_shape(infos, f.type)
             lf == emit_struct_field(l, f.name, ty)
             rf == emit_struct_field(r, f.name, ty)
         IN OrdFields(infos, op, Front(fields), l, r,
                      emit_select(emit_eq_for_shape(infos, f.type, lf, rf), result,
                                  emit_ord_for_shape(infos, op, f.type, lf, rf)))

RECURSIVE OrdCases(_, _, _, _, _, _, _)
OrdCases(infos, op, name, i, l, r, result) ==
    IF i = 0 THEN result
    ELSE LET c == DeclaredCases(name)[i]
             match == emit_cmp("CmpEq", Tag(l), emit_const_i32(i - 1))
             ord == emit_ord_for_shape(infos, op, c.payload, Payload(infos, name, c.payload, l),
                                       Payload(infos, name, c.payload, r))
         IN OrdCases(infos, op, name, i - 1, l, r,
                     IF HasPayload(c) THEN emit_select(match, ord, result) ELSE result)

emit_ord_for_shape(infos, op, t, l, r) ==
    CASE t.k \in {"I32", "Str"} -> emit_cmp(op, l, r)
      [] t.k \in {"Tuple", "Struct"} -> OrdFields(infos, op, FieldsOf(t), l, r, emit_const_bool(FALSE))
      [] t.k = "Variant" -> OrdCases(infos, op, t.name, Len(DeclaredCases(t.name)), l, r,
                                     emit_cmp(op, Tag(l), Tag(r)))
      [] OTHER -> Invalid

----------------------------------------------------------------------------
(* Expressions *)

RECURSIVE materialize_value(_, _, _)

MaterializeTuple(e, infos, locals) ==
    emit_struct_create(rir_type_for_shape(infos, e.type),
                       [i \in DOMAIN e.args |-> materialize_value(e.args[i], infos, locals)])

\* Fields are created in the order of the declaration, whatever the order of the initialisers.
InitOf(e, name) == e.args[CHOOSE j \in DOMAIN e.names : e.names[j] = name]
MaterializeStruct(e, infos, locals) ==
    LET fields == Structs[e.type.name]
    IN IF \E i \in DOMAIN fields : fields[i].name \notin Range(e.names) THEN Invalid
       ELSE emit_struct_create(rir_type_for_shape(infos, e.type),
                [i \in DOMAIN fields |-> materialize_value(InitOf(e, fields[i].name), infos, locals)])

\* The case's own payload field holds the payload, every other one is nil.
MaterializeCase(e, infos, locals) ==
    LET v == e.type.name
        payload == CasePayload(v, e.int + 1)
        held(k) == payload # NoPayload /\ e.args # <<>> /\ PayloadKind(payload.k) = k
        field(k) == IF held(k) THEN emit_opt_wrap(materialize_value(e.args[1], infos, locals))
                    ELSE emit_opt_nil(payload_inner_type(infos, v, k))
    IN emit_struct_create(rir_type_for_shape(infos, e.type),
           <<emit_const_i32(e.int)>> \o [i \in 1..6 |-> field(PayloadKinds[i])])

MaterializeSlot(e, infos, locals) ==
    emit_struct_field(materialize_value(Lhs(e), infos, locals), TupleFieldNames[e.int + 1],
                      rir_type_for_shape(infos, e.type))

\* Event kinds as the handler ABI numbers them.
EventCode == [Timer |-> 3, Any |-> 4, Recv |-> 5, Send |-> 6, UpstreamConnect |-> 7,
              UpstreamRecv |-> 8, UpstreamSend |-> 9]
yield_kind_abi(event) == EventCode[event]
\* Waits are counted from 0.
wait_kind_slot(w) == w * 2
wait_result_slot(w) == w * 2 + 1
PredicateEvent == [timer |-> "Timer", recv |-> "Recv", send |-> "Send",
                   upstream_connect |-> "UpstreamConnect", upstream_recv |-> "UpstreamRecv",
                   upstream_send |-> "UpstreamSend"]

\* A field of a wait's result: read from the frame, or tested against it.
MaterializeWaitField(e) ==
    LET kind == emit_ctx_load_slot_i32(wait_kind_slot(e.wait))
        result == emit_ctx_load_slot_i32(wait_result_slot(e.wait))
        zero == emit_const_i32(0)
        is(event) == emit_cmp("CmpEq", kind, emit_const_i32(yield_kind_abi(event)))
        empty == emit_cmp("CmpEq", result, zero)
    IN CASE e.str = "kind" -> kind
         [] e.str = "result" -> result
         [] e.str = "ok" -> emit_cmp("CmpGe", result, zero)
         [] e.str = "eof" -> emit_select(is("Recv"), empty,
                                 emit_select(is("UpstreamRecv"), empty, emit_const_bool(FALSE)))
         [] e.str \in DOMAIN PredicateEvent -> is(PredicateEvent[e.str])
         [] OTHER -> Invalid

ErrOf(v) == emit_struct_field(v, "err", Optional(ErrorStruct))
PayloadOf(v, info) == emit_struct_field(v, "payload", Optional(info.inner))
Not(v) == emit_cmp("CmpEq", v, emit_const_bool(FALSE))

\* A field of the error of a fallible value, or of a struct.
MaterializeField(e, infos, locals) ==
    LET lhs == materialize_value(Lhs(e), infos, locals)
        t == Lhs(e).type
    IN IF Lhs(e).may_error /\ e.str \in Range(ErrorFieldNames)
       THEN emit_struct_field(emit_opt_unwrap(ErrOf(lhs), ErrorStruct), e.str,
                              rir_type_for_shape(infos, e.type))
       ELSE IF t.k = "Struct" /\ \E i \in DOMAIN Structs[t.name] : Structs[t.name][i].name = e.str
       THEN emit_struct_field(lhs, e.str, CarrierFieldType(infos, FieldType(t.name, e.str)))
       ELSE Invalid

\* lhs or rhs: the payload unless there is an error or no payload.
MaterializeOr(e, infos, locals) ==
    LET lhs == materialize_value(Lhs(e), infos, locals)
        rhs == materialize_value(Rhs(e), infos, locals)
        inner == rir_type_for_shape(infos, e.type)
        info == error_info_for(infos, e.type, e.estruct)
        error_missing == Not(emit_opt_is_nil(ErrOf(lhs)))
        payload == PayloadOf(lhs, info)
        missing == emit_select(error_missing, error_missing, emit_opt_is_nil(payload))
    IN IF Lhs(e).kind \in {"Nil", "Error"} THEN rhs
       ELSE IF Lhs(e).may_error THEN emit_select(missing, rhs, emit_opt_unwrap(payload, inner))
       ELSE emit_select(emit_opt_is_nil(lhs), rhs, emit_opt_unwrap(lhs, inner))

ErrorValue(e, file, func) ==
    emit_struct_create(ErrorStruct, <<emit_const_i32(e.int), emit_const_str(e.str),
                                      emit_const_str(file), emit_const_str(func), emit_const_i32(0)>>)

\* A branch of a conditional that may be an error, or nil, in the carrier of the whole.
wrap_error_branch(branch, v, info) ==
    IF branch.may_error /\ branch.kind # "Error" THEN v
    ELSE emit_struct_create(info.def,
             IF branch.kind = "Error"
             THEN <<emit_opt_wrap(ErrorValue(branch, "", "")), emit_opt_nil(info.inner)>>
             ELSE <<emit_opt_nil(ErrorStruct),
                    IF branch.kind = "Nil" THEN emit_opt_nil(info.inner)
                    ELSE IF branch.may_nil THEN v ELSE emit_opt_wrap(v)>>)
wrap_optional_branch(branch, v, inner) ==
    IF branch.kind = "Nil" THEN emit_opt_nil(inner)
    ELSE IF branch.may_nil THEN v ELSE emit_opt_wrap(v)

MaterializeIfElse(e, infos, locals) ==
    LET cond == materialize_value(e.args[1], infos, locals)
        then == materialize_value(e.args[2], infos, locals)
        else == materialize_value(e.args[3], infos, locals)
        info == error_info_for(infos, e.type, e.estruct)
        inner == rir_type_for_shape(infos, e.type)
    IN IF ~valid_val(then) \/ ~valid_val(else) THEN Invalid
       ELSE IF e.may_error
       THEN emit_select(cond, wrap_error_branch(e.args[2], then, info),
                        wrap_error_branch(e.args[3], else, info))
       ELSE IF e.may_nil
       THEN emit_select(cond, wrap_optional_branch(e.args[2], then, inner),
                        wrap_optional_branch(e.args[3], else, inner))
       ELSE emit_select(cond, then, else)

\* The tests and projections a guard binding is made of.
MaterializeTest(e, infos, locals) ==
    LET lhs == materialize_value(Lhs(e), infos, locals)
        info == error_info_for(infos, Lhs(e).type, Lhs(e).estruct)
        no_error == emit_opt_is_nil(ErrOf(lhs))
    IN CASE e.kind = "NoError" -> no_error
         [] e.kind = "HasValue" /\ ~Lhs(e).may_error -> Not(emit_opt_is_nil(lhs))
         [] e.kind = "HasValue" /\ Lhs(e).may_error /\ ~Lhs(e).may_nil -> no_error
         [] OTHER -> emit_select(no_error, Not(emit_opt_is_nil(PayloadOf(lhs, info))),
                                 emit_const_bool(FALSE))

MaterializeProjection(e, infos, locals) ==
    LET lhs == materialize_value(Lhs(e), infos, locals)
        inner == rir_type_for_shape(infos, e.type)
        info == error_info_for(infos, e.type, e.estruct)
        err == IF Lhs(e).may_error THEN ErrOf(lhs) ELSE emit_opt_nil(ErrorStruct)
    IN CASE e.kind = "ValueOf" ->
                emit_opt_unwrap(IF Lhs(e).may_error THEN PayloadOf(lhs, info) ELSE lhs, inner)
         [] e.kind = "MissingOf" ->
                IF ~valid_val(lhs) THEN Invalid
                ELSE IF e.may_error THEN emit_struct_create(info.def, <<err, emit_opt_nil(inner)>>)
                ELSE emit_opt_nil(inner)

MaterializeMatchPayload(e, infos, locals) ==
    IF Lhs(e).type.k # "Variant" THEN Invalid
    ELSE Payload(infos, Lhs(e).type.name, CasePayload(Lhs(e).type.name, e.int + 1),
                 materialize_value(Lhs(e), infos, locals))

MaterializeVariantTag(e, infos, locals) ==
    IF Lhs(e).type.k # "Variant" THEN Invalid ELSE Tag(materialize_value(Lhs(e), infos, locals))

MaterializeCompare(e, infos, locals) ==
    LET lhs == materialize_value(Lhs(e), infos, locals)
        rhs == materialize_value(Rhs(e), infos, locals)
    IN IF e.kind = "Eq" THEN emit_eq_for_shape(infos, Lhs(e).type, lhs, rhs)
       ELSE emit_ord_for_shape(infos, IF e.kind = "Lt" THEN "CmpLt" ELSE "CmpGt",
                               Lhs(e).type, lhs, rhs)

MaterializeConst(e) ==
    CASE e.kind = "BoolLit" -> emit_const_bool(e.int = 1)
      [] e.kind = "StrLit" -> emit_const_str(e.str)
      [] e.kind = "ConstMethod" -> emit_const_method(e.int)
      [] OTHER -> emit_const_i32(e.int)

\* A local is the value computed for it in block 0.
LocalValue(locals, ref) ==
    IF ref \in DOMAIN locals THEN Value("Local", locals[ref].type, <<>>, ref, "") ELSE Invalid

materialize_value(e, infos, locals) ==
    CASE e.kind \in {"BoolLit", "IntLit", "StrLit", "ConstMethod", "Nil", "Error"} ->
             MaterializeConst(e)
      [] e.kind = "Tuple" -> MaterializeTuple(e, infos, locals)
      [] e.kind = "StructInit" -> MaterializeStruct(e, infos, locals)
      [] e.kind = "VariantCase" -> MaterializeCase(e, infos, locals)
      [] e.kind = "TupleSlot" -> MaterializeSlot(e, infos, locals)
      [] e.kind \in ReqKinds \ {"ConstMethod"} -> emit_req(e.kind, e.str)
      [] e.kind = "RegexMatch" ->
             emit_str_regex_match(materialize_value(Lhs(e), infos, locals), e.str)
      [] e.kind = "WaitResult" -> Invalid
      [] e.kind = "WaitField" -> MaterializeWaitField(e)
      [] e.kind = "Field" -> MaterializeField(e, infos, locals)
      [] e.kind = "Or" -> MaterializeOr(e, infos, locals)
      [] e.kind = "IfElse" -> MaterializeIfElse(e, infos, locals)
      [] e.kind \in {"NoError", "HasValue"} -> MaterializeTest(e, infos, locals)
      [] e.kind \in {"ValueOf", "MissingOf"} -> MaterializeProjection(e, infos, locals)
      [] e.kind = "MatchPayload" -> MaterializeMatchPayload(e, infos, locals)
      [] e.kind = "VariantTag" -> MaterializeVariantTag(e, infos, locals)
      [] e.kind \in {"Eq", "Lt", "Gt"} -> MaterializeCompare(e, infos, locals)
      [] e.kind = "LocalRef" -> LocalValue(locals, e.ref)

----------------------------------------------------------------------------
(* Locals: computed in block 0 in the order of the route *)

\* The error of a local initialised with error(...); a struct of the program's own may
\* carry it together with further fields.
LocalError(init, infos, locals) ==
    LET fields == Structs[init.estruct]
        error == ErrorValue(init, "module", "route")
        is_err(f) == f.name = "err" /\ f.type.k = "Error"
        field(f) == IF is_err(f) THEN error
                    ELSE IF f.name \notin Range(init.names) THEN Invalid
                    ELSE materialize_value(InitOf(init, f.name), infos, locals)
    IN IF init.estruct = "" THEN error
       ELSE emit_struct_field(emit_struct_create(infos.structs[init.estruct],
                                                 [i \in DOMAIN fields |-> field(fields[i])]),
                              "err", ErrorStruct)

LocalInner(infos, t) == IF t.k \in {"Variant", "Struct", "Str"} THEN rir_type_for_shape(infos, t)
                        ELSE Ty("I32")

\* A local that may be an error: its error, if any, and its payload, if any.
ErrorLocal(l, infos, locals) ==
    LET info == error_info_for(infos, l.type, l.estruct)
        init == materialize_value(l.init, infos, locals)
        payload == IF l.init.kind = "Nil" THEN emit_opt_nil(LocalInner(infos, l.type))
                   ELSE IF l.init.may_nil THEN init ELSE emit_opt_wrap(init)
    IN IF l.type.k \notin {"I32", "Str", "Variant", "Struct", "Unknown"} THEN Invalid
       ELSE IF l.init.may_error /\ l.init.kind # "Error" THEN init
       ELSE emit_struct_create(info.def,
                IF l.init.kind = "Error"
                THEN <<emit_opt_wrap(LocalError(l.init, infos, locals)), emit_opt_nil(info.inner)>>
                ELSE <<emit_opt_nil(ErrorStruct), payload>>)

OptionalLocal(l, infos, locals) ==
    LET init == materialize_value(l.init, infos, locals)
    IN IF l.type.k \notin {"I32", "Str", "Variant", "Struct"} THEN Invalid
       ELSE IF l.init.kind = "Nil" THEN emit_opt_nil(LocalInner(infos, l.type))
       ELSE IF l.init.may_nil THEN init ELSE emit_opt_wrap(init)

materialize_local_init(l, infos, locals) ==
    IF l.may_error THEN ErrorLocal(l, infos, locals)
    ELSE IF l.may_nil THEN OptionalLocal(l, infos, locals)
    ELSE materialize_value(l.init, infos, locals)

RECURSIVE LowerLocals(_, _, _)
LowerLocals(ls, infos, locals) ==
    IF ls = <<>> THEN locals
    ELSE LET v == materialize_local_init(Head(ls), infos, locals)
         IN IF valid_val(v) THEN LowerLocals(Tail(ls), infos, (Head(ls).ref :> v) @@ locals)
            ELSE (Head(ls).ref :> Invalid)

----------------------------------------------------------------------------
(* Terminators *)

RhsTag(e, v) == IF e.type.k = "Variant" THEN Tag(v) ELSE v

\* The condition of a match test: an error is compared by its code, a variant by its tag.
CompareTerm(term, infos, locals) ==
    LET lhs == materialize_value(term.lhs, infos, locals)
        rhs == materialize_value(term.rhs, infos, locals)
        err == ErrOf(lhs)
        code == emit_struct_field(emit_opt_unwrap(err, ErrorStruct), "code", Ty("I32"))
    IN IF ~valid_val(rhs) THEN Invalid
       ELSE CASE term.lhs.kind = "Error" /\ term.lhs.evar # "" ->
                     emit_cmp("CmpEq", lhs, RhsTag(term.rhs, rhs))
              [] term.lhs.kind # "Error" /\ term.lhs.may_error /\ term.lhs.evar # "" ->
                     emit_select(Not(emit_opt_is_nil(err)),
                                 emit_cmp("CmpEq", code, RhsTag(term.rhs, rhs)),
                                 emit_const_bool(FALSE))
              [] ~(term.lhs.may_error /\ term.lhs.evar # "") /\ term.lhs.type.k = "Variant" ->
                     emit_cmp("CmpEq", Tag(lhs), Tag(rhs))
              [] OTHER -> emit_cmp("CmpEq", lhs, rhs)

\* Upstreams are numbered from 0.
UpstreamId(u) == (CHOOSE i \in DOMAIN Upstreams : Upstreams[i] = u) - 1

\* A terminator and the tables with what it interned; m carries the tables of the module.
ReturnTerm(m, term, locals) ==
    LET bodies == intern_response_body(m.bodies, term.body)
        headers == intern_response_headers(m.headers, term.headers)
        body_idx == IF term.body = "" THEN 0 ELSE bodies.idx
        headers_idx == IF term.headers = <<>> THEN 0 ELSE headers.idx
    IN IF term.source = "LocalRef"
       THEN [m EXCEPT !.term = emit_ret_status_value(LocalValue(locals, term.ref))]
       ELSE IF (term.body # "" /\ body_idx = 0) \/ (term.headers # <<>> /\ headers_idx = 0)
       THEN [m EXCEPT !.term = InvalidTerm]
       ELSE [bodies |-> IF term.body = "" THEN m.bodies ELSE bodies.table,
             headers |-> IF term.headers = <<>> THEN m.headers ELSE headers.table,
             term |-> emit_ret_status(term.status, body_idx, headers_idx)]

emit_term(m, term, infos, locals, nblocks, waits) ==
    CASE term.kind = "Branch" ->
             LET cond == IF term.use_cmp THEN CompareTerm(term, infos, locals)
                         ELSE materialize_value(term.cond, infos, locals)
             IN [m EXCEPT !.term = emit_br(cond, term.then, term.else, nblocks)]
      [] term.kind = "ReturnStatus" -> ReturnTerm(m, term, locals)
      [] term.kind = "ForwardUpstream" ->
             [m EXCEPT !.term = emit_ret_forward(emit_const_i32(UpstreamId(term.upstream)))]
      [] term.kind = "YieldTimer" ->
             [m EXCEPT !.term = emit_yield_event(yield_kind_abi(term.event), term.ms,
                                                 term.next_state, waits)]

----------------------------------------------------------------------------
(* Functions *)

\* Where a wait resumes, the event that ended it is stored in the frame first.
WaitStores(fn, bi) ==
    LET resumed == SelectSeq([i \in DOMAIN fn.waits |-> i - 1],
                             LAMBDA w : fn.explicit /\ fn.resume[w + 1] = bi)
    IN FlattenSeq([k \in DOMAIN resumed |->
           <<emit_ctx_store_slot_i32(wait_kind_slot(resumed[k]), emit_resume_event_kind),
             emit_ctx_store_slot_i32(wait_result_slot(resumed[k]), emit_resume_event_result)>>])

RECURSIVE LowerBlocks(_, _, _, _, _)
LowerBlocks(m, fn, infos, locals, bi) ==
    IF bi = Len(fn.blocks) THEN m
    ELSE LET t == emit_term([bodies |-> m.bodies, headers |-> m.headers, term |-> InvalidTerm],
                            fn.blocks[bi + 1], infos, locals, Len(fn.blocks), Len(fn.waits))
         IN IF t.term = InvalidTerm THEN Rejected
            ELSE LowerBlocks([bodies |-> t.bodies, headers |-> t.headers,
                              blocks |-> Append(m.blocks, [stores |-> WaitStores(fn, bi), term |-> t.term])],
                             fn, infos, locals, bi + 1)

kMaxResumeBlocks == 8
ResumeFits(fn) == fn.explicit => /\ Len(fn.waits) + 1 <= kMaxResumeBlocks
                                 /\ \A k \in 0..Len(fn.waits) : fn.resume[k] < Len(fn.blocks)

\* Adds one function to the module, which is refused as soon as one operand does not fit.
LowerFunction(m, fn, infos) ==
    LET locals == LowerLocals(fn.locals, infos, <<>>)
        b == LowerBlocks([bodies |-> m.bodies, headers |-> m.headers, blocks |-> <<>>], fn, infos,
                         locals, 0)
        order == [i \in DOMAIN fn.locals |-> fn.locals[i].ref]
        ok == /\ ResumeFits(fn)
              /\ \A r \in DOMAIN locals : valid_val(locals[r])
              /\ b # Rejected
    IN IF ~ok THEN Rejected
       ELSE [kind |-> "Rir", bodies |-> b.bodies, headers |-> b.headers,
             functions |-> Append(m.functions,
                 [locals |-> [i \in DOMAIN order |-> [ref |-> order[i], value |-> locals[order[i]]]],
                  blocks |-> b.blocks, yields |-> fn.waits, explicit |-> fn.explicit,
                  resume |-> fn.resume])]

RECURSIVE LowerFunctions(_, _, _)
LowerFunctions(m, fns, infos) ==
    IF m = Rejected \/ fns = <<>> THEN m
    ELSE LowerFunctions(LowerFunction(m, Head(fns), infos), Tail(fns), infos)

kMaxUpstreams == 32
lower_to_rir(fns) ==
    LET infos == Infos
    IN IF ~CarriersBuilt(infos) \/ Len(Upstreams) > kMaxUpstreams THEN Rejected
       ELSE LowerFunctions([kind |-> "Rir", bodies |-> <<>>, headers |-> <<>>, functions |-> <<>>],
                           fns, infos)
=============================================================================
