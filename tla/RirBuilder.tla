----------------------------- MODULE RirBuilder -----------------------------
(***************************************************************************)
(* The builder of the low-level route IR (rir_builder.h).  A value is the  *)
(* tree of the instructions that compute it; each emitter checks the types *)
(* of its operands and yields Invalid when they do not fit, and Invalid    *)
(* operands make the result Invalid: the code returns an error at the      *)
(* first one and gives the whole module up.  Memory is not modelled.       *)
(***************************************************************************)
EXTENDS Naturals, Sequences, SequencesExt

----------------------------------------------------------------------------
(* Types *)

Ty(k) == [k |-> k]
Optional(inner) == [k |-> "Optional", inner |-> inner]
\* A struct definition is identified by what it was created for.
StructDef(name, of, elems, fields) ==
    [k |-> "Struct", name |-> name, of |-> of, elems |-> elems, fields |-> fields]
Field(name, type) == [name |-> name, type |-> type]
NoType == Ty("Null")

types_equal(a, b) == a = b

HasField(sd, name, type) == \E i \in DOMAIN sd.fields :
                                sd.fields[i].name = name /\ types_equal(sd.fields[i].type, type)

----------------------------------------------------------------------------
(* Values *)

Value(op, type, args, int, str) ==
    [op |-> op, type |-> type, args |-> args, int |-> int, str |-> str]
Invalid == Value("Invalid", NoType, <<>>, 0, "")

valid_val(v) == v.op # "Invalid"
val_has_type(v, k) == v.type.k = k /\ valid_val(v)

emit(op, type, args) ==
    IF \A i \in DOMAIN args : valid_val(args[i]) THEN Value(op, type, args, 0, "") ELSE Invalid

emit_const_i32(n) == Value("Const", Ty("I32"), <<>>, n, "")
emit_const_bool(b) == Value("Const", Ty("Bool"), <<>>, IF b THEN 1 ELSE 0, "")
emit_const_method(m) == Value("Const", Ty("Method"), <<>>, m, "")
emit_const_str(s) == Value("ConstStr", Ty("Str"), <<>>, 0, s)

\* Request accessors; a lookup that may find nothing yields an optional string.
emit_req(kind, name) ==
    Value(kind,
          CASE kind \in {"ReqHeader", "ReqCookie", "ReqQuery", "ReqQueryString"} ->
                   Optional(Ty("Str"))
            [] kind \in {"ReqParam", "ReqPath", "ReqPathOnly", "ReqBody", "ReqHttpVersion"} ->
                   Ty("Str")
            [] kind \in {"ReqKeepAlive", "ReqChunked", "ReqHasContentLength", "ReqHttp10",
                         "ReqHttp11"} -> Ty("Bool")
            [] kind = "ReqMethod" -> Ty("Method")
            [] kind = "ReqContentLength" -> Ty("ByteSize")
            [] kind = "ReqRemoteAddr" -> Ty("IP"),
          <<>>, 0, name)

emit_str_regex_match(v, pattern) ==
    IF val_has_type(v, "Str")
    THEN [emit("StrRegexMatch", Ty("Bool"), <<v>>) EXCEPT !.str = pattern] ELSE Invalid

emit_resume_event_kind == Value("ResumeEventKind", Ty("I32"), <<>>, 0, "")
emit_resume_event_result == Value("ResumeEventResult", Ty("I32"), <<>>, 0, "")
emit_ctx_load_slot_i32(slot) == Value("CtxLoadSlotI32", Ty("I32"), <<>>, slot, "")
\* A store has no value: what matters is the slot and the value stored.
emit_ctx_store_slot_i32(slot, v) == 
    [slot |-> slot, value |-> IF val_has_type(v, "I32") THEN v ELSE Invalid]

Orderable == {"I32", "Str"}
emit_cmp(op, l, r) ==
    IF types_equal(l.type, r.type) /\ (op # "CmpEq" => l.type.k \in Orderable)
    THEN emit(op, Ty("Bool"), <<l, r>>) ELSE Invalid

emit_opt_nil(inner) == IF inner # NoType THEN emit("OptNil", Optional(inner), <<>>) ELSE Invalid
emit_opt_wrap(v) == emit("OptWrap", Optional(v.type), <<v>>)
emit_opt_is_nil(v) == IF val_has_type(v, "Optional") THEN emit("OptIsNil", Ty("Bool"), <<v>>) ELSE Invalid
emit_select(c, t, e) ==
    IF val_has_type(c, "Bool") /\ types_equal(t.type, e.type)
    THEN emit("Select", t.type, <<c, t, e>>) ELSE Invalid
emit_opt_unwrap(v, inner) ==
    IF inner # NoType /\ v.type = Optional(inner) THEN emit("OptUnwrap", inner, <<v>>) ELSE Invalid

emit_struct_field(s, name, type) ==
    IF type # NoType /\ val_has_type(s, "Struct") /\ HasField(s.type, name, type)
    THEN [emit("StructField", type, <<s>>) EXCEPT !.str = name] ELSE Invalid
emit_struct_create(sd, vals) ==
    IF /\ sd # NoType /\ Len(vals) = Len(sd.fields)
       /\ \A i \in DOMAIN vals : types_equal(vals[i].type, sd.fields[i].type)
    THEN emit("StructCreate", sd, vals) ELSE Invalid

----------------------------------------------------------------------------
(* Terminators *)

InvalidTerm == [kind |-> "Invalid"]

emit_br(c, then, else, nblocks) ==
    IF val_has_type(c, "Bool") /\ then < nblocks /\ else < nblocks
    THEN [kind |-> "Br", cond |-> c, then |-> then, else |-> else] ELSE InvalidTerm
\* The literal form carries the indices of its body and of its header set, both from 1.
emit_ret_status(code, body_idx, headers_idx) ==
    [kind |-> "RetStatus", literal |-> TRUE, code |-> code % 2^16, body_idx |-> body_idx,
     headers_idx |-> headers_idx]
\* The runtime form: the status is the value itself.
emit_ret_status_value(v) ==
    IF valid_val(v) THEN [kind |-> "RetStatus", literal |-> FALSE, value |-> v] ELSE InvalidTerm
emit_ret_forward(upstream) ==
    IF val_has_type(upstream, "I32") THEN [kind |-> "RetForward", value |-> upstream]
    ELSE InvalidTerm
emit_yield_event(event, payload, next_state, yield_count) ==
    IF next_state = 0 \/ next_state > yield_count THEN InvalidTerm
    ELSE [kind |-> "Yield", event |-> event, payload |-> payload, next_state |-> next_state]

----------------------------------------------------------------------------
(* Tables of response bodies and header sets, shared by the routes of a module *)

kMaxResponseBodies == 128
kMaxHeaderSets == 128

\* The table with the item in it, and the 1-based index of the item (0: no room).
Intern(table, item, cap) ==
    IF \E i \in DOMAIN table : table[i] = item
    THEN [table |-> table, idx |-> CHOOSE i \in DOMAIN table : table[i] = item]
    ELSE IF Len(table) >= cap THEN [table |-> table, idx |-> 0]
    ELSE [table |-> Append(table, item), idx |-> Len(table) + 1]

intern_response_body(table, body) == Intern(table, body, kMaxResponseBodies)
intern_response_headers(table, headers) == Intern(table, headers, kMaxHeaderSets)
=============================================================================
