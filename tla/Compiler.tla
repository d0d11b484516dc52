------------------------------ MODULE Compiler ------------------------------
(***************************************************************************)
(* A program goes through the compiler, stage by stage, and its handlers   *)
(* are called: the front end types it, the middle end lays out blocks and  *)
(* emits instructions, the JIT verifies and compiles them, and a           *)
(* connection calls the handler of a route, waits when it yields and       *)
(* resumes it with the event that ended the wait.                          *)
(***************************************************************************)
EXTENDS Analyze, Codegen, RouteMeaning

CONSTANTS
    Programs,       \* sequence of [routes, limit]: routes, and the limit they are over, if any
    Requests,       \* sequence of requests: <<accessor, name>> -> value
    Results,        \* what an event can come back with
    FrontEnd(_),        \* the typed form of a route: analyze_route of Analyze
    MiddleEnd(_),       \* its blocks: build_mir of MirBuild
    BackEnd(_),         \* the instructions of all routes: lower_to_rir of LowerRir
    Handler(_, _, _),   \* a call of a compiled function: emit_function of Codegen
    Source(_, _, _)     \* what a route does for a request and events: Meaning of RouteMeaning

VARIABLES
    program,        \* the program being compiled
    stage,          \* how far it is
    code,           \* what the last stage produced
    call            \* the handler being run for a connection

vars == <<program, stage, code, call>>

\* upstream: the one the connection has a socket for, 0 when it has none.
NoCall == [route |-> 0, req |-> 0, events |-> <<>>, frame |-> <<>>, outcome |-> Outcome("None"),
           upstream |-> 0]

\* The frame of a connection: no state, no event, slots cleared.
kMaxJitHandlerSlots == 8
reset_jit_ctx == [state |-> 0, kind |-> 0, result |-> 0, slots |-> [i \in 1 .. kMaxJitHandlerSlots |-> 0]]

Init ==
    /\ \E i \in DOMAIN Programs : program = Programs[i]
    /\ stage = "source"
    /\ code = program.routes
    /\ call = NoCall

----------------------------------------------------------------------------
(* Stages; a program that one of them refuses goes no further *)

RefusedAs == [hir |-> "no_hir", mir |-> "no_mir", rir |-> "no_rir", jit |-> "no_jit"]
Advance(from, to, ok, out) ==
    /\ stage = from
    /\ stage' = IF ok THEN to ELSE RefusedAs[to]
    /\ code' = IF ok THEN out ELSE <<>>
    /\ UNCHANGED <<program, call>>

AnalyzeFile ==
    LET hir == [i \in DOMAIN code |-> FrontEnd(code[i])]
    IN Advance("source", "hir", \A i \in DOMAIN hir : hir[i].ok, hir)
BuildMir ==
    LET mir == [i \in DOMAIN code |-> MiddleEnd(code[i])]
    IN Advance("hir", "mir", \A i \in DOMAIN mir : mir[i] # Rejected, mir)
LowerToRir ==
    LET rir == BackEnd(code)
    IN Advance("mir", "rir", rir # Rejected, rir)
JitCompile == Advance("rir", "jit", compile(code) # Rejected, code)

----------------------------------------------------------------------------
(* Calls *)

\* A wait on an upstream needs a socket for that upstream, which a connect opens; the loop
\* answers 502 itself when there is none, and 500 to a wait for a downstream send.
upstream_target_matches(c) ==
    c.upstream # 0 /\ c.outcome.timer_ms \in {0, c.upstream}
Yielded(c) ==
    \/ c.outcome.kind = "TimerYield"
    \/ /\ c.outcome.kind = "EventYield"
       /\ c.outcome.yield_kind # EventNumber.Send
       /\ c.outcome.yield_kind = EventNumber.UpstreamConnect => c.outcome.timer_ms <= Len(Upstreams)
       /\ c.outcome.yield_kind \in {EventNumber.UpstreamSend, EventNumber.UpstreamRecv} =>
              upstream_target_matches(c)
handle_jit_outcome(c) ==
    IF Yielded(c) /\ c.outcome.yield_kind = EventNumber.UpstreamConnect /\ c.outcome.timer_ms # 0
    THEN [c EXCEPT !.upstream = c.outcome.timer_ms] ELSE c

\* The handler runs in the frame, and the loop reads the packed result and acts on it.
Invoke(c, frame) ==
    LET ran == Handler(code.functions[c.route], HelperReturns(Requests[c.req]), frame)
    IN handle_jit_outcome([c EXCEPT !.frame = ran.ctx, !.outcome = invoke_jit_handler(ran.packed)])

Dispatch(r, q) ==
    /\ stage = "jit" /\ call = NoCall
    /\ call' = Invoke([NoCall EXCEPT !.route = r, !.req = q], [reset_jit_ctx EXCEPT !.kind = kTimer])
    /\ UNCHANGED <<program, stage, code>>

\* An event ends the wait if it is one the handler waits for; a timer is only there
\* when one was armed.
EndsWait(event) ==
    IF call.outcome.kind = "TimerYield" THEN event = "Timer"
    ELSE /\ yield_kind_matches_event(call.outcome.yield_kind, EventNumber[event])
         /\ event = "Timer" => call.outcome.timer_ms # 0
Resume(event, result) ==
    /\ stage = "jit" /\ Yielded(call) /\ EndsWait(event)
    /\ call' = Invoke([call EXCEPT !.events = Append(@, [event |-> event, result |-> result])],
                      [call.frame EXCEPT !.state = call.outcome.next_state,
                                         !.kind = EventNumber[event], !.result = result])
    /\ UNCHANGED <<program, stage, code>>

\* The answer is sent; the connection is free for the next request.
Answered ==
    /\ stage = "jit" /\ call # NoCall /\ ~Yielded(call)
    /\ call' = NoCall
    /\ UNCHANGED <<program, stage, code>>

Next ==
    \/ AnalyzeFile \/ BuildMir \/ LowerToRir \/ JitCompile
    \/ \E r \in DOMAIN program.routes, q \in DOMAIN Requests : Dispatch(r, q)
    \/ \E e \in DOMAIN EventNumber, n \in Results : Resume(e, n)
    \/ Answered

Spec == Init /\ [][Next]_vars

----------------------------------------------------------------------------
(* What a connection sees of a call, in the terms of the source *)

AnswerOf(o) ==
    [ReturnStatus(o.status) EXCEPT
        !.body = IF o.body_idx = 0 THEN "" ELSE code.bodies[o.body_idx],
        !.headers = IF o.headers_idx = 0 THEN <<>> ELSE code.headers[o.headers_idx]]
WaitOf(o) ==
    LET event == CHOOSE e \in DOMAIN EventNumber \cup {"Any"} :
                    o.yield_kind = IF e = "Any" THEN kAny ELSE EventNumber[e]
    IN CASE event = "Timer" -> Awaiting({"Timer"}, o.timer_ms, "")
         [] event = "Any" -> Awaiting({"Recv"} \cup (IF o.timer_ms = 0 THEN {} ELSE {"Timer"}), o.timer_ms, "")
         [] event = "Recv" -> Awaiting({"Recv"}, o.timer_ms, "")
         [] OTHER -> Awaiting({event}, 0, Upstreams[o.timer_ms])
Observed ==
    LET o == call.outcome
    IN CASE o.kind = "ReturnStatus" -> AnswerOf(o)
         [] o.kind = "Forward" -> ForwardUpstream(Upstreams[o.upstream + 1])
         [] o.kind \in {"TimerYield", "EventYield"} -> WaitOf(o)
         [] OTHER -> o

\* A handler does what its route says: after any events it answers, forwards or waits
\* exactly as the statements of the source do when they run in order (guards and waits in
\* source order, the right arm of a match, the values bound before it, the result of each
\* wait, the body and headers of this route and not of another).
MeansItsSource ==
    call # NoCall => Observed = Source(program.routes[call.route], Requests[call.req], call.events)

\* A program is refused by the stage whose limit it is over, no earlier and no later, and
\* compiled when it is over none.  The front end refuses what the language does not have and
\* what overflows a table of a route.  It lets through three kinds of program that a later
\* stage refuses: more than kMaxBlocks blocks (build_mir), a branch inside a branch whose
\* results are all errors, which has no type of its own (lower_to_rir), and a let that reads
\* the request before a wait and is used behind it (the JIT).  None but these is refused late.
RefusedBy == [none |-> "jit", language |-> "no_hir", blocks |-> "no_mir", untyped |-> "no_rir",
              carried |-> "no_jit"]
AcceptsTheLanguage == stage \in Range(RefusedAs) \cup {"jit"} => stage = RefusedBy[program.limit]

\* A name bound before the first wait may be used behind it: its initializer is evaluated
\* again when the handler is resumed, so a route of that form compiles.
LetsReachTheTerminal == program.limit # "language" => stage \notin Range(RefusedAs)

\* The blocks of a handler, whose places are counted before they are filled: branches stay
\* inside the function and never come back to a block, so every call ends, and every block
\* is reached from the entry or from where a wait resumes, so no guard, arm or failure
\* lost its blocks to another one's.
BlocksFit ==
    stage = "jit" => \A f \in DOMAIN code.functions :
        LET fn == code.functions[f]
            all == 0 .. Len(fn.blocks) - 1
            targets(b) == TermTargets(fn.blocks[b + 1].term)
            entries == {0} \cup (IF fn.explicit THEN {fn.resume[k] : k \in 0 .. Len(fn.yields)} ELSE {})
        IN /\ \A b \in all : targets(b) \subseteq all /\ b \notin ReachableFrom(fn, targets(b))
           /\ ReachableFrom(fn, entries) = all
=============================================================================
