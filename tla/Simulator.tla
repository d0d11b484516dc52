----------------------------- MODULE Simulator ------------------------------
(***************************************************************************)
(* The offline simulator: the compiled handler of a route is driven to its *)
(* end without I/O and compared with a captured request                    *)
(* (simulate_engine.cc, from the route on).  A captured response has a     *)
(* status and, if the request was forwarded, the name of the upstream.     *)
(***************************************************************************)
EXTENDS Compiler

kMaxHandlerYields == 32

synthetic_resume_result(kind) ==
    IF kind \in {EventNumber.Timer, EventNumber.UpstreamConnect} THEN 0 ELSE 1
apply_synthetic_resume(frame, yielded, kind) ==
    [frame EXCEPT !.kind = kind, !.result = synthetic_resume_result(kind), !.state = yielded.next_state]

\* Mutant: a wait with a timeout is only tried with bytes arriving.
resume_kinds_RecvOnly(yielded) ==
    <<IF yielded.yield_kind = kAny THEN EventNumber.Recv ELSE yielded.yield_kind>>

\* What a wait is resumed with: a wait for any event with bytes and, if it has a
\* timeout, in a second attempt with its timer.
resume_kinds(yielded) ==
    IF yielded.yield_kind # kAny THEN <<yielded.yield_kind>>
    ELSE IF yielded.timer_ms = 0 THEN <<EventNumber.Recv>>
    ELSE <<EventNumber.Recv, EventNumber.Timer>>

non_match_verdict_rank == [Mismatch |-> 0, Unsupported |-> 1, Failed |-> 2, Match |-> 3]
prefer_non_match_result(a, b) ==
    IF non_match_verdict_rank[a] <= non_match_verdict_rank[b] THEN a ELSE b

finalize_handler_result(entry, o) ==
    CASE o.kind = "ReturnStatus" ->
            IF o.status = entry.status /\ entry.upstream = "" THEN "Match" ELSE "Mismatch"
      [] o.kind = "Forward" ->
            IF o.upstream >= Len(Upstreams) THEN "Failed"
            ELSE IF Upstreams[o.upstream + 1] = entry.upstream THEN "Match" ELSE "Mismatch"
      [] OTHER -> "Unsupported"

----------------------------------------------------------------------------
(* One capture is compared at a time, by a tool of its own: no connection is open meanwhile *)

VARIABLE sim    \* the comparison; todo holds the runs still to be tried, the next one first

NoSim == [route |-> 0, req |-> 0, entry |-> [status |-> 0, upstream |-> ""], todo |-> <<>>,
          verdict |-> "None"]

init_sim_handler_frame == [frame |-> reset_jit_ctx, yields |-> 0]

simulate_one(r, q, entry) ==
    sim' = [route |-> r, req |-> q, entry |-> entry, todo |-> <<init_sim_handler_frame>>,
            verdict |-> "None"]

\* One call of the handler: a yield is resumed at once, by a copy of the frame for each
\* kind of event; the first match ends the comparison.
drive_handler_to_completion ==
    LET this == Head(sim.todo)
        ran == Handler(code.functions[sim.route], HelperReturns(Requests[sim.req]), this.frame)
        o == invoke_jit_handler(ran.packed)
        kinds == resume_kinds(o)
        resumed == [k \in DOMAIN kinds |-> [frame |-> apply_synthetic_resume(ran.ctx, o, kinds[k]),
                                            yields |-> this.yields + 1]]
        verdict == IF this.yields >= kMaxHandlerYields THEN "Failed"
                   ELSE finalize_handler_result(sim.entry, o)
        yields == this.yields < kMaxHandlerYields /\ o.kind \in {"TimerYield", "EventYield"}
    IN /\ sim.todo # <<>>
       /\ sim' = IF yields THEN [sim EXCEPT !.todo = resumed \o Tail(@)]
                 ELSE [sim EXCEPT !.todo = IF verdict = "Match" THEN <<>> ELSE Tail(@),
                                  !.verdict = IF verdict = "Match" \/ @ = "None" THEN verdict
                                              ELSE prefer_non_match_result(@, verdict)]

accumulate_summary ==
    /\ sim # NoSim /\ sim.todo = <<>>
    /\ sim' = NoSim

----------------------------------------------------------------------------
(* The responses that the source can come to when every wait succeeds *)

Success(event) == [event |-> event, result |-> synthetic_resume_result(EventNumber[event])]

ResponseOf(out) ==
    IF out.kind = "ForwardUpstream" THEN [status |-> 200, upstream |-> out.upstream]
    ELSE [status |-> out.status, upstream |-> ""]

RECURSIVE Responses(_, _, _)
Responses(route, req, events) ==
    LET out == Source(route, req, events)
    IN IF out.kind # "Wait" THEN {ResponseOf(out)}
       ELSE UNION { Responses(route, req, Append(events, Success(e))) : e \in out.events }

\* What may have been captured: the responses of the route to any of the requests.
Captures(r) == UNION { Responses(program.routes[r], req, <<>>) : req \in Range(Requests) }

SimInit == Init /\ sim = NoSim
SimNext ==
    \/ sim = NoSim /\ Next /\ UNCHANGED sim
    \/ /\ \/ /\ stage = "jit" /\ call = NoCall /\ sim = NoSim
             /\ \E r \in DOMAIN program.routes, q \in DOMAIN Requests :
                   \E entry \in Captures(r) : simulate_one(r, q, entry)
          \/ drive_handler_to_completion
          \/ accumulate_summary
       /\ UNCHANGED vars
SimSpec == SimInit /\ [][SimNext]_<<vars, sim>>

\* Simulation tells the captures a route could have produced from the others: a capture
\* matches exactly when some outcome of the waits, all of them successful, brings the
\* source to that status or that upstream, whichever event ends a wait with a timeout.
SimulatesTheSource ==
    sim # NoSim /\ sim.todo = <<>> =>
        (sim.verdict = "Match"
            <=> sim.entry \in Responses(program.routes[sim.route], Requests[sim.req], <<>>))
=============================================================================
