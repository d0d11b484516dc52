--------------------------- MODULE IoUringTimers ---------------------------
(***************************************************************************)
(* The timers of the io_uring event loop: the keepalive TimerWheel, and    *)
(* one IORING_OP_TIMEOUT per sleeping handler (iouring_event_loop.h).      *)
(*                                                                         *)
(* A timeout carries the connection's yield_timer_gen in its user_data.    *)
(* disarm_yield_timer moves the generation on and cancels the timeout, so  *)
(* that its completion, which arrives later, finds another generation.     *)
(* When the SQ takes no timeout the handler sleeps on the wheel instead.   *)
(*                                                                         *)
(* The SQ is left open: every submission may find it full.  A closed slot  *)
(* is not reused while it is owed a completion (IoUringLoop).              *)
(***************************************************************************)
EXTENDS TimerWheel

CONSTANTS
    Conns,     \* connection ids
    MaxNow,    \* bound on the clock
    MaxGen     \* bound on yield_timer_gen

VARIABLES
    wheel, cursor, \* the timer wheel
    timeouts,      \* IORING_OP_TIMEOUTs in the kernel: [c, gen, deadline, cancelled],
                   \* and the cancel requests for them
    cqes,          \* their completions, not yet dispatched: [c, gen]
    conn,          \* per slot: [open, gen, fn, kind, armed, timeout]
    now, ticks,    \* CLOCK_MONOTONIC, unread expirations of timer_fd
    batch,         \* ticks of a Timeout event not yet dispatched
    mode,          \* "loop", or "tick" inside TimerWheel::tick
    due,           \* history: the time until which the handler asked to sleep
    early          \* history: which timers resumed a handler too early

vars == <<wheel, cursor, timeouts, cqes, conn, now, ticks, batch, mode, due, early>>

\* fn: pending_handler_fn is set; armed, timeout: yield_armed, yield_timeout_armed.
Idle == [open |-> FALSE, gen |-> 0, fn |-> FALSE, kind |-> "Timer", armed |-> FALSE,
         timeout |-> FALSE]

Init ==
    /\ wheel = [c \in Conns |-> Off] /\ cursor = 0
    /\ timeouts = {} /\ cqes = {}
    /\ conn = [c \in Conns |-> Idle]
    /\ now = 1 /\ ticks = 0 /\ batch = 0 /\ mode = "loop"
    /\ due = [c \in Conns |-> 0] /\ early = {}

-----------------------------------------------------------------------------
\* The handler is entered or resumed: r is the slot, w the wheel and ts the
\* kernel's timeouts at that point (handle_jit_outcome, schedule_yield_timer).
Answers(c, r, w, ts) ==
    /\ conn' = [conn EXCEPT ![c] = [r EXCEPT !.fn = FALSE]]
    /\ wheel' = w /\ timeouts' = ts /\ due' = [due EXCEPT ![c] = 0]

AwaitsEvent(c, r, w, ts) ==
    /\ conn' = [conn EXCEPT ![c] = [r EXCEPT !.fn = TRUE, !.kind = "Recv"]]
    /\ wheel' = w /\ timeouts' = ts /\ due' = [due EXCEPT ![c] = 0]

SleepsInKernel(c, r, w, ts, k, ms) ==
    /\ r.gen < MaxGen
    /\ conn' = [conn EXCEPT ![c] = [r EXCEPT !.fn = TRUE, !.kind = k, !.gen = @ + 1,
                                             !.armed = TRUE, !.timeout = TRUE]]
    /\ wheel' = WheelRemove(w, c)
    /\ timeouts' = ts \cup {[c |-> c, gen |-> r.gen + 1, deadline |-> now + ms,
                             cancelled |-> FALSE]}
    /\ due' = [due EXCEPT ![c] = now + ms]

\* The fallback: a wait the wheel cannot hold fails the request.
SleepsOnWheel(c, r, w, ts, k, ms) ==
    /\ WheelSeconds(ms) < Slots
    /\ conn' = [conn EXCEPT ![c] = [r EXCEPT !.fn = TRUE, !.kind = k, !.armed = TRUE,
                                             !.timeout = FALSE]]
    /\ wheel' = WheelAdd(WheelRemove(w, c), cursor, c, WheelSeconds(ms))
    /\ timeouts' = ts /\ due' = [due EXCEPT ![c] = now + ms]

Runs(c, r, w, ts) ==
    \/ Answers(c, r, w, ts)
    \/ AwaitsEvent(c, r, w, ts)
    \/ \E k \in {"Timer", "Any"}, ms \in Waits :
         SleepsInKernel(c, r, w, ts, k, ms) \/ SleepsOnWheel(c, r, w, ts, k, ms)

\* resume_jit_handler.
Resumes(c, r, w, ts) == Runs(c, r, WheelRefresh(w, cursor, c, KeepAlive), ts)

\* The cancel SQE for the timeout of generation gen; it may find the SQ full.  own
\* is the cancel request itself where its completion comes to the connection.
Cancelled(c, gen, own) ==
    {timeouts, own \cup
               { [e EXCEPT !.cancelled = @ \/ (e.c = c /\ e.gen = gen)] : e \in timeouts }}

\* cancel, on close: it shares the timeout's user_data, so its completion is one
\* more of the same kind.
CancelOnClose(c, gen) ==
    Cancelled(c, gen, {[c |-> c, gen |-> gen, deadline |-> 0, cancelled |-> TRUE]})

\* cancel_yield_timeout: it carries kCancelConnId, and wait() drops its completion.
CancelYieldTimeout(c, gen) == Cancelled(c, gen, {})

\* disarm_yield_timer, but for the wheel and the cancel SQE.
Disarmed(r) ==
    IF r.armed THEN [r EXCEPT !.armed = FALSE, !.timeout = FALSE, !.gen = @ + 1] ELSE r

\* close_conn_impl and free_conn_impl.
CloseConn(c) ==
    /\ conn' = [conn EXCEPT ![c] = Idle]
    /\ timeouts' \in (IF conn[c].timeout THEN CancelOnClose(c, conn[c].gen) ELSE {timeouts})
    /\ due' = [due EXCEPT ![c] = 0]
    /\ wheel' = WheelRemove(wheel, c)

-----------------------------------------------------------------------------
(* Events.                                                                 *)

Owed(c) == (\E e \in timeouts : e.c = c) \/ (\E e \in cqes : e.c = c)

Accept(c) ==
    /\ mode = "loop" /\ ~conn[c].open /\ ~Owed(c)
    /\ conn' = [conn EXCEPT ![c].open = TRUE]
    /\ wheel' = WheelAdd(wheel, cursor, c, KeepAlive)
    /\ UNCHANGED <<cursor, timeouts, cqes, now, ticks, batch, mode, due, early>>

\* An event for a connection with a callback slot enters the handler of its route.
Request(c) ==
    /\ mode = "loop" /\ conn[c].open /\ ~conn[c].fn
    /\ Runs(c, conn[c], WheelRefresh(wheel, cursor, c, KeepAlive), timeouts)
    /\ UNCHANGED <<cursor, cqes, now, ticks, batch, mode, early>>

\* Bytes for a handler that waits for them.
EventResumes(c) ==
    LET r == conn[c]
    IN  /\ mode = "loop" /\ r.open /\ r.fn /\ r.kind \in {"Any", "Recv"}
        /\ (r.armed => r.gen < MaxGen)
        /\ \E ts \in (IF r.timeout THEN CancelYieldTimeout(c, r.gen) ELSE {timeouts}) :
             Resumes(c, Disarmed(r), wheel, ts)
        /\ UNCHANGED <<cursor, cqes, now, ticks, batch, mode, early>>

PeerCloses(c) ==
    /\ mode = "loop" /\ conn[c].open /\ (conn[c].fn => conn[c].kind = "Timer")
    /\ CloseConn(c)
    /\ UNCHANGED <<cursor, cqes, now, ticks, batch, mode, early>>

\* Mutant: a completion is taken for the current wait whatever its generation.
Matches_AnyGen(r, e) == TRUE

Matches(r, e) == e.gen = r.gen

\* dispatch of a HandlerTimer event.
DispatchTimer(e) ==
    LET r == conn[e.c]
        s == IF Matches(r, e) THEN [r EXCEPT !.armed = FALSE, !.timeout = FALSE] ELSE r
        resumes == r.fn /\ Matches(r, e) /\ (r.kind = "Timer" \/ (r.armed /\ r.kind = "Any"))
    IN  /\ mode = "loop" /\ e \in cqes
        /\ cqes' = cqes \ {e}
        /\ IF resumes
           THEN /\ Resumes(e.c, s, wheel, timeouts)
                /\ early' = early \cup (IF now < due[e.c] THEN {"timeout"} ELSE {})
           ELSE /\ conn' = [conn EXCEPT ![e.c] = s]
                /\ UNCHANGED <<wheel, timeouts, due, early>>
        /\ UNCHANGED <<cursor, now, ticks, batch, mode>>

\* Timeout: one TimerWheel::tick for each expiration.
StartTick ==
    /\ mode = "loop" /\ batch > 0
    /\ mode' = "tick"
    /\ UNCHANGED <<wheel, cursor, timeouts, cqes, conn, now, ticks, batch, due, early>>

\* The tick's callback: a sleeping handler resumes, anything else is closed.
Expires(c) ==
    LET r == conn[c]
        resumes == r.fn /\ (r.kind = "Timer" \/ (r.armed /\ r.kind = "Any"))
    IN  /\ mode = "tick" /\ Expiring(wheel, cursor, c)
        /\ IF resumes
           THEN /\ Resumes(c, [r EXCEPT !.armed = FALSE, !.timeout = FALSE],
                           WheelRemove(wheel, c), timeouts)
                /\ early' = early \cup (IF now + MaxTicks * Second < due[c] THEN {"wheel"} ELSE {})
           ELSE /\ CloseConn(c)
                /\ UNCHANGED early
        /\ UNCHANGED <<cursor, cqes, now, ticks, batch, mode>>

TickEnds ==
    /\ mode = "tick" /\ \A c \in Conns : ~Expiring(wheel, cursor, c)
    /\ cursor' = NextSlot(cursor)
    /\ batch' = batch - 1
    /\ mode' = IF batch > 1 THEN "tick" ELSE "loop"
    /\ UNCHANGED <<wheel, timeouts, cqes, conn, now, ticks, due, early>>

-----------------------------------------------------------------------------
(* The kernel, and wait().                                                 *)

Advance ==
    /\ now < MaxNow
    /\ now' = now + 1
    /\ ticks' = IF now' % Second = 0 THEN ticks + 1 ELSE ticks
    /\ ticks' + batch <= MaxTicks
    /\ UNCHANGED <<wheel, cursor, timeouts, cqes, conn, batch, mode, due, early>>

\* A timeout expires or is cancelled; a cancel request completes.
TimeoutCompletes(e) ==
    /\ e \in timeouts /\ (e.deadline <= now \/ e.cancelled)
    /\ timeouts' = timeouts \ {e}
    /\ cqes' = cqes \cup {[c |-> e.c, gen |-> e.gen]}
    /\ UNCHANGED <<wheel, cursor, conn, now, ticks, batch, mode, due, early>>

\* The read on timer_fd completes.
WaitTicks ==
    /\ mode = "loop" /\ batch = 0 /\ ticks > 0
    /\ batch' = ticks /\ ticks' = 0
    /\ UNCHANGED <<wheel, cursor, timeouts, cqes, conn, now, mode, due, early>>

Next ==
    \/ \E c \in Conns : \/ Accept(c) \/ Request(c) \/ EventResumes(c) \/ PeerCloses(c)
                        \/ Expires(c)
    \/ \E e \in cqes : DispatchTimer(e)
    \/ \E e \in timeouts : TimeoutCompletes(e)
    \/ StartTick \/ TickEnds \/ WaitTicks
    \/ Advance

Spec == Init /\ [][Next]_vars

-----------------------------------------------------------------------------
(* Properties.                                                             *)

\* Every open connection is guarded: it is on the wheel, or the completion of
\* its current timeout is still to come; no closed one is on the wheel.
Guarded ==
    \A c \in Conns :
        LET r == conn[c]
            sleeps == \/ \E e \in timeouts : e.c = c /\ e.gen = r.gen
                      \/ [c |-> c, gen |-> r.gen] \in cqes
        IN  /\ r.open => (wheel[c] # Off \/ (r.fn /\ r.timeout /\ sleeps))
            /\ ~r.open => wheel[c] = Off

\* A handler is never resumed before its time by a timeout, current or cancelled
\* (the generation tells them apart), and by the wheel at most as much too soon
\* as the ticks that were waiting to be read when it was put there.
NeverResumedEarly == early = {}
=============================================================================
