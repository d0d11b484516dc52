---------------------------- MODULE EpollTimers ----------------------------
(***************************************************************************)
(* The timers of the epoll event loop: the keepalive TimerWheel driven by  *)
(* a periodic timerfd, and the YieldHeap of handler deadlines driven by a  *)
(* one-shot timerfd (epoll_event_loop.h, timer_wheel.h/.cc).               *)
(*                                                                         *)
(* A connection is guarded by one of the two: schedule_yield_timer takes   *)
(* it off the wheel and puts a deadline into the heap (or falls back to    *)
(* the wheel when the heap is full), resume_jit_handler puts it back on    *)
(* the wheel.                                                              *)
(*                                                                         *)
(* One time unit stands for a fraction of a second; Second units are one   *)
(* tick of the wheel.  A batch holds at most one HandlerTimer and one      *)
(* Timeout event, dispatched in any order among the events of connections. *)
(***************************************************************************)
EXTENDS YieldHeap, TimerWheel

CONSTANTS
    Conns,     \* connection ids
    HeapCap,   \* YieldHeap::kCap
    MaxNow,    \* bound on the clock
    MaxGen     \* bound on the requests of one slot

VARIABLES
    tm,     \* [wheel, cursor, heap, armed (yield_timer_armed_ns), tfd (the kernel's timer)]
    conn,   \* per slot: [open, gen, fn, kind, armed] (fn: pending_handler_fn is set)
    now,    \* CLOCK_MONOTONIC
    ticks,  \* unread expirations of timer_fd
    batch,  \* [handler, ticks]: timer events read by wait() and not yet dispatched
    mode,   \* "loop", "heap" (in drain_yield_heap) or "tick" (in TimerWheel::tick)
    due,    \* history: the time until which the handler asked to sleep
    seen,   \* history: the last activity that refreshed the keepalive
    early   \* history: what the timers did too early

vars == <<tm, conn, now, ticks, batch, mode, due, seen, early>>

Kinds == {"Timer", "Any", "Recv"}
Idle == [open |-> FALSE, gen |-> 0, fn |-> FALSE, kind |-> "Timer", armed |-> FALSE]

Init ==
    /\ tm = [wheel |-> [c \in Conns |-> Off], cursor |-> 0, heap |-> <<>>,
             armed |-> 0, tfd |-> 0]
    /\ conn = [c \in Conns |-> Idle]
    /\ now = 1 /\ ticks = 0
    /\ batch = [handler |-> FALSE, ticks |-> 0]
    /\ mode = "loop"
    /\ due = [c \in Conns |-> 0] /\ seen = [c \in Conns |-> 0]
    /\ early = {}

-----------------------------------------------------------------------------
(* The one-shot timerfd follows the earliest deadline.                     *)

\* Mutant: the timerfd is re-armed only for an earlier deadline.
Rearm_OnlyEarlier(t) ==
    LET top == IF t.heap = <<>> THEN 0 ELSE t.heap[1].deadline
    IN  IF t.armed # 0 /\ top >= t.armed THEN t ELSE [t EXCEPT !.armed = top, !.tfd = top]

\* rearm_yield_timerfd: 0 disarms; an unchanged top is left alone.
Rearm(t) ==
    LET top == IF t.heap = <<>> THEN 0 ELSE t.heap[1].deadline
    IN  IF top = t.armed THEN t ELSE [t EXCEPT !.armed = top, !.tfd = top]

-----------------------------------------------------------------------------
(* schedule_yield_timer and what ends a yield.                             *)

\* A connection taken off the wheel, and (re-)inserted in it.
OffWheel(t, c) == [t EXCEPT !.wheel = WheelRemove(@, c)]
OnWheel(t, c, secs) == [t EXCEPT !.wheel = WheelRefresh(@, t.cursor, c, secs)]

\* The two ways to schedule; neither is possible when the heap is full and the
\* wheel cannot hold the wait.
HeapHolds(t) == Len(t.heap) < HeapCap
Schedulable(t, ms) == HeapHolds(t) \/ WheelSeconds(ms) < Slots
Scheduled(t, c, gen, ms) ==
    LET off == OffWheel(t, c)
    IN  IF HeapHolds(t)
        THEN Rearm([off EXCEPT !.heap = Push(@, [deadline |-> now + ms, gen |-> gen,
                                                  conn |-> c])])
        ELSE OnWheel(off, c, WheelSeconds(ms))

WithoutEntry(t, c) ==
    LET h == RemoveByConn(t.heap, c)
    IN  IF h = t.heap THEN t ELSE Rearm([t EXCEPT !.heap = h])

\* Mutant: the heap entry outlives the yield it was pushed for.
Disarmed_KeepsEntry(t, c) == IF conn[c].armed THEN OffWheel(t, c) ELSE t

\* disarm_yield_timer.
Disarmed(t, c) == IF conn[c].armed THEN WithoutEntry(OffWheel(t, c), c) ELSE t

\* What the handler does when it is entered or resumed (handle_jit_outcome):
\* it answers, or yields again.  t are the timers at that point, on the wheel.
Runs(c, gen, t) ==
    LET r == [conn[c] EXCEPT !.gen = gen, !.fn = FALSE, !.armed = FALSE]
    IN  \/ /\ tm' = t
           /\ conn' \in { [conn EXCEPT ![c] = x] : x \in {r, [r EXCEPT !.fn = TRUE, !.kind = "Recv"]} }
           /\ due' = [due EXCEPT ![c] = 0]
        \/ \E ms \in Waits, k \in {"Timer", "Any"} :
             IF Schedulable(t, ms)
             THEN /\ tm' = Scheduled(t, c, gen, ms)
                  /\ conn' = [conn EXCEPT ![c] = [r EXCEPT !.fn = TRUE, !.kind = k,
                                                           !.armed = TRUE]]
                  /\ due' = [due EXCEPT ![c] = now + ms]
             ELSE /\ tm' = OnWheel(t, c, KeepAlive)
                  /\ conn' = [conn EXCEPT ![c] = r]
                  /\ due' = [due EXCEPT ![c] = 0]

\* resume_jit_handler.
Resumes(c, t) ==
    /\ Runs(c, conn[c].gen, OnWheel(t, c, KeepAlive))
    /\ seen' = [seen EXCEPT ![c] = now]

\* close_conn_impl and free_conn_impl.
ClosedTimers(t, c) == OffWheel(IF conn[c].fn THEN WithoutEntry(t, c) ELSE t, c)
Closes(c, t) ==
    /\ tm' = ClosedTimers(t, c)
    /\ conn' = [conn EXCEPT ![c] = [Idle EXCEPT !.gen = conn[c].gen]]
    /\ due' = [due EXCEPT ![c] = 0] /\ seen' = [seen EXCEPT ![c] = 0]

-----------------------------------------------------------------------------
(* Dispatch.                                                               *)

\* on_accept.
Accept(c) ==
    /\ mode = "loop" /\ ~conn[c].open
    /\ tm' = OnWheel(tm, c, KeepAlive)
    /\ conn' = [conn EXCEPT ![c].open = TRUE]
    /\ seen' = [seen EXCEPT ![c] = now]
    /\ UNCHANGED <<now, ticks, batch, mode, due, early>>

\* An event for a connection with a callback slot: a request whose route is a
\* handler.  Anything else it may bring only refreshes the keepalive.
Request(c) ==
    /\ mode = "loop" /\ conn[c].open /\ ~conn[c].fn /\ conn[c].gen < MaxGen
    /\ Runs(c, conn[c].gen + 1, OnWheel(tm, c, KeepAlive))
    /\ seen' = [seen EXCEPT ![c] = now]
    /\ UNCHANGED <<now, ticks, batch, mode, early>>

\* Bytes for a handler that waits for them.
EventResumes(c) ==
    /\ mode = "loop" /\ conn[c].open /\ conn[c].fn /\ conn[c].kind \in {"Any", "Recv"}
    /\ Resumes(c, Disarmed(tm, c))
    /\ UNCHANGED <<now, ticks, batch, mode, early>>

\* The peer closes, or a callback gives the connection up.
PeerCloses(c) ==
    /\ mode = "loop" /\ conn[c].open /\ (conn[c].fn => conn[c].kind = "Timer")
    /\ Closes(c, tm)
    /\ UNCHANGED <<now, ticks, batch, mode, early>>

\* HandlerTimer: drain_yield_heap pops one due entry after the other.
StartDrain ==
    /\ mode = "loop" /\ batch.handler
    /\ mode' = "heap" /\ batch' = [batch EXCEPT !.handler = FALSE]
    /\ UNCHANGED <<tm, conn, now, ticks, due, seen, early>>

TopDue == tm.heap # <<>> /\ tm.heap[1].deadline <= now
Live(e) == /\ conn[e.conn].fn /\ conn[e.conn].kind \in {"Timer", "Any"}
           /\ conn[e.conn].gen = e.gen

DrainStep ==
    LET e == tm.heap[1]
    IN  /\ mode = "heap" /\ TopDue /\ Live(e)
        /\ Resumes(e.conn, [tm EXCEPT !.heap = Pop(@)])
        /\ early' = early \cup (IF now < due[e.conn] THEN {"wait"} ELSE {})
        /\ UNCHANGED <<now, ticks, batch, mode>>

DrainEnds ==
    /\ mode = "heap" /\ ~TopDue
    /\ tm' = Rearm(tm)
    /\ mode' = "loop"
    /\ UNCHANGED <<conn, now, ticks, batch, due, seen, early>>

\* Timeout: one TimerWheel::tick for each expiration.
StartTick ==
    /\ mode = "loop" /\ batch.ticks > 0
    /\ mode' = "tick"
    /\ UNCHANGED <<tm, conn, now, ticks, batch, due, seen, early>>

\* The tick's callback for a connection in the current slot.
Expires(c) ==
    LET t == OffWheel(tm, c)
        resumes == conn[c].fn /\ (conn[c].kind = "Timer" \/ (conn[c].armed /\ conn[c].kind = "Any"))
        idle == now - seen[c]
    IN  /\ mode = "tick" /\ Expiring(tm.wheel, tm.cursor, c)
        /\ IF resumes
           THEN /\ Resumes(c, t)
                /\ early' = early \cup (IF now + MaxTicks * Second < due[c] THEN {"wait"} ELSE {})
           ELSE /\ Closes(c, t)
                /\ early' = early \cup (IF idle <= (KeepAlive - MaxTicks) * Second
                                        THEN {"keepalive"} ELSE {})
        /\ UNCHANGED <<now, ticks, batch, mode>>

TickEnds ==
    /\ mode = "tick" /\ \A c \in Conns : ~Expiring(tm.wheel, tm.cursor, c)
    /\ tm' = [tm EXCEPT !.cursor = NextSlot(@)]
    /\ batch' = [batch EXCEPT !.ticks = @ - 1]
    /\ mode' = IF batch.ticks > 1 THEN "tick" ELSE "loop"
    /\ UNCHANGED <<conn, now, ticks, due, seen, early>>

-----------------------------------------------------------------------------
(* Time, and wait().                                                       *)

Advance ==
    /\ now < MaxNow
    /\ now' = now + 1
    /\ ticks' = IF now' % Second = 0 THEN ticks + 1 ELSE ticks
    /\ ticks' + batch.ticks <= MaxTicks
    /\ UNCHANGED <<tm, conn, batch, mode, due, seen, early>>

\* wait() reads the timerfds that expired; reading the one-shot one uses it up.
YieldTimerFired == tm.tfd # 0 /\ tm.tfd <= now
Wait ==
    /\ mode = "loop" /\ ~batch.handler /\ batch.ticks = 0
    /\ YieldTimerFired \/ ticks > 0
    /\ batch' = [handler |-> YieldTimerFired, ticks |-> ticks]
    /\ ticks' = 0
    /\ tm' = [tm EXCEPT !.tfd = IF YieldTimerFired THEN 0 ELSE @]
    /\ UNCHANGED <<conn, now, mode, due, seen, early>>

Loop ==
    \/ StartDrain \/ DrainStep \/ DrainEnds
    \/ StartTick \/ TickEnds \/ Wait
    \/ \E c \in Conns : Expires(c)

Next ==
    \/ Loop
    \/ \E c \in Conns : Accept(c) \/ Request(c) \/ EventResumes(c) \/ PeerCloses(c)
    \/ Advance

Spec == Init /\ [][Next]_vars

\* The shard thread keeps dispatching what wait() returns.
FairSpec == Spec /\ WF_vars(Loop)

-----------------------------------------------------------------------------
(* Properties.                                                             *)

\* No wakeup is missed: between batches the kernel's timer is set to the
\* earliest deadline of the heap.
TimerCoversTop ==
    mode = "loop" /\ ~batch.handler =>
        tm.tfd = (IF tm.heap = <<>> THEN 0 ELSE tm.heap[1].deadline)

\* Every open connection is guarded by one timer: it is on the wheel, or its
\* deadline is in the heap.  "One live entry per connection at most", and outside
\* a drain none is stale: an entry belongs to the handler that sleeps on it, so
\* the generation filter of drain_yield_heap never has to reject one.
Guarded ==
    /\ \A c \in Conns :
         conn[c].open <=> ((tm.wheel[c] # Off) # (\E i \in DOMAIN tm.heap : tm.heap[i].conn = c))
    /\ \A i, j \in DOMAIN tm.heap : tm.heap[i].conn = tm.heap[j].conn => i = j
    /\ \A i \in DOMAIN tm.heap : Live(tm.heap[i]) /\ conn[tm.heap[i].conn].armed

\* No timer acts before its time.  The heap resumes a handler at its deadline or later;
\* the wheel does so, and closes an idle connection, no sooner than the MaxTicks seconds
\* by which the loop may be behind with the ticks when it inserts a node.
NeverEarly == early = {}

\* A deadline that has passed is acted on.
DueIsServed ==
    \A c \in Conns :
        (\E i \in DOMAIN tm.heap : tm.heap[i].conn = c /\ tm.heap[i].deadline <= now)
            ~> ~(\E i \in DOMAIN tm.heap : tm.heap[i].conn = c /\ tm.heap[i].deadline <= now)
=============================================================================
