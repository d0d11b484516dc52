------------------------------ MODULE MCTimers ------------------------------
(***************************************************************************)
(* The timers of both event loops, for TLC: a process runs one backend,    *)
(* chosen at the start, and the other's variables stay as they are.  The   *)
(* deadline heap of the epoll loop is explored by itself too, with more    *)
(* entries than the loop has connections.                                  *)
(***************************************************************************)
EXTENDS EpollTimers, MCYieldHeap

CONSTANTS c1, c2, UringWaits, UringMaxNow, UringMaxGen

VARIABLES
    backend,
    wheel, cursor, timeouts, cqes, u_conn, u_now, u_ticks, u_batch, u_mode, u_due, u_early

h_vars == <<heap, entries>>
u_vars == <<wheel, cursor, timeouts, cqes, u_conn, u_now, u_ticks, u_batch, u_mode, u_due, u_early>>

OneConn == {c1}
TwoConns == {c1, c2}

Uring == INSTANCE IoUringTimers WITH
    Conns <- OneConn, Waits <- UringWaits, MaxNow <- UringMaxNow, MaxGen <- UringMaxGen,
    conn <- u_conn, now <- u_now, ticks <- u_ticks, batch <- u_batch, mode <- u_mode,
    due <- u_due, early <- u_early

TimersInit == backend \in {"epoll", "io_uring", "heap"} /\ Init /\ Uring!Init /\ HeapInit
TimersNext ==
    \/ backend = "epoll" /\ Next /\ UNCHANGED <<backend, u_vars, h_vars>>
    \/ backend = "io_uring" /\ Uring!Next /\ UNCHANGED <<backend, vars, h_vars>>
    \/ backend = "heap" /\ HeapNext /\ UNCHANGED <<backend, vars, u_vars>>

\* The shard thread of the epoll loop keeps dispatching what wait() returns.
TimersSpec ==
    TimersInit /\ [][TimersNext]_<<backend, vars, u_vars, h_vars>> /\ WF_vars(Loop)

\* On both loops an open connection has a timer, the wheel, its heap entry or its timeout
\* operation, and a closed one has none, whatever was resumed, closed or reused; on epoll it
\* has exactly one.
AlwaysGuarded == Guarded /\ Uring!Guarded

\* On neither loop is a handler resumed or an idle connection closed before its time.
NoneEarly == NeverEarly /\ Uring!NeverResumedEarly
=============================================================================
