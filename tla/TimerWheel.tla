----------------------------- MODULE TimerWheel -----------------------------
(***************************************************************************)
(* The keepalive timer wheel (timer_wheel.h, timer_wheel.cc) as operators  *)
(* on the slot each connection's list node is in.  The order of a slot's   *)
(* list is left open: the callbacks of a tick touch their own connection   *)
(* only.                                                                   *)
(***************************************************************************)
EXTENDS Integers

CONSTANTS
    Slots,     \* kSlots
    Second,    \* time units in one second, the time between two ticks
    Off,       \* the node is in no list
    KeepAlive, \* keepalive_timeout, in seconds
    Waits,     \* arguments of wait(ms), in time units
    MaxTicks   \* bound on the unread ticks of timer_fd: how long the loop may stall

ASSUME WheelAssumption ==
    /\ Slots \in Nat \ {0} /\ Second \in Nat \ {0} /\ Off \notin 0 .. Slots - 1
    /\ KeepAlive \in 1 .. Slots - 1 /\ Waits \subseteq Nat \ {0} /\ MaxTicks \in Nat

\* A node is in one list, so adding it moves it: add is called on nodes in no
\* list, refresh removes the node first.
WheelRemove(wheel, c) == [wheel EXCEPT ![c] = Off]

WheelAdd(wheel, cursor, c, secs) == [wheel EXCEPT ![c] = (cursor + secs) % Slots]
WheelRefresh(wheel, cursor, c, secs) == WheelAdd(WheelRemove(wheel, c), cursor, c, secs)

\* The connections whose callback the current tick still has to run; then the
\* cursor moves on.
Expiring(wheel, cursor, c) == wheel[c] = cursor % Slots
NextSlot(cursor) == (cursor + 1) % Slots

\* timer_seconds_from_ms.
WheelSeconds(ms) == (ms + Second - 1) \div Second
=============================================================================
