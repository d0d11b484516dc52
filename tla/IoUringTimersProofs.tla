------------------------ MODULE IoUringTimersProofs -------------------------
(* Proofs about IoUringTimers for every number of connections, every size of *)
(* the wheel (64 slots in the code) and every length of a stall.             *)
EXTENDS IoUringTimers, TLAPS

-----------------------------------------------------------------------------
(* Division with remainder by a number that is not known. *)

(* Division with remainder. *)
LEMMA DivMod ==
    ASSUME NEW a \in Int, NEW m \in Nat \ {0}
    PROVE  a % m \in 0..(m - 1) /\ a \div m \in Int /\ a = m * (a \div m) + (a % m)
OBVIOUS

(* A multiple of m closer to 0 than m is 0. *)
LEMMA SmallMultiple ==
    ASSUME NEW m \in Nat \ {0}, NEW k \in Int, NEW d \in Int,
           d = m * k, -m < d, d < m
    PROVE  d = 0
<1>1. CASE k >= 1
  <2>1. m * k >= m BY <1>1
  <2>2. QED BY <2>1
<1>2. CASE k <= -1
  <2>1. m * k <= -m BY <1>2
  <2>2. QED BY <2>1
<1>3. CASE k = 0
  <2>1. m * k = 0 BY <1>3
  <2>2. QED BY <2>1
<1>4. QED BY <1>1, <1>2, <1>3

(* The remainder is unique. *)
LEMMA ModUnique ==
    ASSUME NEW a \in Int, NEW m \in Nat \ {0}, NEW q \in Int, NEW r \in 0..(m - 1),
           a = m * q + r
    PROVE  a % m = r
<1> DEFINE k == q - (a \div m)
           d == (a % m) - r
<1>1. a % m \in 0..(m - 1) /\ a \div m \in Int /\ a = m * (a \div m) + (a % m) BY DivMod, SMTT(30)
<1>2. (a % m) - r = m * (q - (a \div m)) BY <1>1
<1>3. k \in Int /\ d \in Int /\ d = m * k /\ -m < d /\ d < m BY <1>1, <1>2
<1> HIDE DEF k, d
<1>4. d = 0 BY <1>3, SmallMultiple
<1>5. QED BY <1>4, <1>1 DEF d

(* So is the quotient. *)
LEMMA DivUnique ==
    ASSUME NEW a \in Int, NEW m \in Nat \ {0}, NEW q \in Int, NEW r \in 0..(m - 1),
           a = m * q + r
    PROVE  a \div m = q
<1> DEFINE k == q - (a \div m)
<1>1. a \div m \in Int /\ a = m * (a \div m) + (a % m) /\ a % m = r BY DivMod, ModUnique
<1>2. k \in Int /\ m * q = m * (a \div m) BY <1>1
<1>3. m * k = 0 BY <1>1, <1>2
<1>4. k = 0
  <2> HIDE DEF k
  <2>1. CASE k >= 1
    <3>1. m * k >= m BY <1>2, <2>1
    <3>2. QED BY <3>1, <1>3
  <2>2. CASE k <= -1
    <3>1. m * k <= -m BY <1>2, <2>2
    <3>2. QED BY <3>1, <1>3
  <2>3. QED BY <1>2, <2>1, <2>2
<1>5. QED BY <1>1, <1>4

(* Multiplication by a number that is not negative keeps the order. *)
LEMMA TimesKeepsOrder ==
    ASSUME NEW a \in Int, NEW b \in Int, NEW m \in Nat, a <= b
    PROVE  a * m <= b * m
<1>1. (b - a) * m >= 0 OBVIOUS
<1>2. (b - a) * m = b * m - a * m OBVIOUS
<1>3. QED BY <1>1, <1>2

-----------------------------------------------------------------------------
(* The invariant. *)

Slot == [open : BOOLEAN, gen : Nat, fn : BOOLEAN, kind : {"Timer", "Any", "Recv"},
         armed : BOOLEAN, timeout : BOOLEAN]

TypeOK ==
    /\ conn \in [Conns -> Slot]
    /\ wheel \in [Conns -> (0 .. Slots - 1) \cup {Off}] /\ cursor \in 0 .. Slots - 1
    /\ timeouts \subseteq [c : Conns, gen : Nat, deadline : Nat, cancelled : BOOLEAN]
    /\ cqes \subseteq [c : Conns, gen : Nat]
    /\ now \in Nat /\ due \in [Conns -> Nat]

\* The ticks: the wheel is at most MaxTicks behind the clock.
TicksOK ==
    /\ ticks \in Nat /\ batch \in Nat /\ ticks + batch <= MaxTicks
    /\ mode \in {"loop", "tick"} /\ (mode = "tick" => batch > 0)

\* The flags of a slot: a closed one has none set, a timeout belongs to a wait with
\* a time, and what is open and has no timeout is on the wheel.
FlagsOK(r, w) ==
    /\ ~r.open => w = Off /\ ~r.fn /\ ~r.armed /\ ~r.timeout
    /\ r.timeout => r.armed /\ w = Off
    /\ r.armed => r.fn /\ r.kind # "Recv"
    /\ r.fn /\ r.kind = "Timer" => r.armed
    /\ r.open /\ ~r.timeout => w # Off

\* The operations ts and completions qs on their way to slot c: none is of a
\* generation to come, one of the current generation belongs to the timeout that is
\* armed, and there is one.  It is not cancelled and does not complete before the
\* handler's time d.
Of(c, S) == { e \in S : e.c = c }
Current(r, c, ts, qs, d) ==
    /\ r.open => \A e \in ts \cup qs : e.gen <= r.gen /\ (e.gen = r.gen => r.timeout)
    /\ r.timeout => \E e \in ts \cup qs : e.gen = r.gen
    /\ r.open => \A e \in ts : e.gen = r.gen => /\ e.deadline = d /\ ~e.cancelled
                                                /\ [c |-> c, gen |-> r.gen] \notin qs
    /\ r.open => \A e \in qs : e.gen = r.gen => d <= now

\* How many ticks are left until the wheel comes to slot s, and how many it has done.
Left(s, cur) == IF s >= cur THEN s - cur ELSE s - cur + Slots
Done == (now \div Second) - ticks - batch

\* A handler on the wheel is reached at most MaxTicks ticks too soon.
OnTime(r, w, d) ==
    r.armed /\ ~r.timeout => d < (Left(w, cursor) + Done + MaxTicks + 1) * Second

SlotOK(c) ==
    /\ FlagsOK(conn[c], wheel[c])
    /\ Current(conn[c], c, Of(c, timeouts), Of(c, cqes), due[c])
    /\ OnTime(conn[c], wheel[c], due[c])

\* The inductive invariant.
IInv == TypeOK /\ TicksOK /\ early = {} /\ \A c \in Conns : SlotOK(c)

-----------------------------------------------------------------------------
(* Arithmetic of the wheel. *)

(* What is put k ticks ahead is k ticks ahead. *)
LEMMA AddedAhead ==
    ASSUME NEW cur \in 0 .. Slots - 1, NEW k \in 0 .. Slots - 1
    PROVE  (cur + k) % Slots \in 0 .. Slots - 1 /\ Left((cur + k) % Slots, cur) = k
<1> USE WheelAssumption
<1>1. CASE cur + k < Slots
  <2>1. (cur + k) % Slots = cur + k BY <1>1, ModUnique, cur + k = Slots * 0 + (cur + k)
  <2>2. QED BY <2>1, <1>1 DEF Left
<1>2. CASE cur + k >= Slots
  <2>1. (cur + k) % Slots = cur + k - Slots
    BY <1>2, ModUnique, cur + k = Slots * 1 + (cur + k - Slots)
  <2>2. QED BY <2>1, <1>2 DEF Left
<1>3. QED BY <1>1, <1>2

(* The slot under the cursor is the one with no tick left. *)
LEMMA ExpiringNow ==
    ASSUME NEW cur \in 0 .. Slots - 1, NEW w \in [Conns -> (0 .. Slots - 1) \cup {Off}],
           NEW c \in Conns
    PROVE  Expiring(w, cur, c) <=> w[c] = cur
<1>1. cur % Slots = cur BY WheelAssumption, ModUnique, cur = Slots * 0 + cur
<1>2. QED BY <1>1 DEF Expiring

(* A tick leaves one tick less for every slot but the one it ran. *)
LEMMA TickedOnce ==
    ASSUME NEW cur \in 0 .. Slots - 1, NEW s \in 0 .. Slots - 1, s # cur
    PROVE  NextSlot(cur) \in 0 .. Slots - 1 /\ Left(s, NextSlot(cur)) = Left(s, cur) - 1
<1> USE WheelAssumption
<1>1. CASE cur + 1 < Slots
  <2>1. (cur + 1) % Slots = cur + 1 BY <1>1, ModUnique, cur + 1 = Slots * 0 + (cur + 1)
  <2>2. QED BY <2>1 DEF Left, NextSlot
<1>2. CASE cur + 1 = Slots
  <2>1. (cur + 1) % Slots = 0 BY <1>2, ModUnique, cur + 1 = Slots * 1 + 0
  <2>2. QED BY <2>1, <1>2 DEF Left, NextSlot
<1>3. QED BY <1>1, <1>2

(* The cursor stays on the wheel. *)
LEMMA NextSlotType ==
    ASSUME NEW cur \in 0 .. Slots - 1
    PROVE  NextSlot(cur) \in 0 .. Slots - 1
BY DivMod, WheelAssumption DEF NextSlot

(* The ticks of the clock: one is due whenever a second begins. *)
LEMMA ClockTicks ==
    ASSUME NEW t \in Nat
    PROVE  /\ t \div Second \in Int
           /\ (t \div Second) * Second <= t /\ t < ((t \div Second) + 1) * Second
           /\ ((t + 1) \div Second) = (t \div Second) + (IF (t + 1) % Second = 0 THEN 1 ELSE 0)
<1> DEFINE q == t \div Second
           r == t % Second
<1>1. Second \in Nat \ {0} BY WheelAssumption
<1>2. r \in 0 .. Second - 1 /\ q \in Int /\ t = Second * q + r BY <1>1, DivMod
<1> HIDE DEF q, r
<1>3. q * Second <= t /\ t < (q + 1) * Second
  <2>1. q * Second = Second * q /\ (q + 1) * Second = Second * q + Second BY <1>1, <1>2
  <2>2. QED BY <1>1, <1>2, <2>1
<1>4. CASE r + 1 < Second
  <2>1. t + 1 = Second * q + (r + 1) BY <1>1, <1>2
  <2>2. (t + 1) \div Second = q /\ (t + 1) % Second = r + 1
    BY <1>1, <1>2, <1>4, <2>1, DivUnique, ModUnique
  <2>3. QED BY <1>2, <1>3, <1>4, <2>2 DEF q
<1>5. CASE r + 1 = Second
  <2>1. t + 1 = Second * (q + 1) + 0 BY <1>1, <1>2, <1>5
  <2>2. (t + 1) \div Second = q + 1 /\ (t + 1) % Second = 0
    BY <1>1, <1>2, <2>1, DivUnique, ModUnique
  <2>3. QED BY <1>2, <1>3, <2>2 DEF q
<1>6. QED BY <1>1, <1>2, <1>4, <1>5

(* timer_seconds_from_ms rounds up. *)
LEMMA SecondsRoundUp ==
    ASSUME NEW ms \in Nat \ {0}
    PROVE  WheelSeconds(ms) \in Nat /\ ms <= WheelSeconds(ms) * Second
<1> DEFINE a == ms + Second - 1
           k == a \div Second
<1>1. Second \in Nat \ {0} /\ a \in Nat BY WheelAssumption
<1>2. a % Second \in 0 .. Second - 1 /\ k \in Int /\ a = Second * k + (a % Second)
  BY <1>1, DivMod
<1> HIDE DEF k
<1>3. ms <= Second * k BY <1>1, <1>2
<1>4. k \in Nat
  <2>1. CASE k <= 0 /\ k # 0
    <3>1. k * Second <= 0 * Second BY <1>1, <1>2, <2>1, TimesKeepsOrder
    <3>2. QED BY <1>1, <1>2, <1>3, <3>1
  <2>2. QED BY <1>2, <2>1
<1>5. QED BY <1>1, <1>2, <1>3, <1>4 DEF k, WheelSeconds

-----------------------------------------------------------------------------
(* A step that is about one slot. *)

\* The loop's step changes slot c only: its place on the wheel, its operations, its flags.
Touches(c) ==
    /\ conn' \in [Conns -> Slot] /\ wheel' \in [Conns -> (0 .. Slots - 1) \cup {Off}]
    /\ due' \in [Conns -> Nat]
    /\ timeouts' \subseteq [c : Conns, gen : Nat, deadline : Nat, cancelled : BOOLEAN]
    /\ cqes' \subseteq [c : Conns, gen : Nat]
    /\ \A d \in Conns \ {c} :
         /\ conn'[d] = conn[d] /\ wheel'[d] = wheel[d] /\ due'[d] = due[d]
         /\ Of(d, timeouts') = Of(d, timeouts) /\ Of(d, cqes') = Of(d, cqes)

(* It keeps the invariant if it keeps what the invariant says of this slot. *)
LEMMA SlotStep ==
    ASSUME IInv, NEW c \in Conns, Touches(c), SlotOK(c)', early' = {},
           UNCHANGED <<cursor, now, ticks, batch, mode>>
    PROVE  IInv'
<1>1. TypeOK' BY DEF IInv, TypeOK, Touches
<1>2. TicksOK' BY DEF IInv, TicksOK
<1>3. ASSUME NEW d \in Conns \ {c} PROVE SlotOK(d)'
  <2>1. /\ conn'[d] = conn[d] /\ wheel'[d] = wheel[d] /\ due'[d] = due[d]
        /\ Of(d, timeouts') = Of(d, timeouts) /\ Of(d, cqes') = Of(d, cqes)
    BY <1>3 DEF Touches
  <2>2. SlotOK(d) BY DEF IInv
  <2>3. FlagsOK(conn[d], wheel[d])' BY <2>1, <2>2 DEF SlotOK, FlagsOK
  <2>4. Current(conn[d], d, Of(d, timeouts), Of(d, cqes), due[d])'
    BY <2>1, <2>2 DEF SlotOK, Current
  <2>5. OnTime(conn[d], wheel[d], due[d])' BY <2>1, <2>2 DEF SlotOK, OnTime, Done, Left
  <2>6. QED BY <2>3, <2>4, <2>5 DEF SlotOK
<1>4. QED BY <1>1, <1>2, <1>3 DEF IInv

\* A slot whose handler is about to run: no timer of its last wait is left.
Fresh(r, c, ts, qs) ==
    /\ r \in Slot /\ r.open /\ ~r.armed /\ ~r.timeout
    /\ ts \subseteq [c : Conns, gen : Nat, deadline : Nat, cancelled : BOOLEAN]
    /\ qs \subseteq [c : Conns, gen : Nat]
    /\ \A e \in Of(c, ts) \cup Of(c, qs) : e.gen < r.gen
    /\ \A d \in Conns \ {c} : Of(d, ts) = Of(d, timeouts) /\ Of(d, qs) = Of(d, cqes)

(* A handler that runs answers, waits for an event or sleeps, and has a timer again. *)
LEMMA RunsKeeps ==
    ASSUME IInv, NEW c \in Conns, NEW r, NEW w, NEW ts, Fresh(r, c, ts, cqes'),
           w \in [Conns -> (0 .. Slots - 1) \cup {Off}], w[c] # Off,
           \A d \in Conns \ {c} : w[d] = wheel[d],
           Runs(c, r, w, ts), early' = {}, UNCHANGED <<cursor, now, ticks, batch, mode>>
    PROVE  IInv'
<1> USE DEF Fresh
<1>0. /\ conn \in [Conns -> Slot] /\ due \in [Conns -> Nat] /\ now \in Nat
      /\ cursor \in 0 .. Slots - 1
  BY DEF IInv, TypeOK
<1>1. ASSUME NEW q \in Slot, q.open, ~q.armed, ~q.timeout, q.gen = r.gen,
             q.fn => q.kind # "Timer",
             conn' = [conn EXCEPT ![c] = q], wheel' = w, timeouts' = ts,
             due' = [due EXCEPT ![c] = 0]
      PROVE  IInv'
  <2>1. Touches(c) BY <1>0, <1>1 DEF Touches
  <2>2. conn'[c] = q /\ wheel'[c] = w[c] BY <1>0, <1>1
  <2>3. FlagsOK(conn[c], wheel[c])' BY <2>2, <1>1 DEF FlagsOK
  <2>4. Current(conn[c], c, Of(c, timeouts), Of(c, cqes), due[c])'
    <3>1. \A e \in Of(c, timeouts') \cup Of(c, cqes') : e.gen < q.gen BY <1>1
    <3>2. \A e \in Of(c, timeouts') \cup Of(c, cqes') : e.gen \in Nat BY <1>1 DEF Of
    <3>3. q.gen \in Nat BY DEF Slot
    <3>4. QED BY <1>1, <2>2, <3>1, <3>2, <3>3 DEF Current
  <2>5. OnTime(conn[c], wheel[c], due[c])' BY <2>2, <1>1 DEF OnTime
  <2>6. QED BY <2>1, <2>3, <2>4, <2>5, SlotStep DEF SlotOK
<1>2. CASE Answers(c, r, w, ts)
  <2> DEFINE q == [r EXCEPT !.fn = FALSE]
  <2>1. q \in Slot /\ q.open /\ ~q.armed /\ ~q.timeout /\ q.gen = r.gen /\ ~q.fn BY Zenon DEF Slot
  <2>2. QED BY <1>1, <1>2, <2>1, Zenon DEF Answers
<1>3. CASE AwaitsEvent(c, r, w, ts)
  <2> DEFINE q == [r EXCEPT !.fn = TRUE, !.kind = "Recv"]
  <2>1. q \in Slot /\ q.open /\ ~q.armed /\ ~q.timeout /\ q.gen = r.gen /\ q.kind = "Recv"
    BY Zenon DEF Slot
  <2>2. QED BY <1>1, <1>3, <2>1, Zenon DEF AwaitsEvent
<1>4. ASSUME NEW k \in {"Timer", "Any"}, NEW ms \in Waits, SleepsInKernel(c, r, w, ts, k, ms)
      PROVE  IInv'
  <2> DEFINE g == r.gen + 1
             q == [r EXCEPT !.fn = TRUE, !.kind = k, !.gen = g, !.armed = TRUE, !.timeout = TRUE]
             new == [c |-> c, gen |-> r.gen + 1, deadline |-> now + ms, cancelled |-> FALSE]
  <2>0. ms \in Nat /\ r.gen \in Nat BY WheelAssumption DEF Slot
  <2>1. /\ conn' = [conn EXCEPT ![c] = q] /\ wheel' = [w EXCEPT ![c] = Off]
        /\ timeouts' = ts \cup {new} /\ due' = [due EXCEPT ![c] = now + ms]
    BY <1>4 DEF SleepsInKernel, WheelRemove
  <2>2. q \in Slot /\ q.open /\ q.armed /\ q.timeout /\ q.gen = r.gen + 1 /\ q.fn /\ q.kind = k
    <3>1. g \in Nat BY <2>0
    <3> HIDE DEF g
    <3>2. q \in Slot /\ q.open /\ q.armed /\ q.timeout /\ q.gen = g /\ q.fn /\ q.kind = k
      BY <3>1, Zenon DEF Slot
    <3>3. QED BY <3>2 DEF g
  <2>3. new \in [c : Conns, gen : Nat, deadline : Nat, cancelled : BOOLEAN]
        /\ new.c = c /\ new.gen = r.gen + 1 /\ new.deadline = now + ms /\ ~new.cancelled
    BY <1>0, <2>0
  <2> HIDE DEF q, new
  <2>4. \A d \in Conns \ {c} : Of(d, ts \cup {new}) = Of(d, ts) BY <2>3 DEF Of
  <2>5. Touches(c) BY <1>0, <2>0, <2>1, <2>2, <2>3, <2>4, Zenon DEF Touches
  <2>6. conn'[c] = q /\ wheel'[c] = Off /\ due'[c] = now + ms BY <1>0, <2>1
  <2>7. FlagsOK(conn[c], wheel[c])' BY <2>2, <2>6 DEF FlagsOK
  <2>8. Current(conn[c], c, Of(c, timeouts), Of(c, cqes), due[c])'
    <3>1. Of(c, timeouts') = Of(c, ts) \cup {new} BY <2>1, <2>3 DEF Of
    <3>2. \A e \in Of(c, ts) \cup Of(c, cqes') : e.gen \in Nat /\ e.gen < r.gen BY DEF Of
    <3>3. [c |-> c, gen |-> q.gen] \notin Of(c, cqes') BY <2>0, <2>2, <3>2
    <3>4. QED BY <2>0, <2>2, <2>3, <2>6, <3>1, <3>2, <3>3 DEF Current
  <2>9. OnTime(conn[c], wheel[c], due[c])' BY <2>2, <2>6 DEF OnTime
  <2>10. QED BY <2>5, <2>7, <2>8, <2>9, SlotStep DEF SlotOK
<1>5. ASSUME NEW k \in {"Timer", "Any"}, NEW ms \in Waits, SleepsOnWheel(c, r, w, ts, k, ms)
      PROVE  IInv'
  <2> DEFINE q == [r EXCEPT !.fn = TRUE, !.kind = k, !.armed = TRUE, !.timeout = FALSE]
             secs == WheelSeconds(ms)
             s == (cursor + secs) % Slots
  <2>0. ms \in Nat \ {0} /\ r.gen \in Nat BY WheelAssumption DEF Slot
  <2>1. /\ conn' = [conn EXCEPT ![c] = q] /\ wheel' = [[w EXCEPT ![c] = Off] EXCEPT ![c] = s]
        /\ timeouts' = ts /\ due' = [due EXCEPT ![c] = now + ms] /\ secs < Slots
    BY <1>5 DEF SleepsOnWheel, WheelRemove, WheelAdd
  <2>2. q \in Slot /\ q.open /\ q.armed /\ ~q.timeout /\ q.gen = r.gen /\ q.fn /\ q.kind = k
    BY <2>0, Zenon DEF Slot
  <2>3. secs \in 0 .. Slots - 1 /\ ms <= secs * Second
    BY <2>0, <2>1, SecondsRoundUp, WheelAssumption
  <2> HIDE DEF q, secs
  <2>4. s \in 0 .. Slots - 1 /\ Left(s, cursor) = secs BY <1>0, <2>3, AddedAhead
  <2> HIDE DEF s
  <2>5. Touches(c) BY <1>0, <2>0, <2>1, <2>2, <2>4 DEF Touches
  <2>6. conn'[c] = q /\ wheel'[c] = s /\ due'[c] = now + ms BY <1>0, <2>1
  <2>7. FlagsOK(conn[c], wheel[c])' BY <2>2, <2>4, <2>6, WheelAssumption DEF FlagsOK
  <2>8. Current(conn[c], c, Of(c, timeouts), Of(c, cqes), due[c])'
    <3>1. \A e \in Of(c, timeouts') \cup Of(c, cqes') : e.gen \in Nat /\ e.gen < q.gen
      BY <2>1, <2>2 DEF Of
    <3>2. QED BY <2>0, <2>2, <2>6, <3>1 DEF Current
  <2>9. OnTime(conn[c], wheel[c], due[c])'
    <3> DEFINE f == now \div Second
               a == f + 1 + secs
               b == secs + (f - ticks - batch) + MaxTicks + 1
    <3>1. f \in Int /\ now < (f + 1) * Second BY <1>0, ClockTicks
    <3>2. ticks \in Nat /\ batch \in Nat /\ ticks + batch <= MaxTicks BY DEF IInv, TicksOK
    <3>3. secs + Done' + MaxTicks + 1 = b BY DEF Done
    <3> HIDE DEF f
    <3>4. secs \in Int /\ MaxTicks \in Int BY <2>3, WheelAssumption, WheelAssumption
    <3>5. a \in Int /\ b \in Int /\ a <= b
      <4>1. f \in Int BY <3>1
      <4>2. QED BY <3>2, <3>4, <4>1
    <3>6. a * Second = (f + 1) * Second + secs * Second BY <3>1, <3>4, WheelAssumption
    <3> HIDE DEF a, b
    <3>7. a * Second <= b * Second BY <3>5, TimesKeepsOrder, WheelAssumption
    <3>8. now + ms < b * Second
      <4>1. (f + 1) * Second \in Int /\ secs * Second \in Int /\ b * Second \in Int
        BY <3>1, <3>4, <3>5, WheelAssumption
      <4>2. QED BY <1>0, <2>0, <2>3, <3>1, <3>6, <3>7, <4>1
    <3>9. Left(wheel'[c], cursor') = secs BY <2>4, <2>6
    <3>10. QED BY <2>6, <3>3, <3>8, <3>9 DEF OnTime
  <2>10. QED BY <2>5, <2>7, <2>8, <2>9, SlotStep DEF SlotOK
<1>6. QED BY <1>2, <1>3, <1>4, <1>5 DEF Runs

-----------------------------------------------------------------------------
(* The steps. *)

(* A loop that has just been initialised satisfies the invariant. *)
LEMMA InitIInv == Init => IInv
<1> SUFFICES ASSUME Init PROVE IInv OBVIOUS
<1> USE DEF Init, Idle
<1>1. TypeOK BY WheelAssumption DEF TypeOK, Slot
<1>2. TicksOK BY WheelAssumption DEF TicksOK
<1>3. ASSUME NEW c \in Conns PROVE SlotOK(c)
  <2>1. Of(c, timeouts) = {} /\ Of(c, cqes) = {} BY DEF Of
  <2>2. conn[c] = Idle /\ wheel[c] = Off OBVIOUS
  <2>3. QED BY <2>1, <2>2 DEF SlotOK, FlagsOK, Current, OnTime
<1>4. QED BY <1>1, <1>2, <1>3 DEF IInv

(* The keepalive timeout fits on the wheel. *)
LEMMA KeepAliveFits == TypeOK => (cursor + KeepAlive) % Slots \in 0 .. Slots - 1
<1> SUFFICES ASSUME TypeOK PROVE (cursor + KeepAlive) % Slots \in 0 .. Slots - 1 OBVIOUS
<1>1. cursor \in 0 .. Slots - 1 BY DEF TypeOK
<1>2. KeepAlive \in 0 .. Slots - 1 BY WheelAssumption
<1>3. QED BY <1>1, <1>2, AddedAhead

(* What refresh leaves on the wheel: the connection is on it, the others are where they were. *)
LEMMA Refreshed ==
    ASSUME TypeOK, NEW c \in Conns, NEW w \in [Conns -> (0 .. Slots - 1) \cup {Off}],
           \A d \in Conns \ {c} : w[d] = wheel[d], NEW x,
           x = WheelRefresh(w, cursor, c, KeepAlive)
    PROVE  /\ x \in [Conns -> (0 .. Slots - 1) \cup {Off}] /\ x[c] # Off
           /\ \A d \in Conns \ {c} : x[d] = wheel[d]
<1> DEFINE s == (cursor + KeepAlive) % Slots
<1>1. s \in 0 .. Slots - 1 BY KeepAliveFits
<1> HIDE DEF s
<1>2. x = [[w EXCEPT ![c] = Off] EXCEPT ![c] = s] BY DEF WheelRefresh, WheelAdd, WheelRemove, s
<1>3. QED BY <1>1, <1>2, WheelAssumption

(* accept keeps the invariant: the slot is owed nothing. *)
LEMMA AcceptKeeps == ASSUME IInv, NEW c \in Conns, Accept(c) PROVE IInv'
<1> DEFINE q == [conn[c] EXCEPT !.open = TRUE]
           s == (cursor + KeepAlive) % Slots
<1>0. TypeOK /\ SlotOK(c) BY DEF IInv
<1>1. s \in 0 .. Slots - 1 BY <1>0, KeepAliveFits
<1>2. ~conn[c].armed /\ ~conn[c].timeout /\ ~conn[c].fn BY <1>0 DEF Accept, SlotOK, FlagsOK
<1>3. q \in Slot /\ q.open /\ ~q.armed /\ ~q.timeout /\ ~q.fn BY <1>0, <1>2, ZenonT(60) DEF TypeOK, Slot
<1>4. conn' = [conn EXCEPT ![c] = q] /\ wheel' = [wheel EXCEPT ![c] = s] BY DEF Accept, WheelAdd
<1> HIDE DEF q, s
<1>5. conn'[c] = q /\ wheel'[c] = s BY <1>0, <1>4 DEF TypeOK
<1>6. Of(c, timeouts') = {} /\ Of(c, cqes') = {} BY DEF Accept, Owed, Of
<1>7. Touches(c) BY <1>0, <1>1, <1>3, <1>4, ZenonT(60) DEF Touches, TypeOK, Accept
<1>8. FlagsOK(conn[c], wheel[c])' BY <1>1, <1>3, <1>5, WheelAssumption DEF FlagsOK
<1>9. Current(conn[c], c, Of(c, timeouts), Of(c, cqes), due[c])' BY <1>3, <1>5, <1>6 DEF Current
<1>10. OnTime(conn[c], wheel[c], due[c])' BY <1>3, <1>5 DEF OnTime
<1>11. QED BY <1>7, <1>8, <1>9, <1>10, SlotStep, Zenon DEF SlotOK, Accept, IInv

\* The operations the kernel may hold.
Ops == [c : Conns, gen : Nat, deadline : Nat, cancelled : BOOLEAN]

(* Two operations not cancelled of one connection, generation and deadline are one. *)
LEMMA SameOp ==
    ASSUME NEW e \in Ops, NEW o \in Ops, e.c = o.c, e.gen = o.gen, e.deadline = o.deadline,
           ~e.cancelled, ~o.cancelled
    PROVE  e = o
BY DEF Ops

(* A cancel touches the operations of its own connection, and adds only what is of the *)
(* generation it cancels.                                                              *)
LEMMA CancelledOps ==
    ASSUME timeouts \subseteq Ops, NEW c \in Conns, NEW g \in Nat,
           NEW own, own \subseteq { e \in Ops : e.c = c /\ e.gen = g },
           NEW ts \in Cancelled(c, g, own)
    PROVE  /\ ts \subseteq Ops
           /\ \A d \in Conns \ {c} : Of(d, ts) = Of(d, timeouts)
           /\ \A e \in Of(c, ts) : e.gen = g \/ \E o \in Of(c, timeouts) : o.gen = e.gen
<1> DEFINE mark(e) == [e EXCEPT !.cancelled = @ \/ (e.c = c /\ e.gen = g)]
<1>1. CASE ts = timeouts BY <1>1 DEF Of
<1>2. CASE ts = own \cup { mark(e) : e \in timeouts }
  <2>1. \A e \in own : e \in Ops /\ e.c = c /\ e.gen = g OBVIOUS
  <2>2. ASSUME NEW e \in timeouts
        PROVE  mark(e) \in Ops /\ mark(e).c = e.c /\ mark(e).gen = e.gen
    BY Zenon DEF Ops
  <2>3. ASSUME NEW e \in timeouts, e.c # c PROVE mark(e) = e BY <2>3 DEF Ops
  <2> HIDE DEF mark
  <2>4. ts \subseteq Ops BY <1>2, <2>1, <2>2
  <2>5. \A d \in Conns \ {c} : Of(d, ts) = Of(d, timeouts)
    BY <1>2, <2>1, <2>2, <2>3 DEF Of
  <2>6. \A e \in Of(c, ts) : e.gen = g \/ \E o \in Of(c, timeouts) : o.gen = e.gen
    BY <1>2, <2>1, <2>2, SMTT(30) DEF Of
  <2>7. QED BY <2>4, <2>5, <2>6
<1>3. QED BY <1>1, <1>2 DEF Cancelled

(* Both kinds of cancel are. *)
LEMMA CancelsOps ==
    ASSUME timeouts \subseteq Ops, NEW c \in Conns, NEW g \in Nat,
           NEW ts \in CancelOnClose(c, g) \cup CancelYieldTimeout(c, g)
    PROVE  /\ ts \subseteq Ops
           /\ \A d \in Conns \ {c} : Of(d, ts) = Of(d, timeouts)
           /\ \A e \in Of(c, ts) : e.gen = g \/ \E o \in Of(c, timeouts) : o.gen = e.gen
<1> DEFINE request == [c |-> c, gen |-> g, deadline |-> 0, cancelled |-> TRUE]
<1>1. {request} \subseteq { e \in Ops : e.c = c /\ e.gen = g } BY DEF Ops
<1>2. CASE ts \in CancelOnClose(c, g)
  <2>1. ts \in Cancelled(c, g, {request}) BY <1>2 DEF CancelOnClose
  <2> HIDE DEF request
  <2>2. QED BY <1>1, <2>1, CancelledOps
<1>3. CASE ts \in CancelYieldTimeout(c, g)
  <2>1. ts \in Cancelled(c, g, {}) BY <1>3 DEF CancelYieldTimeout
  <2>2. QED BY <2>1, CancelledOps
<1>4. QED BY <1>2, <1>3

(* close_conn keeps the invariant: a completion still to come finds the slot closed. *)
LEMMA CloseConnKeeps ==
    ASSUME IInv, NEW c \in Conns, CloseConn(c), cqes' = cqes, early' = early,
           UNCHANGED <<cursor, now, ticks, batch, mode>>
    PROVE  IInv'
<1> DEFINE q == Idle
<1>0. TypeOK /\ SlotOK(c) /\ timeouts \subseteq Ops /\ conn[c].gen \in Nat
  BY DEF IInv, TypeOK, Ops, Slot
<1>1. q \in Slot /\ ~q.open /\ ~q.fn /\ ~q.armed /\ ~q.timeout
  BY DEF Idle, Slot
<1>2. conn' = [conn EXCEPT ![c] = q] /\ wheel' = [wheel EXCEPT ![c] = Off]
      /\ due' = [due EXCEPT ![c] = 0]
  BY DEF CloseConn, WheelRemove
<1> HIDE DEF q
<1>3. /\ timeouts' \subseteq Ops
      /\ \A d \in Conns \ {c} : Of(d, timeouts') = Of(d, timeouts)
      /\ \A e \in Of(c, timeouts') :
            e.gen = conn[c].gen \/ \E o \in Of(c, timeouts) : o.gen = e.gen
  <2>1. CASE timeouts' = timeouts BY <1>0, <2>1
  <2>2. CASE timeouts' \in CancelOnClose(c, conn[c].gen) BY <1>0, <2>2, CancelsOps
  <2>3. QED BY <2>1, <2>2, SMTT(30) DEF CloseConn
<1>4. conn'[c] = q /\ wheel'[c] = Off BY <1>0, <1>2 DEF TypeOK
<1>5. Touches(c) BY <1>0, <1>1, <1>2, <1>3 DEF Touches, TypeOK, Ops
<1>6. FlagsOK(conn[c], wheel[c])' BY <1>1, <1>4, SMTT(30) DEF FlagsOK
<1>7. Current(conn[c], c, Of(c, timeouts), Of(c, cqes), due[c])' BY <1>1, <1>4 DEF Current
<1>8. OnTime(conn[c], wheel[c], due[c])' BY <1>1, <1>4 DEF OnTime
<1>9. QED BY <1>5, <1>6, <1>7, <1>8, SlotStep DEF SlotOK, IInv

(* Nothing of the current generation is on its way to an open slot without a timeout. *)
LEMMA NothingCurrent ==
    ASSUME IInv, NEW c \in Conns, conn[c].open, ~conn[c].timeout
    PROVE  \A e \in Of(c, timeouts) \cup Of(c, cqes) : e.gen \in Nat /\ e.gen < conn[c].gen
<1>1. conn[c].gen \in Nat BY DEF IInv, TypeOK, Slot
<1>2. \A e \in Of(c, timeouts) \cup Of(c, cqes) : e.gen \in Nat BY DEF IInv, TypeOK, Of
<1>3. \A e \in Of(c, timeouts) \cup Of(c, cqes) : e.gen <= conn[c].gen /\ e.gen # conn[c].gen
  BY Zenon DEF IInv, SlotOK, Current
<1>4. QED BY <1>1, <1>2, <1>3

(* A request enters its handler on a slot without a timer operation. *)
LEMMA RequestKeeps == ASSUME IInv, NEW c \in Conns, Request(c) PROVE IInv'
<1>0. TypeOK /\ SlotOK(c) BY DEF IInv
<1>1. Fresh(conn[c], c, timeouts, cqes')
  <2>1. ~conn[c].armed /\ ~conn[c].timeout /\ conn[c].open BY <1>0 DEF Request, SlotOK, FlagsOK
  <2>2. \A e \in Of(c, timeouts) \cup Of(c, cqes') : e.gen < conn[c].gen
    BY <2>1, NothingCurrent DEF Request
  <2>3. QED BY <1>0, <2>1, <2>2, SMTT(30) DEF Fresh, TypeOK, Request
<1>2. PICK x : x = WheelRefresh(wheel, cursor, c, KeepAlive) OBVIOUS
<1>3. /\ x \in [Conns -> (0 .. Slots - 1) \cup {Off}] /\ x[c] # Off
      /\ \A d \in Conns \ {c} : x[d] = wheel[d]
  BY <1>0, <1>2, Refreshed, SMTT(30) DEF TypeOK
<1>4. QED BY <1>1, <1>2, <1>3, RunsKeeps DEF Request, IInv

(* An event resumes a handler after its timer was disarmed: the generation moved on. *)
LEMMA EventResumesKeeps == ASSUME IInv, NEW c \in Conns, EventResumes(c) PROVE IInv'
<1> DEFINE r == conn[c]
           q == Disarmed(r)
<1>0. TypeOK /\ SlotOK(c) /\ timeouts \subseteq Ops /\ r \in Slot /\ r.gen \in Nat
  BY SMTT(30) DEF IInv, TypeOK, Ops, Slot
<1>1. PICK ts \in (IF r.timeout THEN CancelYieldTimeout(c, r.gen) ELSE {timeouts}) :
        Resumes(c, q, wheel, ts)
  BY DEF EventResumes
<1>2. /\ ts \subseteq Ops
      /\ \A d \in Conns \ {c} : Of(d, ts) = Of(d, timeouts)
      /\ \A e \in Of(c, ts) : (e.gen = r.gen /\ r.timeout)
                               \/ \E o \in Of(c, timeouts) : o.gen = e.gen
  <2>1. CASE ~r.timeout BY <1>0, <1>1, <2>1
  <2>2. CASE r.timeout BY <1>0, <1>1, <2>2, CancelsOps, SMTT(30)
  <2>3. QED BY <2>1, <2>2
<1>3. r.open /\ (r.timeout => r.armed) BY <1>0 DEF EventResumes, SlotOK, FlagsOK
<1>4. Fresh(q, c, ts, cqes')
  <2>1. CASE r.armed
    <3> DEFINE g == r.gen + 1
    <3>1. g \in Nat BY <1>0
    <3>2. q = [r EXCEPT !.armed = FALSE, !.timeout = FALSE, !.gen = g] BY <2>1 DEF Disarmed
    <3> HIDE DEF q, g
    <3>3. q \in Slot /\ q.open /\ ~q.armed /\ ~q.timeout /\ q.gen = g
      BY <1>0, <1>3, <3>1, <3>2, ZenonT(60) DEF Slot
    <3>4. \A e \in Of(c, timeouts) \cup Of(c, cqes) : e.gen \in Nat /\ e.gen <= r.gen
      BY <1>0, <1>3 DEF SlotOK, Current, TypeOK, Of
    <3>5. \A e \in Of(c, ts) \cup Of(c, cqes) : e.gen < q.gen BY <1>0, <1>2, <3>3, <3>4, SMTT(30) DEF g
    <3>6. QED BY <1>0, <1>2, <3>3, <3>5 DEF Fresh, TypeOK, Ops, EventResumes
  <2>2. CASE ~r.armed
    <3>1. q = r /\ ~r.timeout /\ ts = timeouts BY <1>1, <1>3, <2>2 DEF Disarmed
    <3>2. \A e \in Of(c, timeouts) \cup Of(c, cqes) : e.gen < r.gen BY <1>3, <3>1, NothingCurrent
    <3>3. QED BY <1>0, <1>3, <2>2, <3>1, <3>2 DEF Fresh, TypeOK, Ops, EventResumes
  <2>3. QED BY <2>1, <2>2, SMTT(30)
<1> HIDE DEF q, r
<1>5. PICK x : x = WheelRefresh(wheel, cursor, c, KeepAlive) OBVIOUS
<1>6. /\ x \in [Conns -> (0 .. Slots - 1) \cup {Off}] /\ x[c] # Off
      /\ \A d \in Conns \ {c} : x[d] = wheel[d]
  BY <1>0, <1>5, Refreshed DEF TypeOK
<1>7. Runs(c, q, x, ts) BY <1>1, <1>5 DEF Resumes
<1>8. QED BY <1>4, <1>6, <1>7, RunsKeeps DEF EventResumes, IInv

(* A peer that closes. *)
LEMMA PeerClosesKeeps == ASSUME IInv, NEW c \in Conns, PeerCloses(c) PROVE IInv'
BY CloseConnKeeps DEF PeerCloses

(* The tick reaches a connection: a handler that sleeps on the wheel has slept long enough. *)
LEMMA ExpiresKeeps == ASSUME IInv, NEW c \in Conns, Expires(c) PROVE IInv'
<1> DEFINE r == conn[c]
           resumes == r.fn /\ (r.kind = "Timer" \/ (r.armed /\ r.kind = "Any"))
           q == [r EXCEPT !.armed = FALSE, !.timeout = FALSE]
           w == WheelRemove(wheel, c)
<1>0. TypeOK /\ SlotOK(c) /\ r \in Slot BY DEF IInv, TypeOK
<1>1. wheel[c] = cursor /\ wheel[c] # Off /\ cursor \in 0 .. Slots - 1
  BY <1>0, ExpiringNow, WheelAssumption, SMTT(30) DEF Expires, TypeOK
<1>2. r.open /\ ~r.timeout BY <1>0, <1>1 DEF SlotOK, FlagsOK
<1>3. CASE ~resumes BY <1>3, CloseConnKeeps DEF Expires
<1>4. CASE resumes
  <2>1. r.armed BY <1>0, <1>4 DEF SlotOK, FlagsOK
  <2>2. early' = {}
    <3> DEFINE f == now \div Second
               a == 0 + (f - ticks - batch) + MaxTicks + 1
               b == f + MaxTicks
    <3>1. f \in Int /\ f * Second <= now BY <1>0, ClockTicks DEF TypeOK
    <3>2. ticks \in Nat /\ batch \in Nat /\ batch > 0 BY DEF IInv, TicksOK, Expires
    <3>3. due[c] < a * Second
      <4>1. Left(wheel[c], cursor) = 0 BY <1>1 DEF Left
      <4>2. QED BY <1>0, <1>2, <2>1, <4>1 DEF SlotOK, OnTime, Done
    <3> HIDE DEF f
    <3>4. a \in Int /\ b \in Int /\ a <= b
      <4>1. f \in Int BY <3>1
      <4>2. QED BY <3>2, <4>1, WheelAssumption
    <3>5. b * Second = f * Second + MaxTicks * Second BY <3>1, WheelAssumption
    <3> HIDE DEF a, b
    <3>6. a * Second <= b * Second BY <3>4, TimesKeepsOrder, WheelAssumption
    <3>7. ~(now + MaxTicks * Second < due[c])
      <4>1. /\ a * Second \in Int /\ f * Second \in Int /\ MaxTicks * Second \in Int
            /\ due[c] \in Nat /\ now \in Nat
        BY <1>0, <3>1, <3>4, WheelAssumption DEF TypeOK
      <4>2. QED BY <3>1, <3>3, <3>5, <3>6, <4>1
    <3>8. QED BY <1>4, <3>7 DEF Expires, IInv
  <2>3. q \in Slot /\ q.open /\ ~q.armed /\ ~q.timeout /\ q.gen = r.gen
    BY <1>0, <1>2, Zenon DEF Slot
  <2>4. \A e \in Of(c, timeouts) \cup Of(c, cqes) : e.gen < r.gen BY <1>2, NothingCurrent
  <2>5. Fresh(q, c, timeouts, cqes') BY <1>0, <2>3, <2>4 DEF Fresh, TypeOK, Expires
  <2>6. /\ w \in [Conns -> (0 .. Slots - 1) \cup {Off}] /\ \A d \in Conns \ {c} : w[d] = wheel[d]
    BY <1>0 DEF WheelRemove, TypeOK
  <2>7. Resumes(c, q, w, timeouts) BY <1>4 DEF Expires
  <2> HIDE DEF r, q, w
  <2>8. PICK x : x = WheelRefresh(w, cursor, c, KeepAlive) OBVIOUS
  <2>9. /\ x \in [Conns -> (0 .. Slots - 1) \cup {Off}] /\ x[c] # Off
        /\ \A d \in Conns \ {c} : x[d] = wheel[d]
    BY <1>0, <2>6, <2>8, Refreshed
  <2>10. Runs(c, q, x, timeouts) BY <2>7, <2>8 DEF Resumes
  <2>11. QED BY <2>2, <2>5, <2>9, <2>10, RunsKeeps, SMTT(30) DEF Expires
<1>5. QED BY <1>3, <1>4

(* A completion resumes the handler it belongs to, when its time has come, and no other. *)
LEMMA DispatchTimerKeeps == ASSUME IInv, NEW e \in cqes, DispatchTimer(e) PROVE IInv'
<1> DEFINE c == e.c
           r == conn[c]
           resumes == r.fn /\ Matches(r, e) /\ (r.kind = "Timer" \/ (r.armed /\ r.kind = "Any"))
           q == [r EXCEPT !.armed = FALSE, !.timeout = FALSE]
<1>0. /\ c \in Conns /\ TypeOK /\ SlotOK(c) /\ r \in Slot /\ e.gen \in Nat
      /\ e = [c |-> c, gen |-> e.gen] /\ e \in Of(c, cqes) /\ cqes' = cqes \ {e}
  BY DEF IInv, TypeOK, Of, DispatchTimer
<1>1. \A d \in Conns \ {c} : Of(d, cqes') = Of(d, cqes) BY <1>0 DEF Of
<1>2. CASE resumes
  <2>1. r.open /\ e.gen = r.gen BY <1>0, <1>2 DEF SlotOK, FlagsOK, Matches
  <2>2. early' = {}
    <3>1. due[c] <= now BY <1>0, <2>1 DEF SlotOK, Current
    <3>2. due[c] \in Nat /\ now \in Nat BY <1>0 DEF TypeOK
    <3>3. ~(now < due[c]) BY <3>1, <3>2
    <3>4. QED BY <1>2, <3>3 DEF DispatchTimer, IInv
  <2>3. q \in Slot /\ q.open /\ ~q.armed /\ ~q.timeout /\ q.gen = r.gen
    BY <1>0, <2>1, Zenon DEF Slot
  <2>4. \A o \in Of(c, timeouts) \cup Of(c, cqes') : o.gen < r.gen
    <3>1. \A o \in Of(c, timeouts) \cup Of(c, cqes) : o.gen \in Nat /\ o.gen <= r.gen
      BY <1>0, <2>1 DEF SlotOK, Current, TypeOK, Of
    <3>2. \A o \in Of(c, timeouts) : o.gen # r.gen BY <1>0, <2>1 DEF SlotOK, Current
    <3>3. \A o \in Of(c, cqes') : o.gen # r.gen
      <4>1. \A o \in Of(c, cqes') : o \in [c : Conns, gen : Nat] /\ o.c = c /\ o # e /\ o \in cqes
        BY <1>0 DEF TypeOK, Of
      <4>2. \A o \in Of(c, cqes') : o = [c |-> c, gen |-> o.gen] BY <4>1
      <4>3. QED BY <1>0, <2>1, <4>1, <4>2
    <3>4. \A o \in Of(c, cqes') : o \in Of(c, cqes) BY <1>0 DEF Of
    <3>5. r.gen \in Nat BY <1>0 DEF Slot
    <3>6. QED BY <3>1, <3>2, <3>3, <3>4, <3>5, SMTT(30)
  <2>5. Fresh(q, c, timeouts, cqes') BY <1>0, <1>1, <2>3, <2>4, Zenon DEF Fresh, TypeOK
  <2>6. Resumes(c, q, wheel, timeouts) BY <1>2 DEF DispatchTimer
  <2> HIDE DEF c, r, q
  <2>7. PICK x : x = WheelRefresh(wheel, cursor, c, KeepAlive) OBVIOUS
  <2>8. /\ x \in [Conns -> (0 .. Slots - 1) \cup {Off}] /\ x[c] # Off
        /\ \A d \in Conns \ {c} : x[d] = wheel[d]
    BY <1>0, <2>7, Refreshed DEF TypeOK
  <2>9. Runs(c, q, x, timeouts) BY <2>6, <2>7 DEF Resumes
  <2>10. QED BY <1>0, <2>2, <2>5, <2>8, <2>9, RunsKeeps DEF DispatchTimer
<1>3. CASE ~resumes
  <2>1. Matches(r, e) => ~r.open
    <3>1. SUFFICES ASSUME e.gen = r.gen, r.open PROVE FALSE BY DEF Matches
    <3>2. r.timeout BY <1>0, <3>1 DEF SlotOK, Current
    <3>3. r.armed /\ r.fn /\ r.kind # "Recv" BY <1>0, <3>2 DEF SlotOK, FlagsOK
    <3>4. QED BY <1>0, <1>3, <3>1, <3>3 DEF Slot, Matches
  <2>2. conn' = conn
    <3>1. Matches(r, e) => q = r
      <4>1. Matches(r, e) => r.armed = FALSE /\ r.timeout = FALSE
        BY <1>0, <2>1 DEF SlotOK, FlagsOK, Slot
      <4>2. QED BY <1>0, <4>1, Zenon DEF Slot
    <3>2. conn' = [conn EXCEPT ![c] = IF Matches(r, e) THEN q ELSE r] BY <1>3 DEF DispatchTimer
    <3>3. QED BY <1>0, <3>1, <3>2 DEF TypeOK
  <2>3. UNCHANGED <<wheel, timeouts, due, early, cursor, now, ticks, batch, mode>>
    BY <1>3 DEF DispatchTimer
  <2>4. Touches(c) BY <1>0, <1>1, <2>2, <2>3, ZenonT(60) DEF Touches, TypeOK
  <2>5. SlotOK(c)'
    <3>1. FlagsOK(conn[c], wheel[c])' BY <1>0, <2>2, <2>3 DEF SlotOK, FlagsOK
    <3>2. Current(conn[c], c, Of(c, timeouts), Of(c, cqes), due[c])'
      <4>1. \A o \in Of(c, cqes') : o \in Of(c, cqes) BY <1>0 DEF Of
      <4>2. \A o \in Of(c, cqes) : o.gen # e.gen => o \in Of(c, cqes') BY <1>0 DEF Of
      <4>3. r.timeout => e.gen # r.gen BY <1>0, <2>1 DEF SlotOK, FlagsOK, Matches
      <4>4. QED BY <1>0, <2>2, <2>3, <4>1, <4>2, <4>3, Zenon DEF SlotOK, Current
    <3>3. OnTime(conn[c], wheel[c], due[c])' BY <1>0, <2>2, <2>3 DEF SlotOK, OnTime, Done, Left
    <3>4. QED BY <3>1, <3>2, <3>3, SMTT(30) DEF SlotOK
  <2>6. QED BY <1>0, <2>3, <2>4, <2>5, SlotStep DEF IInv
<1>4. QED BY <1>2, <1>3

(* The kernel completes an operation: a current one only when its time has come. *)
LEMMA TimeoutCompletesKeeps ==
    ASSUME IInv, NEW e \in timeouts, TimeoutCompletes(e) PROVE IInv'
<1> DEFINE c == e.c
           r == conn[c]
           cqe == [c |-> c, gen |-> e.gen]
<1>0. /\ c \in Conns /\ TypeOK /\ SlotOK(c) /\ r \in Slot /\ e \in Ops /\ e \in Of(c, timeouts)
      /\ timeouts' = timeouts \ {e} /\ cqes' = cqes \cup {cqe} /\ timeouts \subseteq Ops
      /\ UNCHANGED <<wheel, cursor, conn, now, ticks, batch, mode, due, early>>
  BY DEF IInv, TypeOK, Of, Ops, TimeoutCompletes
<1>1. cqe \in [c : Conns, gen : Nat] /\ cqe.c = c /\ cqe.gen = e.gen BY <1>0 DEF Ops
<1>2. \A d \in Conns \ {c} : Of(d, timeouts') = Of(d, timeouts) /\ Of(d, cqes') = Of(d, cqes)
  BY <1>0, <1>1 DEF Of
<1>3. Of(c, timeouts') = Of(c, timeouts) \ {e} /\ Of(c, cqes') = Of(c, cqes) \cup {cqe}
  BY <1>0, <1>1 DEF Of
<1>4. Touches(c) BY <1>0, <1>1, <1>2, ZenonT(60) DEF Touches, TypeOK
<1>5. FlagsOK(conn[c], wheel[c])' BY <1>0, SMTT(30) DEF SlotOK, FlagsOK
<1>6. Current(conn[c], c, Of(c, timeouts), Of(c, cqes), due[c])'
  <2>0. Current(r, c, Of(c, timeouts), Of(c, cqes), due[c]) BY <1>0 DEF SlotOK
  <2>1. r.open => \A o \in Of(c, timeouts') \cup Of(c, cqes') :
                     o.gen <= r.gen /\ (o.gen = r.gen => r.timeout)
    BY <1>0, <1>1, <1>3, <2>0 DEF Current
  <2>2. r.timeout => \E o \in Of(c, timeouts') \cup Of(c, cqes') : o.gen = r.gen
    BY <1>1, <1>3, <2>0 DEF Current
  <2>3. ASSUME r.open, NEW o \in Of(c, timeouts'), o.gen = r.gen
        PROVE  /\ o.deadline = due[c] /\ ~o.cancelled
               /\ [c |-> c, gen |-> r.gen] \notin Of(c, cqes')
    <3>1. /\ o \in Of(c, timeouts) /\ o # e /\ o.deadline = due[c] /\ ~o.cancelled
          /\ [c |-> c, gen |-> r.gen] \notin Of(c, cqes)
      BY <1>3, <2>0, <2>3 DEF Current
    <3>2. e.gen # r.gen
      <4>1. SUFFICES ASSUME e.gen = r.gen PROVE FALSE OBVIOUS
      <4>2. e.deadline = due[c] /\ ~e.cancelled BY <1>0, <2>0, <2>3, <4>1, SMTT(30) DEF Current
      <4>3. o \in Ops /\ o.c = c BY <1>0, <3>1, Zenon DEF Of
      <4>4. e = o BY <1>0, <2>3, <3>1, <4>1, <4>2, <4>3, SameOp, Zenon
      <4>5. QED BY <3>1, <4>4
    <3>3. [c |-> c, gen |-> r.gen] # cqe BY <1>1, <3>2
    <3>4. QED BY <1>3, <3>1, <3>3
  <2>4. ASSUME r.open, NEW o \in Of(c, cqes'), o.gen = r.gen PROVE due[c] <= now
    <3>1. CASE o \in Of(c, cqes) BY <2>0, <2>4, <3>1 DEF Current
    <3>2. CASE o = cqe
      <4>1. e.deadline = due[c] /\ ~e.cancelled BY <1>0, <1>1, <2>0, <2>4, <3>2 DEF Current
      <4>2. QED BY <4>1 DEF TimeoutCompletes
    <3>3. QED BY <1>3, <2>4, <3>1, <3>2, SMTT(30)
  <2>5. conn'[c] = r /\ due'[c] = due[c] /\ now' = now BY <1>0
  <2> HIDE DEF r, c
  <2>6. QED BY <2>1, <2>2, <2>3, <2>4, <2>5 DEF Current
<1>7. OnTime(conn[c], wheel[c], due[c])' BY <1>0 DEF SlotOK, OnTime, Done, Left
<1>8. QED BY <1>0, <1>4, <1>5, <1>6, <1>7, SlotStep, Zenon DEF SlotOK, IInv

(* The steps of the clock and of the wheel keep every slot as it is, and the number of     *)
(* ticks done plus those left for a connection on the wheel stays the same.                *)
LEMMA ClockStep ==
    ASSUME IInv, UNCHANGED <<wheel, timeouts, cqes, conn, due, early>>,
           now' \in Nat, now <= now', cursor' \in 0 .. Slots - 1, TicksOK',
           \A c \in Conns : conn[c].armed /\ ~conn[c].timeout =>
               Left(wheel[c], cursor') + Done' = Left(wheel[c], cursor) + Done
    PROVE  IInv'
<1>1. TypeOK' BY SMTT(30) DEF IInv, TypeOK
<1>2. ASSUME NEW c \in Conns PROVE SlotOK(c)'
  <2>0. SlotOK(c) /\ TypeOK BY SMTT(30) DEF IInv
  <2>1. FlagsOK(conn[c], wheel[c])' BY <2>0, ZenonT(60) DEF SlotOK, FlagsOK
  <2>2. Current(conn[c], c, Of(c, timeouts), Of(c, cqes), due[c])'
    <3>1. \A d \in Nat : d <= now => d <= now' BY <2>0 DEF TypeOK
    <3>2. due[c] \in Nat BY <2>0, Zenon DEF TypeOK
    <3>3. QED BY <2>0, <3>1, <3>2, ZenonT(60) DEF SlotOK, Current, Of
  <2>3. OnTime(conn[c], wheel[c], due[c])'
    <3>1. SUFFICES ASSUME conn[c].armed, ~conn[c].timeout
                   PROVE  due[c] < (Left(wheel[c], cursor') + Done' + MaxTicks + 1) * Second
      BY SMTT(30) DEF OnTime
    <3>2. due[c] < (Left(wheel[c], cursor) + Done + MaxTicks + 1) * Second
      BY <2>0, <3>1 DEF SlotOK, OnTime
    <3>3. Left(wheel[c], cursor') + Done' = Left(wheel[c], cursor) + Done BY <3>1
    <3>4. QED BY <3>2, <3>3
  <2>4. QED BY <2>1, <2>2, <2>3 DEF SlotOK
<1>3. QED BY <1>1, <1>2 DEF IInv

(* Time passes; a second that begins is a tick to be read. *)
LEMMA AdvanceKeeps == ASSUME IInv, Advance PROVE IInv'
<1>0. now \in Nat /\ ticks \in Nat /\ batch \in Nat /\ cursor \in 0 .. Slots - 1
  BY DEF IInv, TypeOK, TicksOK
<1>1. now' = now + 1 /\ batch' = batch /\ ticks' = ticks + (IF (now + 1) % Second = 0 THEN 1 ELSE 0)
  BY <1>0 DEF Advance
<1>2. TicksOK' BY <1>0, <1>1 DEF IInv, TicksOK, Advance
<1>3. Done' = Done
  <2> DEFINE f == now \div Second
             k == IF (now + 1) % Second = 0 THEN 1 ELSE 0
  <2>1. f \in Int /\ (now + 1) \div Second = f + k BY <1>0, ClockTicks
  <2>2. Done = f - ticks - batch /\ Done' = ((now + 1) \div Second) - (ticks + k) - batch
    BY <1>1 DEF Done
  <2>3. k \in Int OBVIOUS
  <2> HIDE DEF f, k
  <2>4. QED BY <1>0, <2>1, <2>2, <2>3
<1>4. QED BY <1>0, <1>1, <1>2, <1>3, ClockStep DEF Advance

(* The ticks are read, and a tick begins. *)
LEMMA TickStartsKeeps == ASSUME IInv, WaitTicks \/ StartTick PROVE IInv'
<1>0. now \in Nat /\ ticks \in Nat /\ batch \in Nat /\ cursor \in 0 .. Slots - 1
      /\ now \div Second \in Int
  BY ClockTicks DEF IInv, TypeOK, TicksOK
<1>1. TicksOK'
  <2>1. CASE WaitTicks BY <2>1 DEF IInv, TicksOK, WaitTicks
  <2>2. CASE StartTick BY <2>2 DEF IInv, TicksOK, StartTick
  <2>3. QED BY <2>1, <2>2
<1>2. Done' = Done BY <1>0 DEF Done, WaitTicks, StartTick
<1>3. QED BY <1>0, <1>1, <1>2, ClockStep DEF WaitTicks, StartTick

(* A tick ends: no connection is left under the cursor. *)
LEMMA TickEndsKeeps == ASSUME IInv, TickEnds PROVE IInv'
<1>0. /\ TypeOK /\ now \in Nat /\ ticks \in Nat /\ batch \in Nat /\ cursor \in 0 .. Slots - 1
      /\ batch > 0
  BY DEF IInv, TypeOK, TicksOK, TickEnds
<1>1. TicksOK' BY <1>0, WheelAssumption DEF IInv, TicksOK, TickEnds
<1>2. cursor' = NextSlot(cursor) /\ cursor' \in 0 .. Slots - 1 BY <1>0, NextSlotType DEF TickEnds
<1>3. Done' = Done + 1 /\ Done \in Int
  <2>1. now \div Second \in Int BY <1>0, ClockTicks
  <2>2. QED BY <1>0, <2>1 DEF Done, TickEnds
<1>4. ASSUME NEW c \in Conns, conn[c].armed, ~conn[c].timeout
      PROVE  Left(wheel[c], cursor') + Done' = Left(wheel[c], cursor) + Done
  <2>1. conn[c].open BY <1>4, ZenonT(60) DEF IInv, SlotOK, FlagsOK
  <2>2. wheel[c] # Off BY <1>4, <2>1 DEF IInv, SlotOK, FlagsOK
  <2>3. wheel[c] # cursor BY <1>0, ExpiringNow DEF TickEnds, TypeOK
  <2>4. wheel[c] \in 0 .. Slots - 1 BY <1>0, <2>2 DEF TypeOK
  <2>5. Left(wheel[c], cursor') = Left(wheel[c], cursor) - 1
    BY <1>0, <1>2, <2>3, <2>4, TickedOnce
  <2>6. Left(wheel[c], cursor) \in Int BY <1>0, <2>4, WheelAssumption DEF Left
  <2>7. QED BY <1>3, <2>5, <2>6, SMTT(30)
<1>5. QED BY <1>0, <1>1, <1>2, <1>4, ClockStep DEF TickEnds

(* A step of another component keeps the invariant. *)
LEMMA StutterKeeps == ASSUME IInv, UNCHANGED vars PROVE IInv'
<1>1. TicksOK' /\ Done' = Done BY DEF IInv, TicksOK, Done, vars
<1>2. QED BY <1>1, ClockStep DEF vars, IInv, TypeOK

(* Every step keeps the invariant. *)
LEMMA NextKeeps == IInv /\ [Next]_vars => IInv'
BY AcceptKeeps, RequestKeeps, EventResumesKeeps, PeerClosesKeeps, ExpiresKeeps,
   DispatchTimerKeeps, TimeoutCompletesKeeps, AdvanceKeeps, TickStartsKeeps, TickEndsKeeps,
   StutterKeeps
   DEF Next

-----------------------------------------------------------------------------

(* Every open connection is on the wheel or has the completion of its timeout still to    *)
(* come, whatever was resumed, cancelled, closed or reused, and whenever the submission   *)
(* queue was full (schedule_yield_timer, disarm_yield_timer, free_conn_impl).              *)
THEOREM GuardedHolds == Spec => []Guarded
<1>1. IInv => Guarded
  <2>1. SUFFICES ASSUME IInv, NEW c \in Conns
                 PROVE  /\ conn[c].open =>
                             \/ wheel[c] # Off
                             \/ /\ conn[c].fn /\ conn[c].timeout
                                /\ \/ \E e \in timeouts : e.c = c /\ e.gen = conn[c].gen
                                   \/ [c |-> c, gen |-> conn[c].gen] \in cqes
                        /\ ~conn[c].open => wheel[c] = Off
    BY DEF Guarded
  <2>2. FlagsOK(conn[c], wheel[c]) BY <2>1 DEF IInv, SlotOK
  <2>3. ASSUME conn[c].timeout
        PROVE  \/ \E e \in timeouts : e.c = c /\ e.gen = conn[c].gen
               \/ [c |-> c, gen |-> conn[c].gen] \in cqes
    <3>1. PICK e \in Of(c, timeouts) \cup Of(c, cqes) : e.gen = conn[c].gen
      BY <2>1, <2>3, Zenon DEF IInv, SlotOK, Current
    <3>2. e \in cqes => e = [c |-> e.c, gen |-> e.gen] BY <2>1 DEF IInv, TypeOK
    <3>3. QED BY <3>1, <3>2 DEF Of
  <2>4. QED BY <2>2, <2>3 DEF FlagsOK
<1>2. QED BY <1>1, InitIInv, NextKeeps, PTL DEF Spec

(* No completion, current, cancelled or of an earlier connection of the slot, resumes a    *)
(* handler before its time, and the wheel not sooner than the ticks it was behind allow    *)
(* (the generation of yield_timer_gen; timer_seconds_from_ms rounds up).                   *)
THEOREM NeverResumedEarlyHolds == Spec => []NeverResumedEarly
<1>1. IInv => NeverResumedEarly BY DEF IInv, NeverResumedEarly
<1>2. QED BY <1>1, InitIInv, NextKeeps, PTL DEF Spec
=============================================================================
