----------------------------- MODULE ShardProofs -----------------------------
(* Proofs about two parts of a shard.  ShardControl: for every number of    *)
(* requests and of updates.  SpscRing: for every capacity and every word    *)
(* size that is a multiple of it, the code's 512 and 256 slots under 2^32   *)
(* among them.  The two have no variable in common.                         *)
EXTENDS ShardControl, SpscRing, TLAPS

USE SMTT(30)

-----------------------------------------------------------------------------
(* The control block. *)

Places == {"none", "gone", "while", "batch", "config", "jit", "capture", "putback", "tail"}

TypeOK ==
    /\ pending \in [Pointers -> Nat] /\ active \in [Pointers -> Nat] /\ asked \in [Pointers -> Nat]
    /\ cap \in {"none", "on", "off"} /\ askedCap \in {"on", "off"}
    /\ loopCap \in BOOLEAN /\ region \in BOOLEAN /\ ring \in BOOLEAN /\ spawned \in BOOLEAN
    /\ running \in BOOLEAN /\ draining \in BOOLEAN /\ alive \in BOOLEAN /\ retried \in BOOLEAN
    /\ pc \in Places
    /\ pinned \in [Reqs -> Nat] /\ matched \in [Reqs -> Nat]

\* Who may be where: a thread that runs was spawned on a loop that exists, and a
\* control block is filled only while a thread is there to read it.
Lifecycle ==
    /\ pc \notin {"none", "gone"} => spawned /\ alive
    /\ spawned => alive /\ pc # "none"
    /\ ~spawned => \A p \in Pointers : pending[p] = 0
    /\ ~spawned => cap = "none"

\* The numbers of the updates: what was asked for last is in the control block or,
\* once that is empty, active.
Handed(p) ==
    /\ active[p] <= asked[p]
    /\ pending[p] # 0 => pending[p] = asked[p] /\ active[p] <= pending[p]
    /\ pending[p] = 0 => active[p] = asked[p] \/ (p = "config" /\ pc = "none" /\ active[p] = 0)
    /\ p = "config" => asked[p] >= 1
    /\ p = "config" /\ active[p] = 0 => pc = "none" /\ asked[p] = 1

\* The capture ring: nobody refers to one that is not allocated, and a request to
\* disable it is in the slot or has been carried out.
Capture ==
    /\ loopCap \/ cap = "on" \/ pc = "putback" => ring
    /\ pc = "putback" => ~loopCap
    /\ askedCap = "off" /\ ~retried => cap = "off" \/ (cap = "none" /\ ~loopCap)

\* A request keeps the config it was routed with.
Routed == resolved = {} /\ pinned = matched

\* The inductive invariant.
IInv == TypeOK /\ Lifecycle /\ (\A p \in Pointers : Handed(p)) /\ Capture /\ Routed

-----------------------------------------------------------------------------

(* The invariant implies the three state properties. *)
LEMMA IInvImplies == IInv => LastUpdateApplied /\ RingOutlivesUse /\ PinnedConfig
<1> SUFFICES ASSUME IInv PROVE LastUpdateApplied /\ RingOutlivesUse /\ PinnedConfig OBVIOUS
<1>1. LastUpdateApplied BY DEF IInv, LastUpdateApplied, Lifecycle, Handed, Capture
<1>2. RingOutlivesUse BY DEF IInv, RingOutlivesUse, Lifecycle, Capture
<1>3. PinnedConfig BY DEF IInv, PinnedConfig, Routed
<1>4. QED BY <1>1, <1>2, <1>3

(* A shard between init() and spawn() satisfies the invariant. *)
LEMMA InitIInv == Init => IInv
<1> SUFFICES ASSUME Init PROVE IInv OBVIOUS
<1> USE DEF Init, Pointers
<1>1. TypeOK BY Zenon DEF TypeOK, Places
<1>2. Lifecycle BY DEF Lifecycle
<1>3. \A p \in Pointers : Handed(p) BY DEF Handed
<1>4. Capture BY DEF Capture
<1>5. Routed BY DEF Routed
<1>6. QED BY <1>1, <1>2, <1>3, <1>4, <1>5 DEF IInv

(* spawn keeps the invariant: it seeds a config only if none was handed over. *)
LEMMA SpawnKeeps == ASSUME IInv, Spawn PROVE IInv'
<1> USE DEF IInv, Spawn, Pointers, requests
<1>1. TypeOK' BY ZenonT(60) DEF TypeOK, Places
<1>2. Lifecycle' BY DEF Lifecycle
<1>3. (\A p \in Pointers : Handed(p))' BY DEF Handed, TypeOK, Lifecycle
<1>4. Capture' BY DEF Capture, Lifecycle
<1>5. Routed' BY DEF Routed
<1>6. QED BY <1>1, <1>2, <1>3, <1>4, <1>5

(* reload_config and swap_jit keep the invariant. *)
LEMMA HandKeeps == ASSUME IInv, NEW q \in Pointers, Hand(q) PROVE IInv'
<1> USE DEF IInv, Hand, Pointers, requests
<1>1. TypeOK' BY DEF TypeOK, Places
<1>2. Lifecycle' BY DEF Lifecycle
<1>3. (\A p \in Pointers : Handed(p))' BY DEF Handed, TypeOK, Lifecycle
<1>4. Capture' BY DEF Capture, Lifecycle
<1>5. Routed' BY DEF Routed
<1>6. QED BY <1>1, <1>2, <1>3, <1>4, <1>5

(* enable_capture keeps the invariant. *)
LEMMA EnableCaptureKeeps == ASSUME IInv, EnableCapture PROVE IInv'
<1> USE DEF IInv, EnableCapture, SetCapture, Pointers, requests
<1>1. TypeOK' BY ZenonT(60) DEF TypeOK, Places
<1>2. Lifecycle' BY DEF Lifecycle
<1>3. (\A p \in Pointers : Handed(p))' BY DEF Handed, TypeOK, Lifecycle
<1>4. Capture' BY DEF Capture, Lifecycle
<1>5. Routed' BY DEF Routed
<1>6. QED BY <1>1, <1>2, <1>3, <1>4, <1>5

(* disable_capture keeps the invariant. *)
LEMMA DisableCaptureKeeps == ASSUME IInv, DisableCapture PROVE IInv'
<1> USE DEF IInv, DisableCapture, Pointers, requests
<1>1. TypeOK' BY ZenonT(60) DEF TypeOK, Places
<1>2. Lifecycle' BY DEF Lifecycle
<1>3. (\A p \in Pointers : Handed(p))' BY DEF Handed, TypeOK, Lifecycle
<1>4. Capture' BY DEF Capture, Lifecycle
<1>5. Routed' BY DEF Routed
<1>6. QED BY <1>1, <1>2, <1>3, <1>4, <1>5

(* stop and drain keep the invariant. *)
LEMMA StopKeeps == ASSUME IInv, Stop \/ Drain PROVE IInv'
<1> USE DEF IInv, Stop, Drain, Pointers, control, requests
<1>1. TypeOK'
  <2>1. CASE Stop
    <3>1. running' \in BOOLEAN BY <2>1, Zenon
    <3>2. UNCHANGED <<pending, cap, active, loopCap, region, draining, pc, spawned, alive, asked,
                      askedCap, ring, pinned, matched, retried>>
      BY <2>1
    <3>3. QED BY <3>1, <3>2 DEF TypeOK
  <2>2. CASE Drain BY <2>2 DEF TypeOK, Places
  <2>3. QED BY <2>1, <2>2, Zenon
<1>2. Lifecycle' BY DEF Lifecycle
<1>3. (\A p \in Pointers : Handed(p))' BY DEF Handed, TypeOK, Lifecycle
<1>4. Capture' BY DEF Capture, Lifecycle
<1>5. Routed' BY DEF Routed
<1>6. QED BY <1>1, <1>2, <1>3, <1>4, <1>5

(* join keeps the invariant: it applies what the thread left in the control block. *)
LEMMA JoinKeeps == ASSUME IInv, Join PROVE IInv'
<1> USE DEF IInv, Join, SetCapture, Pointers, requests
<1>1. TypeOK' BY Zenon DEF TypeOK, Places
<1>2. Lifecycle' BY DEF Lifecycle
<1>3. (\A p \in Pointers : Handed(p))' BY DEF Handed, TypeOK, Lifecycle
<1>4. Capture' BY Zenon DEF Capture, Lifecycle
<1>5. Routed' BY DEF Routed
<1>6. QED BY <1>1, <1>2, <1>3, <1>4, <1>5

(* shutdown keeps the invariant: no thread is left, and no slot holds the ring. *)
LEMMA ReleaseKeeps == ASSUME IInv, Release PROVE IInv'
<1> USE DEF IInv, Release, Pointers, requests
<1>1. TypeOK' BY Zenon DEF TypeOK, Places
<1>2. Lifecycle' BY DEF Lifecycle
<1>3. (\A p \in Pointers : Handed(p))' BY DEF Handed, TypeOK, Lifecycle
<1>4. Capture' BY DEF Capture, Lifecycle
<1>5. Routed' BY DEF Routed
<1>6. QED BY <1>1, <1>2, <1>3, <1>4, <1>5

(* The test of run() and the end of a batch keep the invariant. *)
LEMMA WhileKeeps == ASSUME IInv, While \/ EndBatch PROVE IInv'
<1> USE DEF IInv, While, EndBatch, Pointers, control, requests
<1>1. TypeOK' BY DEF TypeOK, Places
<1>2. Lifecycle' BY DEF Lifecycle
<1>3. (\A p \in Pointers : Handed(p))' BY DEF Handed, TypeOK, Lifecycle
<1>4. Capture' BY DEF Capture, Lifecycle
<1>5. Routed' BY DEF Routed
<1>6. QED BY <1>1, <1>2, <1>3, <1>4, <1>5

(* Routing a request keeps the invariant. *)
LEMMA StartRequestKeeps == ASSUME IInv, NEW r \in Reqs, StartRequest(r) PROVE IInv'
<1> USE DEF IInv, StartRequest, Pointers, control
<1>1. TypeOK' BY DEF TypeOK, Places
<1>2. Lifecycle' BY DEF Lifecycle
<1>3. (\A p \in Pointers : Handed(p))' BY DEF Handed, TypeOK, Lifecycle
<1>4. Capture' BY DEF Capture, Lifecycle
<1>5. Routed' BY DEF Routed
<1>6. QED BY <1>1, <1>2, <1>3, <1>4, <1>5

(* A resumed handler keeps the invariant. *)
LEMMA ResolveIdKeeps == ASSUME IInv, NEW r \in Reqs, ResolveId(r) PROVE IInv'
<1> USE DEF IInv, ResolveId, Config, Pointers, control
<1>1. TypeOK' BY DEF TypeOK, Places
<1>2. Lifecycle' BY DEF Lifecycle
<1>3. (\A p \in Pointers : Handed(p))' BY DEF Handed, TypeOK, Lifecycle
<1>4. Capture' BY DEF Capture, Lifecycle
<1>5. Routed' BY DEF Routed
<1>6. QED BY <1>1, <1>2, <1>3, <1>4, <1>5

(* poll_command takes an update and keeps the invariant. *)
LEMMA PollPointerKeeps == ASSUME IInv, PollPointer("config", "jit") \/ PollPointer("jit", "capture") PROVE IInv'
<1> USE DEF IInv, PollPointer, Pointers, control, requests
<1>1. TypeOK' BY DEF TypeOK, Places
<1>2. Lifecycle' BY DEF Lifecycle
<1>3. (\A p \in Pointers : Handed(p))' BY DEF Handed, TypeOK, Lifecycle
<1>4. Capture' BY DEF Capture, Lifecycle
<1>5. Routed' BY DEF Routed
<1>6. QED BY <1>1, <1>2, <1>3, <1>4, <1>5

(* poll_command keeps the invariant when it takes a capture request. *)
LEMMA PollCaptureKeeps == ASSUME IInv, PollCapture PROVE IInv'
<1> USE DEF IInv, PollCapture, SetCapture, Pointers, control, requests
<1>1. TypeOK' BY ZenonT(60) DEF TypeOK, Places
<1>2. Lifecycle' BY DEF Lifecycle
<1>3. (\A p \in Pointers : Handed(p))' BY DEF Handed, TypeOK, Lifecycle
<1>4. Capture' BY Zenon DEF Capture, Lifecycle
<1>5. Routed' BY DEF Routed
<1>6. QED BY <1>1, <1>2, <1>3, <1>4, <1>5

(* poll_command keeps the invariant when it puts a ring back. *)
LEMMA PutBackKeeps == ASSUME IInv, PutBack PROVE IInv'
<1> USE DEF IInv, PutBack, Pointers, control
<1>1. TypeOK' BY DEF TypeOK, Places
<1>2. Lifecycle' BY DEF Lifecycle
<1>3. (\A p \in Pointers : Handed(p))' BY DEF Handed, TypeOK, Lifecycle
<1>4. Capture' BY DEF Capture, Lifecycle
<1>5. Routed' BY DEF Routed
<1>6. QED BY <1>1, <1>2, <1>3, <1>4, <1>5

(* The end of an iteration keeps the invariant. *)
LEMMA DrainCheckKeeps == ASSUME IInv, DrainCheck PROVE IInv'
<1> USE DEF IInv, DrainCheck, Pointers, control, requests
<1>1. TypeOK'
  <2>1. CASE UNCHANGED <<running, requests>>
    <3>1. pc' \in Places BY DEF Places
    <3>2. UNCHANGED <<pending, cap, active, loopCap, region, draining, running, spawned, alive,
                      asked, askedCap, ring, pinned, matched, retried>>
      BY <2>1
    <3>3. QED BY <3>1, <3>2 DEF TypeOK
  <2>2. CASE ~UNCHANGED <<running, requests>>
    <3>1. running' = FALSE /\ pinned' \in [Reqs -> Nat] /\ matched' \in [Reqs -> Nat]
      BY <2>2
    <3>2. pc' \in Places BY DEF Places
    <3>3. UNCHANGED <<pending, cap, active, loopCap, region, draining, spawned, alive, asked,
                      askedCap, ring, retried>>
      BY <2>2
    <3>4. QED BY <3>1, <3>2, <3>3, ZenonT(60) DEF TypeOK
  <2>3. QED BY <2>1, <2>2
<1>2. Lifecycle' BY DEF Lifecycle
<1>3. (\A p \in Pointers : Handed(p))' BY DEF Handed, TypeOK, Lifecycle
<1>4. Capture' BY DEF Capture, Lifecycle
<1>5. Routed' BY DEF Routed
<1>6. QED BY <1>1, <1>2, <1>3, <1>4, <1>5

(* A step of another component keeps the invariant. *)
LEMMA StutterKeeps == ASSUME IInv, UNCHANGED vars PROVE IInv'
<1> USE DEF IInv, vars, Pointers
<1>1. TypeOK' BY DEF TypeOK, Places
<1>2. Lifecycle' BY DEF Lifecycle
<1>3. (\A p \in Pointers : Handed(p))' BY DEF Handed, TypeOK, Lifecycle
<1>4. Capture' BY DEF Capture, Lifecycle
<1>5. Routed' BY DEF Routed
<1>6. QED BY <1>1, <1>2, <1>3, <1>4, <1>5

(* Every step keeps the invariant. *)
LEMMA NextKeeps == IInv /\ [Next]_vars => IInv'
BY SpawnKeeps, HandKeeps, EnableCaptureKeeps, DisableCaptureKeeps, StopKeeps, JoinKeeps,
   ReleaseKeeps, WhileKeeps, StartRequestKeeps, ResolveIdKeeps, PollPointerKeeps,
   PollCaptureKeeps, PutBackKeeps, DrainCheckKeeps, StutterKeeps
   DEF Next, ControlPlane, ShardThread, Poll

-----------------------------------------------------------------------------

(* Whatever the thread did not consume, join() applies: without a thread the last config *)
(* and code handed over are active, and capture is off if that was asked for last.       *)
THEOREM LastUpdateAppliedHolds == Spec => []LastUpdateApplied
BY InitIInv, NextKeeps, IInvImplies, PTL DEF Spec

(* shutdown frees the loop and the capture ring only when no thread, no loop and no slot *)
(* of the control block can refer to them.                                               *)
THEOREM RingOutlivesUseHolds == Spec => []RingOutlivesUse
BY InitIInv, NextKeeps, IInvImplies, PTL DEF Spec

(* handle_jit_outcome resolves the ids of a request in the config on_header_received      *)
(* pinned, for any number of requests and of swaps in between.                           *)
THEOREM PinnedConfigHolds == Spec => []PinnedConfig
BY InitIInv, NextKeeps, IInvImplies, PTL DEF Spec

(* No update is undone by an older one, and while a thread exists only its poll_command  *)
(* changes active_config and jit_code.                                                   *)
THEOREM UpdatesInOrderHolds == Spec => UpdatesInOrder
<1> DEFINE Ordered == /\ \A p \in Pointers : active'[p] >= active[p]
                      /\ spawned /\ pc # "gone" /\ active' # active => pc \in Pointers
<1>1. ASSUME IInv, [Next]_vars PROVE Ordered \/ UNCHANGED vars
  <2>1. CASE UNCHANGED active BY <1>1, <2>1 DEF IInv, TypeOK
  <2>2. CASE Spawn BY <1>1, <2>2 DEF Spawn, IInv, TypeOK, Pointers
  <2>3. ASSUME NEW q \in Pointers, Hand(q) PROVE Ordered
    BY <1>1, <2>3 DEF Hand, IInv, TypeOK, Handed
  <2>4. CASE Join BY <1>1, <2>4 DEF Join, IInv, TypeOK, Handed
  <2>5. ASSUME NEW q \in Pointers, NEW next, PollPointer(q, next) PROVE Ordered
    BY <1>1, <2>5 DEF PollPointer, IInv, TypeOK, Handed
  <2>6. UNCHANGED active \/ Spawn \/ (\E q \in Pointers : Hand(q)) \/ Join
        \/ (\E q \in Pointers : \E next \in {"jit", "capture"} : PollPointer(q, next))
    BY <1>1 DEF Next, ControlPlane, EnableCapture, DisableCapture, Stop, Drain, Release,
                ShardThread, While, EndBatch, Poll, PollCapture, PutBack, DrainCheck,
                StartRequest, ResolveId, Pointers, vars
  <2>7. QED BY <2>1, <2>2, <2>3, <2>4, <2>5, <2>6
<1>2. IInv /\ [Next]_vars => [Ordered]_vars BY <1>1
<1>3. QED BY <1>2, InitIInv, NextKeeps, PTL DEF Spec, UpdatesInOrder

-----------------------------------------------------------------------------
(* Division with remainder by a number that is not known. *)

(* Division with remainder. *)
LEMMA DivMod ==
    ASSUME NEW a \in Int, NEW m \in Nat \ {0}
    PROVE  a % m \in 0..(m - 1) /\ a \div m \in Int /\ a = m * (a \div m) + (a % m)
OBVIOUS

(* A multiple of m closer to 0 than m is 0. *)
LEMMA SmallMultiple ==
    ASSUME NEW m \in Nat \ {0}, NEW k \in Int, NEW d \in Int,
           d = m * k, -m < d, d < m
    PROVE  d = 0
<1>1. CASE k >= 1
  <2>1. m * k >= m BY <1>1
  <2>2. QED BY <2>1
<1>2. CASE k <= -1
  <2>1. m * k <= -m BY <1>2
  <2>2. QED BY <2>1
<1>3. CASE k = 0
  <2>1. m * k = 0 BY <1>3
  <2>2. QED BY <2>1
<1>4. QED BY <1>1, <1>2, <1>3

(* The remainder is unique. *)
LEMMA ModUnique ==
    ASSUME NEW a \in Int, NEW m \in Nat \ {0}, NEW q \in Int, NEW r \in 0..(m - 1),
           a = m * q + r
    PROVE  a % m = r
<1> DEFINE k == q - (a \div m)
           d == (a % m) - r
<1>1. a % m \in 0..(m - 1) /\ a \div m \in Int /\ a = m * (a \div m) + (a % m) BY DivMod
<1>2. (a % m) - r = m * (q - (a \div m)) BY <1>1
<1>3. k \in Int /\ d \in Int /\ d = m * k /\ -m < d /\ d < m BY <1>1, <1>2
<1> HIDE DEF k, d
<1>4. d = 0 BY <1>3, SmallMultiple
<1>5. QED BY <1>4, <1>1 DEF d

-----------------------------------------------------------------------------
(* Arithmetic of wrapping positions. *)

(* The word size of the positions is larger than the ring. *)
LEMMA Sizes ==
    /\ kCapacity \in Nat \ {0} /\ Wrap \in Nat \ {0} /\ kCapacity < Wrap
    /\ \E k \in Nat : Wrap = kCapacity * k
<1>1. PICK k \in 2..Wrap : Wrap = kCapacity * k BY RingAssumption
<1>2. kCapacity * k >= 2 * kCapacity BY <1>1, RingAssumption
<1>3. QED BY <1>1, <1>2, RingAssumption

(* A wrapped position selects the slot of the unwrapped one. *)
LEMMA SlotOfPosition ==
    ASSUME NEW n \in Nat
    PROVE  (n % Wrap) % kCapacity = n % kCapacity
<1>0. Wrap \in Nat \ {0} /\ kCapacity \in Nat \ {0} /\ kCapacity < Wrap BY Sizes
<1>1. PICK k \in Nat : Wrap = kCapacity * k BY Sizes
<1> DEFINE w == n % Wrap
           t == n \div Wrap
<1>2. w \in 0..(Wrap - 1) /\ t \in Int /\ n = Wrap * t + w BY DivMod, <1>0
<1> HIDE DEF w, t
<1> DEFINE q == w \div kCapacity
           r == w % kCapacity
           p == k * t + q
<1>3. q \in Int /\ r \in 0..(kCapacity - 1) /\ w = kCapacity * q + r BY <1>2, DivMod, <1>0
<1> HIDE DEF q, r
<1>4. n = (kCapacity * k) * t + (kCapacity * q + r) BY <1>1, <1>2, <1>3
<1>5. p \in Int /\ n = kCapacity * p + r BY <1>1, <1>2, <1>3, <1>4, <1>0
<1> HIDE DEF p
<1>6. n % kCapacity = r BY <1>3, <1>5, ModUnique, <1>0
<1>7. QED BY <1>6 DEF r, w

(* Counts less than a ring apart select different slots. *)
LEMMA SlotsDiffer ==
    ASSUME NEW a \in Nat, NEW b \in Nat, a < b, b < a + kCapacity
    PROVE  a % kCapacity # b % kCapacity
<1>0. Wrap \in Nat \ {0} /\ kCapacity \in Nat \ {0} /\ kCapacity < Wrap BY Sizes
<1> SUFFICES ASSUME a % kCapacity = b % kCapacity PROVE FALSE OBVIOUS
<1> DEFINE k == (b \div kCapacity) - (a \div kCapacity)
           d == b - a
<1>1. a \div kCapacity \in Int /\ a = kCapacity * (a \div kCapacity) + (a % kCapacity)
  BY DivMod, <1>0
<1>2. b \div kCapacity \in Int /\ b = kCapacity * (b \div kCapacity) + (b % kCapacity)
  BY DivMod, <1>0
<1>3. a % kCapacity \in Int BY DivMod, <1>0
<1>4. d \in Int /\ k \in Int /\ d = kCapacity * k /\ -kCapacity < d /\ d < kCapacity /\ d # 0
  BY <1>1, <1>2, <1>3, <1>0
<1> HIDE DEF d, k
<1>5. QED BY <1>4, SmallMultiple, <1>0

(* The wrapped difference of counts at most a ring apart is the real one. *)
LEMMA Distance ==
    ASSUME NEW a \in Nat, NEW b \in Nat, a <= b, b <= a + kCapacity
    PROVE  ((b % Wrap) - (a % Wrap)) % Wrap = b - a
<1>0. Wrap \in Nat \ {0} /\ kCapacity \in Nat \ {0} /\ kCapacity < Wrap BY Sizes
<1> DEFINE d == (b % Wrap) - (a % Wrap)
           q == (a \div Wrap) - (b \div Wrap)
<1>1. a \div Wrap \in Int /\ a % Wrap \in Int /\ a = Wrap * (a \div Wrap) + (a % Wrap)
  BY DivMod, <1>0
<1>2. b \div Wrap \in Int /\ b % Wrap \in Int /\ b = Wrap * (b \div Wrap) + (b % Wrap)
  BY DivMod, <1>0
<1>3. d \in Int /\ q \in Int /\ d = Wrap * q + (b - a) BY <1>1, <1>2, <1>0
<1>4. b - a \in 0..(Wrap - 1) BY <1>0
<1> HIDE DEF d, q
<1>5. d % Wrap = b - a BY <1>3, <1>4, ModUnique, <1>0
<1>6. QED BY <1>5 DEF d

(* A stored position is the next count, wrapped. *)
LEMMA Successor ==
    ASSUME NEW a \in Nat
    PROVE  ((a % Wrap) + 1) % Wrap = (a + 1) % Wrap
<1>0. Wrap \in Nat \ {0} /\ kCapacity \in Nat \ {0} /\ kCapacity < Wrap BY Sizes
<1> DEFINE w == a % Wrap
           q == a \div Wrap
<1>1. w \in 0..(Wrap - 1) /\ q \in Int /\ a = Wrap * q + w BY DivMod, <1>0
<1> HIDE DEF w, q
<1>2. CASE w + 1 < Wrap
  <2>1. a + 1 = Wrap * q + (w + 1) /\ w + 1 \in 0..(Wrap - 1) BY <1>1, <1>2, <1>0
  <2>2. (a + 1) % Wrap = w + 1 BY <2>1, <1>1, ModUnique, <1>0
  <2>3. w + 1 = Wrap * 0 + (w + 1) BY <1>1, <1>0
  <2>4. (w + 1) % Wrap = w + 1 BY <2>1, <2>3, <1>1, ModUnique, <1>0
  <2>5. QED BY <2>2, <2>4 DEF w
<1>3. CASE w + 1 = Wrap
  <2>1. a + 1 = Wrap * (q + 1) + 0 BY <1>1, <1>3, <1>0
  <2>2. (a + 1) % Wrap = 0 BY <2>1, <1>1, ModUnique, <1>0
  <2>3. w + 1 = Wrap * 1 + 0 BY <1>3, <1>0
  <2>4. (w + 1) % Wrap = 0 BY <2>3, <1>1, ModUnique, <1>0
  <2>5. QED BY <2>2, <2>4 DEF w
<1>4. QED BY <1>1, <1>2, <1>3, <1>0

-----------------------------------------------------------------------------
(* The inductive invariant. *)

(* What each thread has seen of the other lags behind, by a ring at most. *)
Counts ==
    /\ pushed \in Nat /\ popped \in Nat /\ seenPush \in Nat /\ seenPop \in Nat
    /\ seenPop <= popped /\ popped <= seenPush /\ seenPush <= pushed
    /\ pushed <= seenPop + kCapacity

Positions == write_pos = pushed % Wrap /\ read_pos = popped % Wrap

(* The slots between the positions hold the queue. *)
Contents ==
    /\ entries \in [Slots -> Entries \cup {Torn}]
    /\ queue \in Seq(Entries) /\ Len(queue) = pushed - popped
    /\ \A k \in 1..Len(queue) : entries[(popped + k - 1) % kCapacity] = queue[k]

Producing ==
    /\ producer \in [pc : {"idle", "check", "copy", "store"}, rp : Nat,
                     entry : Entries \cup {Torn}]
    /\ producer.pc # "idle" => producer.rp = seenPop % Wrap /\ producer.entry \in Entries
    /\ producer.pc \in {"copy", "store"} => pushed < seenPop + kCapacity
    /\ producer.pc = "store" => entries[pushed % kCapacity] = producer.entry

Consuming ==
    /\ consumer \in [pc : {"idle", "check", "copy", "store"}, wp : Nat,
                     out : Entries \cup {Torn}]
    /\ consumer.pc # "idle" => consumer.wp = seenPush % Wrap
    /\ consumer.pc \in {"copy", "store"} => popped < seenPush /\ consumer.out = queue[1]

RingInv == Counts /\ Positions /\ Contents /\ Producing /\ Consuming /\ lost \in BOOLEAN

(* What the positions mean in terms of the counts. *)
LEMMA Meaning ==
    ASSUME RingInv
    PROVE  /\ write_pos % kCapacity = pushed % kCapacity
           /\ read_pos % kCapacity = popped % kCapacity
           /\ pushed % kCapacity \in Slots /\ popped % kCapacity \in Slots
           /\ producer.pc = "check" => (Full <=> pushed - seenPop >= kCapacity)
           /\ consumer.pc = "check" => (read_pos = consumer.wp <=> popped = seenPush)
<1>0. Wrap \in Nat \ {0} /\ kCapacity \in Nat \ {0} /\ kCapacity < Wrap BY Sizes
<1>1. pushed \in Nat /\ popped \in Nat /\ seenPush \in Nat /\ seenPop \in Nat
  BY DEF RingInv, Counts
<1>2. write_pos % kCapacity = pushed % kCapacity /\ read_pos % kCapacity = popped % kCapacity
  BY <1>1, SlotOfPosition DEF RingInv, Positions
<1>3. pushed % kCapacity \in Slots /\ popped % kCapacity \in Slots
  BY <1>0, <1>1, DivMod DEF Slots
<1>4. ASSUME producer.pc = "check" PROVE Full <=> pushed - seenPop >= kCapacity
  <2>1. seenPop <= pushed /\ pushed <= seenPop + kCapacity BY <1>0, <1>1 DEF RingInv, Counts
  <2>2. ((pushed % Wrap) - (seenPop % Wrap)) % Wrap = pushed - seenPop BY <1>1, <2>1, Distance
  <2>3. write_pos = pushed % Wrap /\ producer.rp = seenPop % Wrap
    BY <1>4 DEF RingInv, Positions, Producing
  <2>4. QED BY <2>2, <2>3 DEF Full
<1>5. ASSUME consumer.pc = "check" PROVE read_pos = consumer.wp <=> popped = seenPush
  <2>1. popped <= seenPush /\ seenPush <= popped + kCapacity BY <1>0, <1>1 DEF RingInv, Counts
  <2>2. ((seenPush % Wrap) - (popped % Wrap)) % Wrap = seenPush - popped BY <1>1, <2>1, Distance
  <2>3. read_pos = popped % Wrap /\ consumer.wp = seenPush % Wrap
    BY <1>5 DEF RingInv, Positions, Consuming
  <2>4. popped % Wrap \in Int BY <1>0, <1>1, DivMod
  <2>5. ((popped % Wrap) - (popped % Wrap)) % Wrap = popped - popped
    BY <1>0, <1>1, Distance
  <2>6. popped % Wrap = seenPush % Wrap => popped = seenPush BY <1>1, <2>2, <2>5
  <2>7. QED BY <2>3, <2>6
<1>6. QED BY <1>2, <1>3, <1>4, <1>5

(* The ring starts empty. *)
LEMMA InitInv == RingInit => RingInv
<1> SUFFICES ASSUME RingInit PROVE RingInv OBVIOUS
<1>0. Wrap \in Nat \ {0} /\ kCapacity \in Nat \ {0} BY Sizes
<1>1. 0 % Wrap = 0
  <2>1. 0 = Wrap * 0 + 0 /\ 0 \in 0..(Wrap - 1) BY <1>0
  <2>2. QED BY <1>0, <2>1, ModUnique
<1>2. Counts BY <1>0 DEF RingInit, Counts
<1>3. Positions BY <1>1 DEF RingInit, Positions
<1>4. Contents BY DEF RingInit, Contents
<1>5. Producing BY DEF RingInit, Producing
<1>6. Consuming BY DEF RingInit, Consuming
<1>7. QED BY <1>2, <1>3, <1>4, <1>5, <1>6, Zenon DEF RingInv, RingInit

(* Writing the slot that is next to be published leaves the queue alone. *)
LEMMA WritesFreeSlot ==
    ASSUME RingInv, pushed < seenPop + kCapacity,
           NEW k \in 1..Len(queue)
    PROVE  /\ (popped + k - 1) % kCapacity # pushed % kCapacity
           /\ (popped + k - 1) % kCapacity \in Slots
<1>0. kCapacity \in Nat \ {0} BY Sizes
<1>1. pushed \in Nat /\ popped \in Nat /\ seenPop <= popped /\ seenPop \in Nat
      /\ Len(queue) = pushed - popped
  BY DEF RingInv, Counts, Contents
<1>2. popped + k - 1 \in Nat /\ popped + k - 1 < pushed
      /\ pushed < (popped + k - 1) + kCapacity
  BY <1>1, Sizes
<1>3. ASSUME NEW n \in Nat PROVE n % kCapacity \in 0..(kCapacity - 1)
  <2>1. n \in Int OBVIOUS
  <2>2. QED BY <1>0, <2>1, DivMod, Zenon
<1>4. QED BY <1>1, <1>2, <1>3, SlotsDiffer DEF Slots

(* push() keeps the invariant. *)
LEMMA PushInv == RingInv /\ Push => RingInv'
<1> SUFFICES ASSUME RingInv, Push PROVE RingInv' OBVIOUS
<1>0. Wrap \in Nat \ {0} /\ kCapacity \in Nat \ {0} BY Sizes
<1> USE DEF RingInv
<1>1. ASSUME NEW e \in Entries, PushLoad(e) PROVE RingInv'
  <2>1. PICK p \in seenPop..popped :
          seenPop' = p /\ producer' = [pc |-> "check", rp |-> p % Wrap, entry |-> e]
    BY <1>1 DEF PushLoad
  <2>2. p \in Nat /\ p % Wrap \in Nat BY <2>1, <1>0, DivMod DEF Counts
  <2>3. Counts' BY <1>1, <2>1, <2>2, <1>0 DEF PushLoad, Counts
  <2>4. Positions' /\ Contents' BY <1>1 DEF PushLoad, Positions, Contents
  <2>5. Producing' BY <2>1, <2>2 DEF Producing
  <2>6. Consuming' BY <1>1 DEF PushLoad, Consuming
  <2>7. QED BY <1>1, <2>3, <2>4, <2>5, <2>6 DEF PushLoad
<1>2. ASSUME PushDrops PROVE RingInv'
  <2>1. Counts' /\ Positions' /\ Contents' /\ Consuming'
    BY <1>2 DEF PushDrops, Counts, Positions, Contents, Consuming
  <2>2. Producing' BY <1>2 DEF PushDrops, Producing
  <2>3. QED BY <1>2, <2>1, <2>2 DEF PushDrops
<1>3. ASSUME PushBegins PROVE RingInv'
  <2>1. pushed < seenPop + kCapacity
    BY <1>3, <1>0, Meaning DEF PushBegins, Counts
  <2>2. entries' = [entries EXCEPT ![pushed % kCapacity] = Torn] /\ pushed % kCapacity \in Slots
    BY <1>3, Meaning, Zenon DEF PushBegins
  <2>3. Counts' /\ Positions' BY <1>3 DEF PushBegins, Counts, Positions
  <2>4. Contents'
    <3>1. entries' \in [Slots -> Entries \cup {Torn}] BY <2>2 DEF Contents
    <3>2. ASSUME NEW k \in 1..Len(queue)
          PROVE  entries'[(popped + k - 1) % kCapacity] = queue[k]
      <4>1. (popped + k - 1) % kCapacity # pushed % kCapacity
            /\ (popped + k - 1) % kCapacity \in Slots
        BY <2>1, WritesFreeSlot
      <4>2. QED BY <4>1, <2>2 DEF Contents
    <3>3. QED BY <1>3, <3>1, <3>2 DEF PushBegins, Contents
  <2>5. Producing' BY <1>3, <2>1 DEF PushBegins, Producing
  <2>6. Consuming' BY <1>3 DEF PushBegins, Consuming
  <2>7. QED BY <1>3, <2>3, <2>4, <2>5, <2>6 DEF PushBegins
<1>4. ASSUME PushCopies PROVE RingInv'
  <2>1. pushed < seenPop + kCapacity /\ producer.entry \in Entries
    BY <1>4 DEF PushCopies, Producing
  <2>2. entries' = [entries EXCEPT ![pushed % kCapacity] = producer.entry]
        /\ pushed % kCapacity \in Slots
    BY <1>4, Meaning, Zenon DEF PushCopies
  <2>3. Counts' /\ Positions' BY <1>4 DEF PushCopies, Counts, Positions
  <2>4. Contents'
    <3>1. entries' \in [Slots -> Entries \cup {Torn}] BY <2>1, <2>2 DEF Contents
    <3>2. ASSUME NEW k \in 1..Len(queue)
          PROVE  entries'[(popped + k - 1) % kCapacity] = queue[k]
      <4>1. (popped + k - 1) % kCapacity # pushed % kCapacity
            /\ (popped + k - 1) % kCapacity \in Slots
        BY <2>1, WritesFreeSlot
      <4>2. QED BY <4>1, <2>2 DEF Contents
    <3>3. QED BY <1>4, <3>1, <3>2 DEF PushCopies, Contents
  <2>5. Producing'
    <3>1. entries'[pushed % kCapacity] = producer.entry BY <2>2 DEF Contents
    <3>2. QED BY <1>4, <2>1, <3>1 DEF PushCopies, Producing
  <2>6. Consuming' BY <1>4 DEF PushCopies, Consuming
  <2>7. QED BY <1>4, <2>3, <2>4, <2>5, <2>6 DEF PushCopies
<1>5. ASSUME PushStores PROVE RingInv'
  <2>1. pushed < seenPop + kCapacity /\ producer.entry \in Entries
        /\ entries[pushed % kCapacity] = producer.entry
    BY <1>5 DEF PushStores, Producing
  <2>2. Counts' BY <1>5, <2>1, <1>0 DEF PushStores, Counts
  <2>3. Positions'
    <3>1. write_pos' = ((pushed % Wrap) + 1) % Wrap BY <1>5 DEF PushStores, Positions
    <3>2. QED BY <1>5, <3>1, Successor DEF PushStores, Positions, Counts
  <2>4. Contents'
    <3>1. queue' = Append(queue, producer.entry) /\ queue \in Seq(Entries)
          /\ Len(queue) = pushed - popped /\ pushed' = pushed + 1
          /\ UNCHANGED <<entries, popped>>
      BY <1>5 DEF PushStores, Contents
    <3>2. queue' \in Seq(Entries) /\ Len(queue') = Len(queue) + 1 BY <2>1, <3>1
    <3>3. ASSUME NEW k \in 1..Len(queue')
          PROVE  entries[(popped + k - 1) % kCapacity] = queue'[k]
      <4>1. CASE k = Len(queue) + 1
        <5>1. queue'[k] = producer.entry /\ popped + k - 1 = pushed
          BY <4>1, <3>1 DEF Counts
        <5>2. QED BY <5>1, <2>1
      <4>2. CASE k \in 1..Len(queue)
        <5>1. queue'[k] = queue[k] BY <4>2, <3>1
        <5>2. QED BY <4>2, <5>1 DEF Contents
      <4>3. QED BY <4>1, <4>2, <3>1, <3>2 DEF Counts
    <3>4. QED BY <3>1, <3>2, <3>3 DEF Contents, Counts
  <2>5. Producing' BY <1>5 DEF PushStores, Producing
  <2>6. Consuming'
    <3>1. consumer.pc \in {"copy", "store"} => queue'[1] = queue[1]
      <4>1. SUFFICES ASSUME consumer.pc \in {"copy", "store"} PROVE queue'[1] = queue[1]
        OBVIOUS
      <4>2. 1 \in 1..Len(queue) BY <4>1 DEF Consuming, Contents, Counts
      <4>3. QED BY <4>2, <1>5, <2>1 DEF PushStores, Contents
    <3>2. QED BY <1>5, <3>1 DEF PushStores, Consuming
  <2>7. QED BY <1>5, <2>2, <2>3, <2>4, <2>5, <2>6 DEF PushStores
<1>6. QED BY <1>1, <1>2, <1>3, <1>4, <1>5 DEF Push

(* pop() keeps the invariant. *)
LEMMA PopInv == RingInv /\ Pop => RingInv'
<1> SUFFICES ASSUME RingInv, Pop PROVE RingInv' OBVIOUS
<1>0. Wrap \in Nat \ {0} /\ kCapacity \in Nat \ {0} BY Sizes
<1> USE DEF RingInv
<1>1. ASSUME PopLoad PROVE RingInv'
  <2>1. PICK p \in seenPush..pushed :
          seenPush' = p /\ consumer' = [consumer EXCEPT !.pc = "check", !.wp = p % Wrap]
    BY <1>1, Zenon DEF PopLoad
  <2>2. p \in Nat /\ p % Wrap \in Nat BY <2>1, <1>0, DivMod DEF Counts
  <2>3. Counts' BY <1>1, <2>1, <2>2 DEF PopLoad, Counts
  <2>4. Positions' /\ Contents' /\ Producing'
    BY <1>1 DEF PopLoad, Positions, Contents, Producing
  <2>5. Consuming' BY <2>1, <2>2, Zenon DEF Consuming
  <2>6. QED BY <1>1, <2>3, <2>4, <2>5 DEF PopLoad
<1>2. ASSUME PopFindsNone PROVE RingInv'
  <2>1. Counts' /\ Positions' /\ Contents' /\ Producing'
    BY <1>2 DEF PopFindsNone, Counts, Positions, Contents, Producing
  <2>2. Consuming' BY <1>2 DEF PopFindsNone, Consuming
  <2>3. QED BY <1>2, <2>1, <2>2 DEF PopFindsNone
<1>3. ASSUME PopBegins PROVE RingInv'
  <2>1. popped < seenPush BY <1>3, Meaning DEF PopBegins, Counts
  <2>2. entries[read_pos % kCapacity] = queue[1] /\ queue[1] \in Entries
    <3>1. 1 \in 1..Len(queue) /\ popped + 1 - 1 = popped BY <2>1 DEF Counts, Contents
    <3>2. entries[(popped + 1 - 1) % kCapacity] = queue[1] BY <3>1 DEF Contents
    <3>3. QED BY <3>1, <3>2, Meaning DEF Contents
  <2>3. Counts' /\ Positions' /\ Contents' /\ Producing'
    BY <1>3 DEF PopBegins, Counts, Positions, Contents, Producing
  <2>4. Consuming' BY <1>3, <2>1, <2>2, Zenon DEF PopBegins, Consuming
  <2>5. QED BY <1>3, <2>3, <2>4 DEF PopBegins
<1>4. ASSUME PopCopies PROVE RingInv'
  <2>1. popped < seenPush /\ consumer.out = queue[1] BY <1>4 DEF PopCopies, Consuming
  <2>2. entries[read_pos % kCapacity] = queue[1] /\ queue[1] \in Entries
    <3>1. 1 \in 1..Len(queue) /\ popped + 1 - 1 = popped BY <2>1 DEF Counts, Contents
    <3>2. entries[(popped + 1 - 1) % kCapacity] = queue[1] BY <3>1 DEF Contents
    <3>3. QED BY <3>1, <3>2, Meaning DEF Contents
  <2>3. Counts' /\ Positions' /\ Contents' /\ Producing'
    BY <1>4 DEF PopCopies, Counts, Positions, Contents, Producing
  <2>4. consumer' = [consumer EXCEPT !.pc = "store", !.out = queue[1]]
    BY <1>4, <2>1, <2>2 DEF PopCopies
  <2>5. Consuming' BY <1>4, <2>1, <2>2, <2>4, Zenon DEF PopCopies, Consuming
  <2>6. QED BY <1>4, <2>3, <2>5 DEF PopCopies
<1>5. ASSUME PopStores PROVE RingInv'
  <2>1. popped < seenPush BY <1>5 DEF PopStores, Consuming
  <2>2. Counts' BY <1>5, <2>1, <1>0 DEF PopStores, Counts
  <2>3. Positions'
    <3>1. read_pos' = ((popped % Wrap) + 1) % Wrap BY <1>5 DEF PopStores, Positions
    <3>2. QED BY <1>5, <3>1, Successor DEF PopStores, Positions, Counts
  <2>4. Contents'
    <3>1. queue' = Tail(queue) /\ queue \in Seq(Entries) /\ Len(queue) = pushed - popped
          /\ popped' = popped + 1 /\ UNCHANGED <<entries, pushed>> /\ Len(queue) \in Nat \ {0}
      BY <1>5, <2>1 DEF PopStores, Contents, Counts
    <3>2. queue' \in Seq(Entries) /\ Len(queue') = Len(queue) - 1 BY <3>1
    <3>3. ASSUME NEW k \in 1..Len(queue')
          PROVE  entries[(popped + 1 + k - 1) % kCapacity] = queue'[k]
      <4>1. k + 1 \in 1..Len(queue) /\ queue'[k] = queue[k + 1] BY <3>1, <3>2
      <4>2. popped + 1 + k - 1 = popped + (k + 1) - 1 BY DEF Counts
      <4>3. QED BY <4>1, <4>2 DEF Contents
    <3>4. QED BY <3>1, <3>2, <3>3 DEF Contents, Counts
  <2>5. Producing' BY <1>5 DEF PopStores, Producing
  <2>6. Consuming' BY <1>5 DEF PopStores, Consuming
  <2>7. QED BY <1>5, <2>2, <2>3, <2>4, <2>5, <2>6 DEF PopStores
<1>6. QED BY <1>1, <1>2, <1>3, <1>4, <1>5 DEF Pop

(* RingInv is an invariant. *)
THEOREM RingInvHolds == RingSpec => []RingInv
<1>1. RingInv /\ UNCHANGED ring_vars => RingInv'
  BY DEF RingInv, Counts, Positions, Contents, Producing, Consuming, ring_vars
<1>2. RingInv /\ [RingNext]_ring_vars => RingInv' BY <1>1, PushInv, PopInv DEF RingNext
<1>3. QED BY InitInv, <1>2, PTL DEF RingSpec

-----------------------------------------------------------------------------
(* The results. *)

(* Positions stay words and tell how many entries are queued, at most a    *)
(* ring of them, however often push and pop wrap their positions.          *)
THEOREM RingTypeCorrect == RingSpec => []RingTypeOK
<1>1. RingInv => RingTypeOK
  <2> SUFFICES ASSUME RingInv PROVE RingTypeOK OBVIOUS
  <2>0. Wrap \in Nat \ {0} /\ kCapacity \in Nat \ {0} BY Sizes
  <2>1. pushed \in Nat /\ popped \in Nat /\ popped <= pushed /\ pushed <= popped + kCapacity
        /\ Len(queue) = pushed - popped
    BY <2>0 DEF RingInv, Counts, Contents
  <2>2. ((pushed % Wrap) - (popped % Wrap)) % Wrap = pushed - popped BY <2>1, Distance
  <2>3. pushed % Wrap \in 0..(Wrap - 1) /\ popped % Wrap \in 0..(Wrap - 1)
    BY <2>0, <2>1, DivMod
  <2>4. write_pos = pushed % Wrap /\ read_pos = popped % Wrap BY DEF RingInv, Positions
  <2>5. (write_pos - read_pos) % Wrap = Len(queue) BY <2>1, <2>2, <2>4
  <2>6. Len(queue) \in 0..kCapacity BY <2>0, <2>1
  <2>7. QED BY <2>3, <2>4, <2>5, <2>6 DEF RingTypeOK
<1>2. QED BY RingInvHolds, <1>1, PTL

(* pop() returns the oldest entry push() published, never a slot in the    *)
(* middle of being written.                                                *)
THEOREM PopsOldestHolds == RingSpec => []PopsOldest
<1>1. RingInv => PopsOldest
  <2> SUFFICES ASSUME RingInv, consumer.pc = "store"
               PROVE  queue # <<>> /\ consumer.out = Head(queue)
    BY DEF PopsOldest
  <2>1. popped < seenPush /\ consumer.out = queue[1] BY DEF RingInv, Consuming
  <2>2. Len(queue) > 0 /\ queue \in Seq(Entries) BY <2>1 DEF RingInv, Counts, Contents
  <2>3. QED BY <2>1, <2>2
<1>2. QED BY RingInvHolds, <1>1, PTL

(* push() and pop() never copy to and from the same slot. *)
THEOREM NoRaceHolds == RingSpec => []NoRace
<1>1. RingInv => NoRace
  <2> SUFFICES ASSUME RingInv, producer.pc = "copy", consumer.pc = "copy"
               PROVE  write_pos % kCapacity # read_pos % kCapacity
    BY DEF NoRace
  <2>1. pushed \in Nat /\ popped \in Nat /\ popped < pushed /\ pushed < popped + kCapacity
    BY Sizes DEF RingInv, Counts, Producing, Consuming
  <2>2. popped % kCapacity # pushed % kCapacity BY <2>1, SlotsDiffer
  <2>3. QED BY <2>2, Meaning
<1>2. QED BY RingInvHolds, <1>1, PTL

(* The rings implement the queue that loses entries only at the producer,  *)
(* and only when the producer knows of no free slot.                       *)
THEOREM RingImplementsFifo == RingSpec => ImplementsFifo
<1>0. kCapacity \in Nat \ {0} BY Sizes
<1> DEFINE room == kCapacity - (pushed - seenPop)
           fifo == <<queue, room, lost>>
<1>1. RingInit => Fifo!Init BY <1>0 DEF RingInit, Fifo!Init
<1>2. RingInv /\ [RingNext]_ring_vars => [Fifo!Next]_fifo
  <2> SUFFICES ASSUME RingInv, [RingNext]_ring_vars PROVE [Fifo!Next]_fifo OBVIOUS
  <2>0. pushed \in Nat /\ popped \in Nat /\ seenPop \in Nat /\ seenPop <= popped
        /\ pushed <= seenPop + kCapacity /\ Len(queue) = pushed - popped
        /\ room \in Nat /\ queue \in Seq(Entries)
    BY <1>0 DEF RingInv, Counts, Contents
  <2>1. ASSUME NEW e \in Entries, PushLoad(e) PROVE Fifo!Notice \/ UNCHANGED fifo
    <3>1. PICK p \in seenPop..popped : seenPop' = p BY <2>1 DEF PushLoad
    <3>2. UNCHANGED <<pushed, queue, lost>> BY <2>1 DEF PushLoad
    <3>3. CASE p = seenPop BY <3>1, <3>2, <3>3
    <3>4. CASE p # seenPop
      <4>1. room' \in (room + 1)..(kCapacity - Len(queue)) BY <1>0, <2>0, <3>1, <3>2, <3>4
      <4>2. QED BY <3>2, <4>1 DEF Fifo!Notice
    <3>5. QED BY <3>3, <3>4
  <2>2. ASSUME PushDrops PROVE Fifo!Drop
    <3>1. room = 0
      <4>1. pushed - seenPop >= kCapacity BY <2>2, Meaning DEF PushDrops
      <4>2. QED BY <1>0, <2>0, <4>1
    <3>2. QED BY <2>2, <3>1 DEF PushDrops, Fifo!Drop
  <2>3. ASSUME PushStores PROVE \E e \in Entries : Fifo!Put(e)
    <3>1. pushed < seenPop + kCapacity /\ producer.entry \in Entries
      BY <2>3 DEF PushStores, RingInv, Producing
    <3>2. room > 0 BY <1>0, <2>0, <3>1
    <3>3. room' = room - 1 BY <1>0, <2>0, <2>3 DEF PushStores
    <3>4. Fifo!Put(producer.entry) BY <2>3, <3>2, <3>3 DEF PushStores, Fifo!Put
    <3>5. QED BY <3>1, <3>4
  <2>4. ASSUME PopStores PROVE Fifo!Take
    <3>1. popped < pushed BY <2>4 DEF PopStores, RingInv, Consuming, Counts
    <3>2. queue # <<>> BY <2>0, <3>1
    <3>3. QED BY <2>4, <3>2 DEF PopStores, Fifo!Take
  <2>5. PushBegins \/ PushCopies \/ PopLoad \/ PopFindsNone \/ PopBegins \/ PopCopies
          \/ UNCHANGED ring_vars => UNCHANGED fifo
    BY Zenon DEF PushBegins, PushCopies, PopLoad, PopFindsNone, PopBegins, PopCopies, ring_vars
  <2>6. QED BY <2>1, <2>2, <2>3, <2>4, <2>5 DEF RingNext, Push, Pop, Fifo!Next
<1>3. QED BY RingInvHolds, <1>1, <1>2, PTL DEF RingSpec, ImplementsFifo, Fifo!Spec
=============================================================================
