---------------------------- MODULE IoUringLoop ----------------------------
(***************************************************************************)
(* Connection slots of one io_uring shard (iouring_event_loop.h and        *)
(* io_uring_backend.cc): allocation from free_stack, submission of SQEs,   *)
(* completion dispatch, close with cancel SQEs, deferred reclamation       *)
(* through pending_free, deferred accepts, and the drain tail of run().    *)
(*                                                                         *)
(* Everything the loop knows about one slot is a record, and the code's    *)
(* helpers are operators from record to record.  free_stack and            *)
(* pending_free are represented by how often the slot's id occurs on each  *)
(* (the LIFO order only picks which free slot is reused; here any is).     *)
(* The kernel's side of a slot is two counters per completion tag:         *)
(* operations it still holds, and final CQEs it has posted.  A cancel SQE  *)
(* of the close path carries the tag of its target, so its CQE is counted  *)
(* under the same tag.  Callbacks (callbacks_impl.h) are abstracted to     *)
(* what they may do to the slot: Effects below.                            *)
(***************************************************************************)
EXTENDS Naturals, FiniteSets, FiniteSetsExt

CONSTANTS
    Conns,         \* connection ids 0 .. kMaxConns-1
    SqOutcomes,    \* the sets of kinds that may find room in the SQ at a time
    MaxPendingOps, \* bound on a live slot's pending_ops
    MaxDeferred    \* kMaxDeferredAccepts

Kinds == {"Recv", "Send", "UpstreamConnect", "UpstreamRecv", "UpstreamSend", "HandlerTimer"}
Slices == {"recv_slice", "send_slice", "upstream_recv_slice"}

ASSUME ConstantsAssumption ==
    /\ IsFiniteSet(Conns)
    /\ SqOutcomes \subseteq SUBSET Kinds
    /\ MaxPendingOps \in Nat
    /\ MaxDeferred \in Nat

VARIABLES
    slot,      \* per connection id: the loop's view and the kernel's view
    deferred,  \* deferred_accept_count
    phase,     \* where run() is: in the batch, retrying accepts, or returned
    draining,  \* draining_
    expired,   \* monotonic_secs() >= drain_start_ + drain_period_
    running    \* running_

vars == <<slot, deferred, phase, draining, expired, running>>

SlotRecords ==
    [free : Nat, pending_free : Nat, open : BOOLEAN, upstream : BOOLEAN,
     mode : {"none", "slots", "yield"}, armed : SUBSET Kinds, slices : SUBSET Slices,
     pending_ops : Nat, kernel : [Kinds -> Nat], cq : [Kinds -> Nat]]

TypeOK ==
    /\ slot \in [Conns -> SlotRecords]
    /\ deferred \in 0 .. MaxDeferred
    /\ phase \in {"batch", "retry", "returned"}
    /\ draining \in BOOLEAN
    /\ expired \in BOOLEAN /\ running \in BOOLEAN

-----------------------------------------------------------------------------
(* Slot helpers: the code's member functions, on one slot record.          *)

One(b) == IF b THEN 1 ELSE 0

\* ConnectionBase::reset as far as this model sees it.
Reset(r) == [r EXCEPT !.open = FALSE, !.upstream = FALSE, !.mode = "none",
                      !.armed = {}, !.slices = {}, !.pending_ops = 0]

InitialSlot == [free |-> 1, pending_free |-> 0, open |-> FALSE, upstream |-> FALSE,
                mode |-> "none", armed |-> {}, slices |-> {}, pending_ops |-> 0,
                kernel |-> [k \in Kinds |-> 0], cq |-> [k \in Kinds |-> 0]]

\* An SQE of kind k enters the kernel; UpstreamConnect has no armed flag.
Submit(r, k, ok) ==
    IF k \in ok
    THEN [r EXCEPT !.pending_ops = @ + 1, !.kernel = [r.kernel EXCEPT ![k] = @ + 1],
                   !.armed = IF k = "UpstreamConnect" THEN @ ELSE @ \cup {k}]
    ELSE r

\* submit_recv_impl / submit_recv_upstream_impl: a no-op while armed.
SubmitRecv(r, k, ok) == IF k \in r.armed THEN r ELSE Submit(r, k, ok)

\* alloc_conn_impl, then the tail of on_accept.
Allocate(r, ok) ==
    SubmitRecv([Reset(r) EXCEPT !.free = @ - 1, !.open = TRUE, !.mode = "slots",
                                !.slices = {"recv_slice", "send_slice"}], "Recv", ok)

\* The tags IoUringBackend::cancel targets.
CancelTargets(r) ==
    IF r.pending_ops = 0 THEN {}
    ELSE (r.armed \cap {"Recv", "Send", "HandlerTimer"})
         \cup (IF r.upstream
               THEN (r.armed \cap {"UpstreamRecv", "UpstreamSend"}) \cup {"UpstreamConnect"}
               ELSE {})

\* A cancel SQE makes every operation of its tag complete, and completes itself.
\* HandlerTimer tags also carry a generation: the cancel hits only the current
\* timer, which is still in the kernel (hit) or has already fired (~hit).
Cancelled(r, k, hit) ==
    IF k = "HandlerTimer" THEN One(hit /\ r.kernel[k] > 0) ELSE r.kernel[k]

CancelOps(r, C, hit) ==
    [r EXCEPT
       !.pending_ops = @ + One("Recv" \in C) + One("Send" \in C) + One("UpstreamConnect" \in C)
                         + One("UpstreamRecv" \in C) + One("UpstreamSend" \in C)
                         + One("HandlerTimer" \in C),
       !.kernel = [k \in Kinds |-> IF k \in C THEN r.kernel[k] - Cancelled(r, k, hit)
                                              ELSE r.kernel[k]],
       !.cq = [k \in Kinds |-> IF k \in C THEN r.cq[k] + Cancelled(r, k, hit) + 1
                                          ELSE r.cq[k]]]

\* Mutant: the id goes back to the free stack whatever is owed.
FreeConn_Immediate(r) == [Reset(r) EXCEPT !.free = @ + 1]

\* free_conn_impl: give the slot back now, or keep slices and pending_ops and
\* wait on pending_free for the CQEs still owed.
FreeConn(r) ==
    IF r.pending_ops = 0
    THEN [Reset(r) EXCEPT !.free = @ + 1]
    ELSE [Reset(r) EXCEPT !.slices = r.slices, !.pending_ops = r.pending_ops,
                          !.pending_free = @ + 1]

\* close_conn_impl.  ok: the cancel SQEs that found room in the SQ.
Close(r, ok, hit) == FreeConn(CancelOps(r, CancelTargets(r) \cap ok, hit))

\* Mutant: the slices are not freed.
ReclaimSlot_LeaksSlices(r) == [r EXCEPT !.free = @ + 1,
                                        !.pending_free = IF @ > 0 THEN @ - 1 ELSE 0]

\* reclaim_slot.
ReclaimSlot(r) == [r EXCEPT !.slices = {}, !.free = @ + 1,
                            !.pending_free = IF @ > 0 THEN @ - 1 ELSE 0]

\* One slot's part of reclaim_pending.
ReclaimPending(r) ==
    IF r.pending_free > 0 /\ r.pending_ops = 0
    THEN [r EXCEPT !.slices = {}, !.free = @ + r.pending_free, !.pending_free = 0]
    ELSE r

\* disarm_yield_timer: the old timer's CQE stays owed; the cancel's own CQE is
\* tagged kCancelConnId and never reaches dispatch.
DisarmYieldTimer(r, ok, hit) ==
    IF "HandlerTimer" \notin r.armed THEN r
    ELSE LET n == IF "HandlerTimer" \in ok THEN Cancelled(r, "HandlerTimer", hit) ELSE 0
         IN  [r EXCEPT !.armed = @ \ {"HandlerTimer"},
                       !.kernel = [r.kernel EXCEPT !["HandlerTimer"] = @ - n],
                       !.cq = [r.cq EXCEPT !["HandlerTimer"] = @ + n]]

\* The wheel fallback of the timer wins: its flag falls, its CQE stays owed.
WheelResumed(r) == [r EXCEPT !.armed = @ \ {"HandlerTimer"}]

\* Closing the upstream socket between requests: flags are cleared, operations
\* already in the kernel are not cancelled.
DropUpstream(r) ==
    [r EXCEPT !.upstream = FALSE, !.armed = @ \ {"UpstreamRecv", "UpstreamSend"}]

\* What a callback may leave behind, by what the code submits at its end.
Effects(r, ok) ==
    { Submit(r, "Send", ok),                                  \* a response, or a body piece
      DropUpstream(r),                                        \* socket closed, nothing sent yet
      Submit(DropUpstream(r), "Send", ok),                    \* 502 after closing the upstream
      SubmitRecv(r, "Recv", ok),                              \* more of the request
      SubmitRecv(DropUpstream(r), "Recv", ok),                \* keep-alive: next request
      Submit([DropUpstream(r) EXCEPT !.upstream = TRUE], "UpstreamConnect", ok),
      Submit(SubmitRecv(r, "Recv", ok), "HandlerTimer", ok) } \* wait(ms)
    \cup (IF r.upstream
          THEN { Submit([r EXCEPT !.slices = @ \cup {"upstream_recv_slice"}],
                        "UpstreamSend", ok),                  \* the request, or a body piece
                 SubmitRecv(r, "UpstreamRecv", ok),           \* the response
                 SubmitRecv(SubmitRecv(r, "Recv", ok), "UpstreamRecv", ok) }
          ELSE {})

\* The callback returns with its slots set, or with the handler yielded.
CallbackResults(r) ==
    { q \in UNION { { [e EXCEPT !.mode = m] : e \in Effects(r, ok), m \in {"slots", "yield"} } :
                    ok \in SqOutcomes } :
      q.pending_ops <= MaxPendingOps }

-----------------------------------------------------------------------------
Init ==
    /\ slot = [c \in Conns |-> InitialSlot]
    /\ deferred = 0
    /\ phase = "batch"
    /\ draining = FALSE
    /\ expired = FALSE
    /\ running = TRUE

LoopUnchanged == UNCHANGED <<deferred, phase, draining, expired, running>>

\* The kernel finishes an operation of c and posts its final CQE.
Completed(r, k) == [r EXCEPT !.kernel = [r.kernel EXCEPT ![k] = @ - 1],
                             !.cq = [r.cq EXCEPT ![k] = @ + 1]]

KernelComplete(c, k) ==
    /\ slot[c].kernel[k] > 0
    /\ slot' = [slot EXCEPT ![c] = Completed(@, k)]
    /\ LoopUnchanged

\* wait() consumes the CQE of a partial send and queues an SQE for the rest
\* under the same tag: no event, and as many CQEs owed as before.
Resubmitted(r, k) == [r EXCEPT !.kernel = [r.kernel EXCEPT ![k] = @ + 1],
                               !.cq = [r.cq EXCEPT ![k] = @ - 1]]

Resubmit(c, k) ==
    /\ phase = "batch"
    /\ k \in {"Send", "UpstreamSend"}
    /\ slot[c].cq[k] > 0
    /\ slot' = [slot EXCEPT ![c] = Resubmitted(@, k)]
    /\ LoopUnchanged

\* on_accept with a free slot and two slices; the CQE may have been in the CQ
\* since before a drain closed the listening socket.
AcceptConn(c, ok) ==
    /\ phase = "batch"
    /\ slot[c].free > 0
    /\ slot' = [slot EXCEPT ![c] = Allocate(@, ok)]
    /\ LoopUnchanged

\* on_accept when the first alloc_conn fails, for want of a slot or because the
\* slice pool could not grow: reclaim_pending, then a second attempt, ...
AcceptReclaimed(c, ok) ==
    LET s == [d \in Conns |-> ReclaimPending(slot[d])]
    IN  /\ phase = "batch"
        /\ s[c].free > 0
        /\ slot' = [s EXCEPT ![c] = Allocate(@, ok)]
        /\ LoopUnchanged

\* ... and if that fails too the fd is parked, or closed when deferred_accepts
\* is full.
AcceptDeferred ==
    /\ phase = "batch"
    /\ slot' = [c \in Conns |-> ReclaimPending(slot[c])]
    /\ deferred' = IF deferred < MaxDeferred THEN deferred + 1 ELSE deferred
    /\ UNCHANGED <<phase, draining, expired, running>>

\* dispatch of a final CQE: the accounting that precedes every branch.  ev is
\* the event type wait() emits: a fully sent UpstreamSend is emitted as Send.
EventTypes(k) == IF k = "UpstreamSend" THEN {"UpstreamSend", "Send"} ELSE {k}

\* Mutant: a timer CQE is counted only for the armed generation.
Account_ArmedOnly(r, k, ev) ==
    [r EXCEPT !.cq = [r.cq EXCEPT ![k] = @ - 1], !.armed = @ \ {ev},
              !.pending_ops = IF @ > 0 /\ ev # "" THEN @ - 1 ELSE @]

Account(r, k, ev) ==
    [r EXCEPT !.cq = [r.cq EXCEPT ![k] = @ - 1], !.armed = @ \ {ev},
              !.pending_ops = IF @ > 0 THEN @ - 1 ELSE 0]

\* What dispatch does with the slot after the accounting.  Live slots run a
\* callback or a resumed handler, ignore the event, or close; for a closed slot
\* the last CQE reclaims it.
Dispatched(r) ==
    IF r.mode = "none"
    THEN { IF r.pending_ops = 0 THEN ReclaimSlot(r) ELSE r }
    ELSE {r} \cup CallbackResults(r)
         \cup { Close(r, ok, hit) : ok \in SqOutcomes, hit \in BOOLEAN }
         \cup (IF r.mode = "yield"
               THEN UNION { CallbackResults(DisarmYieldTimer(r, ok, hit)) :
                            ok \in SqOutcomes, hit \in BOOLEAN }
               ELSE {})

DispatchFinal(c, k, ev) ==
    /\ phase = "batch"
    /\ slot[c].cq[k] > 0
    /\ k # "HandlerTimer"
    /\ \E q \in Dispatched(Account(slot[c], k, ev)) : slot' = [slot EXCEPT ![c] = q]
    /\ LoopUnchanged

\* A CQE with IORING_CQE_F_MORE: no accounting.  It precedes the final CQE of
\* its multishot operation, so one is still owed.
DispatchMore(c, k) ==
    /\ phase = "batch"
    /\ k \in {"Recv", "UpstreamRecv"}
    /\ slot[c].kernel[k] + slot[c].cq[k] > 0
    /\ \E q \in Dispatched(slot[c]) : slot' = [slot EXCEPT ![c] = q]
    /\ LoopUnchanged

\* The HandlerTimer branch: the armed flags fall only for the current
\* generation (match), which is also the only one that may resume a handler.
DispatchTimer(c, match) ==
    LET r == Account(slot[c], "HandlerTimer", IF match THEN "HandlerTimer" ELSE "")
        resumed == IF match /\ r.mode = "yield" THEN CallbackResults(r) ELSE {}
        idle == IF r.pending_ops = 0 /\ r.mode # "yield" /\ ~r.open THEN ReclaimSlot(r) ELSE r
    IN  /\ phase = "batch"
        /\ slot[c].cq["HandlerTimer"] > 0
        /\ match => "HandlerTimer" \in slot[c].armed
        /\ \E q \in resumed \cup {idle} : slot' = [slot EXCEPT ![c] = q]
        /\ LoopUnchanged

\* The Timeout branch for one connection: its wheel entry fires, or it is idle
\* and should_drain_close picks it.
DispatchTick(c, ok, hit) ==
    /\ phase = "batch"
    /\ slot[c].open
    /\ \E q \in {Close(slot[c], ok, hit)}
               \cup (IF slot[c].mode = "yield"
                        THEN CallbackResults(WheelResumed(slot[c]))
                        ELSE {}) :
          slot' = [slot EXCEPT ![c] = q]
    /\ LoopUnchanged

\* The batch is done: reclaim_pending, then retry_deferred_accepts.
EndOfBatch ==
    /\ phase = "batch"
    /\ slot' = [c \in Conns |-> ReclaimPending(slot[c])]
    /\ phase' = "retry"
    /\ UNCHANGED <<deferred, draining, expired, running>>

RetryAccept(c, ok) ==
    /\ phase = "retry" /\ deferred > 0
    /\ slot[c].free > 0
    /\ slot' = [slot EXCEPT ![c] = Allocate(@, ok)]
    /\ deferred' = deferred - 1
    /\ UNCHANGED <<phase, draining, expired, running>>

\* No slot or no slices: the parked fd is closed.
RetryDrop ==
    /\ phase = "retry" /\ deferred > 0
    /\ deferred' = deferred - 1
    /\ UNCHANGED <<slot, phase, draining, expired, running>>

\* active_count: kMaxConns - free_top.
ActiveCount == Cardinality(Conns) - MapThenSumSet(LAMBDA c : slot[c].free, Conns)

\* Mutant: connections with a yielded handler are skipped.
ForceCloseAll_SkipsYielded(ok, hit) ==
    slot' = [c \in Conns |-> IF slot[c].open /\ slot[c].mode = "slots"
                             THEN Close(slot[c], ok, hit) ELSE slot[c]]

ForceCloseAll(ok, hit) ==
    slot' = [c \in Conns |-> IF slot[c].open THEN Close(slot[c], ok, hit) ELSE slot[c]]

\* Mutant: the drain deadline is not looked at.
LoopTail_NoDeadline ==
    /\ phase = "retry" /\ deferred = 0
    /\ IF draining
       THEN /\ running' = (running /\ ActiveCount # 0)
            /\ slot' = slot
       ELSE UNCHANGED <<slot, running>>
    /\ phase' = IF running' THEN "batch" ELSE "returned"
    /\ UNCHANGED <<deferred, draining, expired>>

\* The rest of the loop body, and the while condition.
LoopTail ==
    /\ phase = "retry" /\ deferred = 0
    /\ IF draining
       THEN \/ /\ ActiveCount = 0
               /\ running' = FALSE
               /\ slot' = slot
            \/ /\ ActiveCount # 0 /\ expired
               /\ running' = FALSE
               /\ \E ok \in SqOutcomes, hit \in BOOLEAN : ForceCloseAll(ok, hit)
            \/ /\ ActiveCount # 0 /\ ~expired
               /\ UNCHANGED <<running, slot>>
       ELSE UNCHANGED <<slot, running>>
    /\ phase' = IF running' THEN "batch" ELSE "returned"
    /\ UNCHANGED <<deferred, draining, expired>>

\* Calls from the control thread, and the clock.
Drain ==
    /\ draining' = TRUE
    /\ UNCHANGED <<slot, deferred, phase, expired, running>>

Stop ==
    /\ running' = FALSE
    /\ UNCHANGED <<slot, deferred, phase, draining, expired>>

DeadlinePasses ==
    /\ draining /\ expired' = TRUE
    /\ UNCHANGED <<slot, deferred, phase, draining, running>>

LoopStep ==
    \/ EndOfBatch
    \/ \E c \in Conns, ok \in SqOutcomes : RetryAccept(c, ok)
    \/ RetryDrop
    \/ LoopTail

Completion(c) ==
    \/ \E k \in Kinds : \E ev \in EventTypes(k) : DispatchFinal(c, k, ev)
    \/ \E match \in BOOLEAN : DispatchTimer(c, match)

Next ==
    \/ \E c \in Conns :
         \/ \E k \in Kinds : KernelComplete(c, k) \/ Resubmit(c, k)
         \/ \E ok \in SqOutcomes : AcceptConn(c, ok) \/ AcceptReclaimed(c, ok)
         \/ Completion(c)
         \/ \E k \in Kinds : DispatchMore(c, k)
         \/ \E ok \in SqOutcomes, hit \in BOOLEAN : DispatchTick(c, ok, hit)
    \/ AcceptDeferred
    \/ LoopStep
    \/ Drain
    \/ Stop
    \/ DeadlinePasses

Spec == Init /\ [][Next]_vars

\* The shard thread keeps running: every pass of run() ends, and wait() keeps
\* taking CQEs of each kind from the CQ, in which they are in order; and time
\* passes.  The kernel and the peers owe nothing.
Fairness ==
    /\ []<><<phase' # phase>>_vars \/ <>[](phase = "returned")
    /\ \A c \in Conns, k \in Kinds :
         \/ []<><<slot'[c].cq[k] < slot[c].cq[k]>>_vars
         \/ []<>(slot[c].cq[k] = 0 \/ phase = "returned")
    /\ []<>(~draining \/ expired)

FairSpec == Spec /\ Fairness

-----------------------------------------------------------------------------
(* Properties.                                                             *)

\* CQEs the kernel still owes the loop for a slot.
Owed(r) ==
    r.kernel["Recv"] + r.kernel["Send"] + r.kernel["UpstreamConnect"]
    + r.kernel["UpstreamRecv"] + r.kernel["UpstreamSend"] + r.kernel["HandlerTimer"]
    + r.cq["Recv"] + r.cq["Send"] + r.cq["UpstreamConnect"]
    + r.cq["UpstreamRecv"] + r.cq["UpstreamSend"] + r.cq["HandlerTimer"]

\* pending_ops is exactly the number of final CQEs still to come, through
\* closes, lost cancels, timers disarmed mid-wait and slot reuse: it neither
\* leaks the slot (too high) nor frees it early (too low).
PendingOpsExact == \A c \in Conns : slot[c].pending_ops = Owed(slot[c])

\* Every slot has exactly one owner: the free stack, pending_free, or an open
\* connection.  In particular no id is ever pushed twice on free_stack.
OneOwner == \A c \in Conns : slot[c].free + slot[c].pending_free + One(slot[c].open) = 1

\* While the kernel may still write to or read from a slot's buffers the slot
\* keeps its slices, and a slot on the free stack has returned all of them.
SlicesPinned ==
    \A c \in Conns :
        /\ Owed(slot[c]) > 0 => {"recv_slice", "send_slice"} \subseteq slot[c].slices
        /\ slot[c].free > 0 => slot[c].slices = {}

\* The inductive invariant of one slot behind the three properties above: who
\* owns the slot decides what it may still be owed and must still hold.
SlotGood(r) ==
    /\ r \in SlotRecords
    /\ r.pending_ops = Owed(r)
    /\ r.free + r.pending_free + One(r.open) = 1
    /\ (r.mode = "none") <=> ~r.open
    /\ r.free > 0 => r.pending_ops = 0 /\ r.slices = {}
    /\ r.pending_free > 0 => r.pending_ops > 0
    /\ r.free = 0 => {"recv_slice", "send_slice"} \subseteq r.slices

\* A slot waits on pending_free only while a CQE is owed, an open slot has its
\* callbacks or a yielded handler, a free one has nothing left: the facts that
\* make the accounting of every close, dispatch and reclaim step go through.
SlotInvariant == \A c \in Conns : SlotGood(slot[c])

\* A slot is handed to a new connection only when no CQE for its id can still
\* arrive: the events carry nothing but the id, so an owed CQE would be taken
\* for one of the new connection.
NoReuseWhileOwed ==
    [][\A c \in Conns : ~slot[c].open /\ slot'[c].open => Owed(slot[c]) = 0]_vars

\* A closed slot the kernel no longer holds operations of is eventually reusable,
\* unless wait() hands the kernel the rest of a partial send.
KernelIdle(c) == \A k \in Kinds : slot[c].kernel[k] = 0

ReclaimedOnceDrained ==
    \A c \in Conns :
        (~slot[c].open /\ KernelIdle(c))
            ~> (slot[c].free > 0 \/ slot[c].open \/ ~running \/ ~KernelIdle(c))

\* A drained shard returns from run(), however its clients behave.
DrainReturns == draining ~> (phase = "returned")

\* When run() returns past the drain deadline, force_close_all has left no
\* client socket open and no accepted fd parked.
ReturnsClosed ==
    [][phase # "returned" /\ phase' = "returned" /\ draining /\ expired
         => deferred' = 0 /\ \A c \in Conns : ~slot'[c].open]_vars
=============================================================================
