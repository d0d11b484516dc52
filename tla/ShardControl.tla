---------------------------- MODULE ShardControl ----------------------------
(***************************************************************************)
(* The control plane of a shard: hot swap of the route config and of the   *)
(* JIT code, traffic capture on and off, stop, drain, join and shutdown    *)
(* (shard.h, shard_control.h), against the shard thread that polls the     *)
(* control block between two batches (poll_command and run of the event    *)
(* loops).                                                                 *)
(*                                                                         *)
(* The two threads share the control block: one atomic pointer per kind of *)
(* update, stored by the control plane and exchanged for null by the       *)
(* shard.  Each atomic operation is a step of its own.  Config and JIT     *)
(* code are numbered in the order the control plane hands them over; 0 is  *)
(* the null pointer.                                                       *)
(***************************************************************************)
EXTENDS Naturals

CONSTANTS
    Reqs,       \* connections of the shard that can hold a request
    MaxVersion  \* bound on the number of updates of each kind

ASSUME ControlAssumption == MaxVersion \in Nat \ {0}

Pointers == {"config", "jit"}
Versions == 0 .. MaxVersion

VARIABLES
    pending,  \* the control block: pending_config, pending_jit
    cap,      \* pending_capture: "none", "on" (the ring) or "off" (kCaptureDisable)
    active,   \* active_config, jit_code
    loopCap,  \* loop->capture_ring is set
    region,   \* loop->capture_region_ is mapped
    ring,     \* the capture ring is allocated
    spawned,  \* thread_spawned
    running,  \* running_
    draining, \* draining_
    pc,       \* the shard thread: "none", "gone" or where it is in run()
    alive,    \* the event loop exists (false after shutdown)
    pinned,   \* request_config of each request in flight, 0 when there is none
    matched,  \* history: the config the request was routed with
    resolved, \* history: requests that resolved an id in another config
    asked,    \* history: the last config and code the control plane handed over
    askedCap, \* history: the last capture state it asked for
    retried   \* history: a ring was put back because its region could not be mapped

vars == <<pending, cap, active, loopCap, region, ring, spawned, running, draining, pc, alive,
          pinned, matched, resolved, asked, askedCap, retried>>
control == <<spawned, alive, asked, askedCap, ring>>
requests == <<pinned, matched, resolved, retried>>

\* Between init() and spawn(), with route_config set to version 1.
Init ==
    /\ pending = [p \in Pointers |-> 0] /\ cap = "none"
    /\ active = [p \in Pointers |-> 0]
    /\ loopCap = FALSE /\ region = FALSE /\ ring = FALSE
    /\ spawned = FALSE /\ running = TRUE /\ draining = FALSE
    /\ pc = "none" /\ alive = TRUE
    /\ pinned = [r \in Reqs |-> 0] /\ matched = [r \in Reqs |-> 0] /\ resolved = {}
    /\ asked = [p \in Pointers |-> IF p = "config" THEN 1 ELSE 0]
    /\ askedCap = "off" /\ retried = FALSE

-----------------------------------------------------------------------------
(* The control plane.                                                      *)

\* Mutant: spawn seeds the config even after a reload.
Spawn_AlwaysSeeds ==
    /\ alive /\ ~spawned
    /\ active' = [active EXCEPT !["config"] = 1]
    /\ spawned' = TRUE /\ pc' = "while"
    /\ UNCHANGED <<pending, cap, loopCap, region, ring, running, draining, alive, requests,
                   asked, askedCap>>

Spawn ==
    /\ alive /\ ~spawned
    /\ active' = [active EXCEPT !["config"] = IF @ = 0 THEN 1 ELSE @]
    /\ \/ spawned' = TRUE /\ pc' = "while"
       \/ UNCHANGED <<spawned, pc>>                \* pthread_create failed
    /\ UNCHANGED <<pending, cap, loopCap, region, ring, running, draining, alive, requests,
                   asked, askedCap>>

\* reload_config and swap_jit.
Hand(p) ==
    /\ alive /\ asked[p] < MaxVersion
    /\ asked' = [asked EXCEPT ![p] = @ + 1]
    /\ IF spawned
       THEN /\ pending' = [pending EXCEPT ![p] = asked[p] + 1]
            /\ UNCHANGED active
       ELSE /\ active' = [active EXCEPT ![p] = asked[p] + 1]
            /\ UNCHANGED pending
    /\ UNCHANGED <<cap, loopCap, region, ring, spawned, running, draining, pc, alive, requests,
                   askedCap>>

\* set_capture(ring), which maps the capture region on its first call.
SetCapture(fails) ==
    /\ region' = (region \/ ~fails)
    /\ loopCap' = region'

\* enable_capture.  Without a thread set_capture runs here; when it fails, a ring
\* that was just allocated is freed again.
EnableCapture ==
    /\ alive
    /\ IF spawned
       THEN /\ cap' = "on" /\ ring' = TRUE /\ askedCap' = "on"
            /\ UNCHANGED <<loopCap, region>>
       ELSE /\ \E fails \in BOOLEAN : SetCapture(fails)
            /\ ring' = (ring \/ loopCap')
            /\ askedCap' = IF loopCap' THEN "on" ELSE askedCap
            /\ UNCHANGED cap
    /\ UNCHANGED <<pending, active, spawned, running, draining, pc, alive, requests,
                   asked>>

DisableCapture ==
    /\ alive
    /\ IF spawned THEN cap' = "off" /\ UNCHANGED loopCap
                  ELSE loopCap' = FALSE /\ UNCHANGED cap
    /\ askedCap' = "off"
    /\ UNCHANGED <<pending, active, region, ring, spawned, running, draining, pc, alive, requests,
                   asked>>

Stop ==
    /\ alive /\ running
    /\ running' = FALSE
    /\ UNCHANGED <<pending, cap, active, loopCap, region, draining, pc, control, requests>>

Drain ==
    /\ alive /\ ~draining
    /\ draining' = TRUE
    /\ UNCHANGED <<pending, cap, active, loopCap, region, running, pc, control, requests>>

\* Mutant: join forgets what the thread did not consume.
Join_DropsPending ==
    /\ spawned /\ pc = "gone"
    /\ spawned' = FALSE
    /\ pending' = [p \in Pointers |-> 0] /\ cap' = "none"
    /\ UNCHANGED <<active, loopCap, region, ring, running, draining, pc, alive, requests, asked,
                   askedCap>>

\* join: the thread is gone, what it left in the control block is applied.
Join ==
    /\ spawned /\ pc = "gone"
    /\ spawned' = FALSE
    /\ active' = [p \in Pointers |-> IF pending[p] # 0 THEN pending[p] ELSE active[p]]
    /\ pending' = [p \in Pointers |-> 0]
    /\ \/ cap = "on" /\ \E fails \in BOOLEAN : SetCapture(fails)
       \/ cap # "on" /\ loopCap' = (loopCap /\ cap # "off") /\ UNCHANGED region
    /\ cap' = "none"
    /\ UNCHANGED <<ring, running, draining, pc, alive, requests, asked, askedCap>>

\* Mutant: the ring is freed before the thread is joined.
Release_BeforeJoin ==
    /\ alive /\ ~running
    /\ ring' = FALSE
    /\ UNCHANGED <<pending, cap, active, loopCap, region, spawned, running, draining, pc, alive,
                   requests, asked, askedCap>>

\* The rest of shutdown, after its stop() and join().
Release ==
    /\ alive /\ ~running /\ ~spawned
    /\ ring' = FALSE /\ loopCap' = FALSE /\ region' = FALSE /\ alive' = FALSE
    /\ UNCHANGED <<pending, cap, active, spawned, running, draining, pc, requests, asked,
                   askedCap>>

ControlPlane ==
    \/ Spawn \/ (\E p \in Pointers : Hand(p)) \/ EnableCapture \/ DisableCapture
    \/ Stop \/ Drain \/ Join \/ Release

-----------------------------------------------------------------------------
(* The shard thread: run().                                                *)

While ==
    /\ pc = "while"
    /\ pc' = IF running THEN "batch" ELSE "gone"
    /\ UNCHANGED <<pending, cap, active, loopCap, region, running, draining, control, requests>>

\* A request is routed: on_header_received pins the config on the connection.
StartRequest(r) ==
    /\ pc = "batch" /\ pinned[r] = 0
    /\ pinned' = [pinned EXCEPT ![r] = active["config"]]
    /\ matched' = [matched EXCEPT ![r] = active["config"]]
    /\ UNCHANGED <<pending, cap, active, loopCap, region, running, draining, pc, control,
                   resolved, retried>>

\* Mutant: ids are looked up in the config that is active now.
Config_Active(r) == active["config"]

\* The config handle_jit_outcome looks ids up in.
Config(r) == pinned[r]

\* A handler resumed in a later batch resolves an upstream or body id; the
\* request goes on, or ends.
ResolveId(r) ==
    /\ pc = "batch" /\ pinned[r] # 0
    /\ resolved' = IF Config(r) = matched[r] THEN resolved ELSE resolved \cup {r}
    /\ \E done \in BOOLEAN :
         /\ pinned' = [pinned EXCEPT ![r] = IF done THEN 0 ELSE @]
         /\ matched' = [matched EXCEPT ![r] = IF done THEN 0 ELSE @]
    /\ UNCHANGED <<pending, cap, active, loopCap, region, running, draining, pc, control,
                   retried>>

EndBatch ==
    /\ pc = "batch"
    /\ pc' = "config"
    /\ UNCHANGED <<pending, cap, active, loopCap, region, running, draining, control, requests>>

\* Mutant: the pending pointer is read, not taken.
PollPointer_Load(p, next) ==
    /\ pc = p
    /\ active' = [active EXCEPT ![p] = IF pending[p] # 0 THEN pending[p] ELSE @]
    /\ pc' = next
    /\ UNCHANGED <<pending, cap, loopCap, region, running, draining, control, requests>>

\* poll_command: exchange, then the plain store to *config_ptr or *jit_code_ptr.
PollPointer(p, next) ==
    /\ pc = p
    /\ active' = [active EXCEPT ![p] = IF pending[p] # 0 THEN pending[p] ELSE @]
    /\ pending' = [pending EXCEPT ![p] = 0]
    /\ pc' = next
    /\ UNCHANGED <<cap, loopCap, region, running, draining, control, requests>>

\* The capture slot: a ring whose region cannot be mapped is put back.
PollCapture ==
    /\ pc = "capture"
    /\ cap' = "none"
    /\ \/ /\ cap = "on" /\ \E fails \in BOOLEAN : SetCapture(fails)
          /\ pc' = IF loopCap' THEN "tail" ELSE "putback"
       \/ /\ cap # "on" /\ loopCap' = (loopCap /\ cap # "off") /\ UNCHANGED region
          /\ pc' = "tail"
    /\ UNCHANGED <<pending, active, running, draining, control, requests>>

PutBack ==
    /\ pc = "putback"
    /\ cap' = "on" /\ retried' = TRUE
    /\ pc' = "tail"
    /\ UNCHANGED <<pending, active, loopCap, region, running, draining, control, pinned, matched,
                   resolved>>

\* The end of an iteration: a drain that is over (no connection is left, or its
\* deadline passed and all were closed) stops the loop.
DrainCheck ==
    /\ pc = "tail"
    /\ pc' = "while"
    /\ \/ UNCHANGED <<running, requests>>
       \/ /\ draining
          /\ running' = FALSE
          /\ pinned' = [r \in Reqs |-> 0] /\ matched' = [r \in Reqs |-> 0]
          /\ UNCHANGED <<resolved, retried>>
    /\ UNCHANGED <<pending, cap, active, loopCap, region, draining, control>>

Poll == \/ PollPointer("config", "jit") \/ PollPointer("jit", "capture")
        \/ PollCapture \/ PutBack
ShardThread ==
    \/ While \/ EndBatch \/ Poll \/ DrainCheck
    \/ \E r \in Reqs : StartRequest(r) \/ ResolveId(r)

Next == ControlPlane \/ ShardThread

Spec == Init /\ [][Next]_vars

\* The thread is scheduled, and wait() returns at the latest with the next tick
\* of the shard's timer.
Fairness == WF_vars(While \/ EndBatch \/ Poll \/ DrainCheck)

-----------------------------------------------------------------------------
(* Properties.                                                             *)

\* "If thread consumes it - good. If not, join() applies it": while there is no
\* thread, the last config and the last code handed over are the active ones
\* (spawn seeds the first config), and capture is off when the last request was to
\* disable it, unless a ring was put back, which overwrites whatever the slot
\* holds by then.
LastUpdateApplied ==
    ~spawned =>
        /\ \A p \in Pointers :
             /\ pending[p] = 0
             /\ active[p] = asked[p] \/ (p = "config" /\ pc = "none" /\ active[p] = 0)
        /\ askedCap = "off" /\ ~retried => ~loopCap

\* An update is not undone by an older one, and is applied by the side that owns
\* the pointer: while a thread exists only that thread changes active_config and
\* jit_code.
UpdatesInOrder ==
    [][/\ \A p \in Pointers : active'[p] >= active[p]
       /\ spawned /\ pc # "gone" /\ active' # active => pc \in Pointers]_vars

\* A thread runs on a loop that exists, and never holds a capture ring that is
\* unmapped, nor finds one in its control block.
RingOutlivesUse ==
    /\ pc \notin {"none", "gone"} => spawned /\ alive
    /\ loopCap \/ cap = "on" \/ pc = "putback" => ring

\* Every id of a request is resolved in the config the request was routed with,
\* across any number of swaps while its handler waits.
PinnedConfig == resolved = {}

\* An update handed to a running thread is consumed, or the thread exits; stop()
\* ends the thread.
ThreadResponds ==
    /\ \A p \in Pointers : (pending[p] # 0 /\ pc # "gone") ~> (pending[p] = 0 \/ pc = "gone")
    /\ (~running /\ pc # "none") ~> (pc = "gone")
=============================================================================
