# Verification of rut

rut is a programmable HTTP gateway: a share-nothing runtime (one event loop per
shard thread, on io_uring or epoll) that serves routes compiled from RouteLang.
This directory holds TLA+ models of the runtime, of the compiler and of the offline
simulator, the TLC configurations that check them and TLAPS proofs about eight of
them. `PROJECT.json` maps each definition to the lines it models and lists runs,
mutants, hazards, findings and theorems.

    tlc -workers 2 -config IoUringLoop.cfg MCIoUringLoop   # a run
    tlapm ShardProofs.tla                                  # proofs

## The system

| part | state | operations | what is hard |
|---|---|---|---|
| io_uring loop (`iouring_event_loop.h`, `io_uring_backend.cc`) | slot array, free stack, pending-free list, deferred accepts, `pending_ops`, slices | accept, submit, dispatch, close, reclaim, drain | completions outlive connections; the SQ fills up in mid-callback |
| io_uring sends | `send_state` | `add_send`, short send, cancel | resubmission from `wait()`, fd reuse |
| epoll loop and backend (`epoll_event_loop.h`, `epoll_backend.cc`) | interests, `send_state`, `pending_completions` | `add_*`, `wait`, `cancel` | sends complete at once or later; events carry only the connection id |
| callbacks (`callbacks_impl.h`, `callbacks.cc`, `jit_dispatch.h`) | four callback slots, three buffers, body counters, pipeline stash | one callback per event and phase | early answers, pipelining, streaming, waits of JIT handlers |
| timers | 64-slot wheel, yield heap and timerfd, timeouts with generations | add, refresh, tick, schedule, drain | a wait that ends races the close and reuse of its slot |
| shard control (`shard.h`, `shard_control.h`) | control block, active pointers | reload, swap, capture, stop, drain, join | two threads, no locks |
| rings (`AccessLogRing`, `CaptureRing`) | two positions, slots | push, pop | lock-free, positions wrap |
| process (`main.cc`), flusher (`access_log.cc`) | threads, rings, log file | bring up, drain, join, flush, release | a failure at any step; a log nobody reads |
| routing (`route_table.h`, `route_trie.cc`, `route_art.cc`, `art_jit_codegen.cc`, `compile_to_config.h`) | routes, segment trie, radix tree, upstreams, bodies, header sets | add, populate, register, compile, match | edges split and nodes grown in fixed pools, rollback; handlers hold indices |
| slice pool (`slice_pool.h`) | free stack, committed count, three slices a connection | alloc, grow, free | an allocation that fails half way; the limit |
| chunked parser (`chunked_parser.cc`) | state, size so far | feed | any split of the input; overflow |
| compiler (`analyze.cc`, `mir_build.cc`, `lower_rir.cc`) and JIT (`codegen.cc`) | a typed route, its blocks, its instructions | analyse, build, lower, compile, call, resume | blocks numbered before they are emitted; waits become resumable states |
| simulator (`simulate_engine.cc`) | runs still to try, verdict | select a route, drive a handler, compare | a wait may end in several ways; a second implementation of routing |

The properties that matter: a slot, a buffer, a socket or a ring is never used by
two owners; every byte goes to the right peer, once, in order; every wait ends for
its own reason and not before; every request is answered or its connection
closed; updates and shutdown take effect whatever the interleaving.

## Modules

`IoUringLoop` models the slots of one io_uring shard. The loop's knowledge of a
slot and the kernel's are one record; the member functions (`submit_*`, `Reset`,
`FreeConn`, `Close`, `ReclaimSlot`) are operators on it, and actions are passes of
`run()`: a completion dispatched, an accept, a retry of deferred accepts, the tail
of the loop. `kernel` and `cq` count, per kind of operation, what the kernel holds
and what it has posted. Callbacks are reduced to the submits, closes and yields
they can make. `SqOutcomes` says which submits may find room.

`IoUringSend` refines the send path: `send_state`, the SQ, the kernel, the CQ,
short writes, resubmission, cancel CQEs and sockets that are closed and reopened.

`TimerWheel` and `YieldHeap` are the data structures as operators; a loop over the
heap (`sift_up`, `sift_down`, the scan of `remove_by_conn`) is a function of the
number of its turns, `UpTurn`, `DownTurn` and `ScanTurn` one turn each. `EpollTimers`
and `IoUringTimers` are the two loops' use of them, with time, the timerfd or the
timeout operations, waits that end early, closes and slot reuse.

`ShardControl` has the control plane and the shard thread as two processes whose
atomic operations are separate steps.

`Exchange` is one client connection with its upstream over the epoll backend: every
callback, the backend's `add_send`, `add_connect` and `wait`, JIT handlers that
return any outcome or yield, and the peers. A byte is a unit
`<<request, position>>`, so that a property can tell whose byte it is; a buffer
keeps the memory behind its length, because a send that met `EAGAIN` reads it
later. Parsing is by outcome (complete, incomplete, error); what is not a whole head
is routed as `capture_request_metadata`'s fallback does, by its path if it has one, by
a path cut short, or as `/`. A read ends anywhere. What the client sends, the upstream
answers, the handlers return and the environment may do is a scenario, chosen in the
initial state. `cut` and `stale` are history variables for the exceptions below.

`SpscRing` has each load, copy and store of `push` and `pop` as a step; an acquire
load may return any position between the last one seen and the current one, and a
copy that overlaps another yields `Torn`. `LossyFifo` is the abstract queue.

`Gateway` is `run_shards` as the list of steps still to do, which a failing step
replaces by its cleanup, with shard threads that log and the flusher thread. Its
rings are the queues that `SpscRing` is proved to implement.

`RouteConfig` is a route configuration while it is built, by hand or from a compiled
module, and its lookups. `RoutePath` has canonical paths, segments and methods,
`RouteTrie` and `ArtTrie` the two tables as operators: a node is a record, a `Str`
that a table keeps is a view of a route's path, so that a view of a path that was
refused and overwritten can be told. The four node layouts of the radix tree are
one record with a type that bounds its children. The code that
`art_jit_specialize` emits is the tree unfolded into blocks, and what running it
returns is a third lookup. Paths are sequences of bytes from a small alphabet.

`SlicePool` has `alloc`, `grow` and `free` as operators on the pool and, as actions,
what the loops do with it: a connection takes two slices when it is accepted, a
third when it first proxies, and gives all of them back. `mprotect` may fail at any
growth. `ChunkedParser` is `feed` byte by byte, called with reads of any size the way
the body callbacks call it; sizes are kept modulo `Word` so that the overflow check
is reached. Its reference `Meant` reads the whole input at once by the grammar.

The compiler is one module a stage. `Ast` has the source forms and `Hir` the typed
ones; `AnalyzeExpr` and `Analyze` are the front end (name resolution, inlined calls,
typing, constant folding, limits); `MirBuild` lays out the blocks of a route and
numbers them ahead; `RirBuilder` has the checks of the instruction builder and
`LowerRir` emits with it; `Codegen` says what an emitted function does when it is
called in a frame, which values its blocks can see, and how a result is packed.
`RouteMeaning` is the reference: a route run statement by statement. `Compiler` puts
a program through the stages and lets a connection call and resume its handlers
with any event. A value is the tree of the instructions that compute it, and a local
is referred to by its number, so that a value that is used where it was not computed
can be told; strings are members of a small ordered set.
`Simulator` adds the offline tool that drives the same handlers without I/O, and
`SimRoutes` its route selection beside the tables of `RouteConfig`.

MC modules name the constants of the runs. The stages are constants of `Compiler` that
`MCCompiler.cfg` sets to the operators of the modules above. A definition marked "Mutant" is a
plausible wrong version of the one that follows it; each property of a passing
run is violated when its mutant is put in place.

## Runs

Passing runs:

| run | what it shows |
|---|---|
| `slots` | `pending_ops` is exact, buffers stay while the kernel may use them, a slot has one owner, is not reused while a completion is owed and comes back once none is; a drain ends with every socket closed |
| `sends` | short sends: all bytes once, reported once, in the end |
| `timers` | on both loops waits end in time, never early and never for another connection, and every open connection has a timer; on epoll no wakeup is missed and a passed deadline is served; on the wheel fallback of io_uring a wait is short by no more than the ticks that were unread when it began; the heap stays ordered and loses no entry over removals from the middle |
| `shard` | the parts of a shard, each on its own: control (updates are applied once, in order, by their owner; ids resolve in the pinned config; stop ends the thread), ring (implements the queue, across the wrap), slice pool (every slice is free once or lent once, and three a connection are enough), chunked parser (any split of the input gives the body and the end the grammar gives, or the error) |
| `exchange` | contents and callback state over twelve scenarios; when nothing fails a mixed pipeline is answered in full |
| `gateway` | every failure of bring-up and of the sink: nothing is used after release, nothing is left, the log is complete after a clean exit and in order after a broken one, the process exits |
| `routing` | after any accepted and refused routes, all three lookups return what a definition over the list of routes calls for, with its parameters; a refused route leaves nothing; the indices in handlers name what the source named |
| `compiler` | 256 programs: after any events a handler answers, forwards or waits as its source does; a program is refused by the stage whose limit it is over, and compiled when it is over none; branches stay in the function, go forward and reach every block; the simulator calls a captured response a match exactly when some successful outcome of the waits leads to it |

Four runs end in a violation; each shows a disagreement between the code and one of
its own comments or documents, quoted in `PROJECT.json`. `send_own_socket`: the CQE of a cancel
is taken for a short send, and the rest of the buffer is submitted on a descriptor
number that may be another connection's by then. `upload_lost_body`: body bytes
that arrive while the request head is being sent upstream are dropped with
`recv_buf.reset()`. `let_across_wait`: a `let` that reads the request, before a wait
and used behind it, is not evaluated again as `docs/wait.md` says; its value is not
visible from the resume point and the JIT refuses the module (a constant is folded
away and works). `simulator_route`: the simulator matches patterns by bytes, the
gateway by segments, so they can pick different routes.

Some properties of the passing runs are stated with an exception, because the code
does something else there. The model contains the behaviour; the property leaves
it out and its comment says so:

- `ClientGetsResponses`, `HandlerGetsBody`, `AllAnswered`, once a request was answered
  before all of it had arrived (`cut`): the rest is taken for another request, so a
  request may be answered twice or not at all (each answer is still whole, and in
  order). It happens in four ways. A head that arrives in two reads and is not behind
  another request (`pipeline_depth` is 0, so the parser's "incomplete" is not looked
  at) is routed by what there is of it. The body of a request that is answered
  locally is not awaited. After an upstream's early answer `on_proxy_response_sent`
  keeps the connection although `prepare_early_response_state` cleared `keep_alive`
  (`StateMatchesSlots` has this one too). And a `Recv` that shares a batch with the
  end of the previous response is counted by both `capture_request_metadata` and
  `on_jit_request_body_recvd`.
- `ClientGetsResponses`, `AllAnswered`, once an upstream is connected while
  `upstream_recv_buf` holds data (`stale`): a handler that reads from its upstream
  leaves the data there, `on_response_sent` does not reset it, and the next proxied
  request on the connection is answered with it. It takes a proxied request before,
  because only `on_upstream_connected` binds the buffer.
- `CompletionAwaited`: a connect that was in progress is reported by every `wait()`
  until the interest of its socket changes.
- `NotStuck`: a completion that finds the 64 entries of `pending_completions` taken
  is dropped, and its connection waits for the keepalive timer.
- `LastUpdateApplied`: a ring whose region could not be mapped is stored back
  over a disable that arrived in the meantime.
- `NoneEarly`: a tick that was unread when a handler was put on
  the wheel shortens its wait by up to a second.
- `AcceptsTheLanguage`: three kinds of program pass the front end and are refused by a
  later stage. A route within the front end's tables may need more than the 16 blocks of
  `build_mir` (eight guards do). A function whose inner branch ends in errors on both
  sides passes, but that branch has no type, its carrier is not the one of the outer
  branch and `lower_to_rir` fails. The third is the one of `let_across_wait`. A program
  of the run is labelled with the limit it is over, and the property says that it ends at
  the stage of that limit and that no other program is refused late.

Others were met while modelling and are outside the scenarios: data pipelined
behind an upload during a drain resets the buffer a partial send reads; `wait(upstream(api).recv())` before
`on_upstream_connected` has bound the upstream buffer; `pipeline_depth` is not
compared with `kMaxPipelineDepth`; the end of an upstream send on io_uring is
reported as `Send`; `flush_once` counts entries of a batch it could not write;
`needs_segment_aware` compares routes with each other only, so `/apix` is
answered by a route `/api` unless the table has another that needs the segment
trie; the node pools hold fewer than 128 routes when edges above wide nodes are cut
again and again, because the old places are not used again (the route is refused
and nothing else happens).

### Bounds

`slots` has one slot, because slots share nothing but the deferred accepts, and
the theorems are for any number; with up to two operations beside the cancels,
every pair of kinds meets every refusal of the SQ. In `sends`, two connections,
two descriptors and sends of two bytes give every short-write split and one reuse
of a descriptor. A wheel of 4 slots wraps within the modelled time; waits are
below, at and above a slot. A buffer of 3 to 8 units holds more than one request,
in most scenarios less than the connection's, and a head is one unit or two, so that
heads and bodies are split anywhere, pipelined and overflow.
The ring has 2 slots and positions that wrap at 4, and ten pushes pass the wrap
twice. `gateway` has two shards with rings of one entry, batches of two lines and
two changes of the sink; stall limits are 2 polls (the code has 50, and 300 for
the end frame). In `routing` nodes grow at 2, 3 and 4 children instead of 4, 16 and
48, the pools of the larger types hold two nodes each and the trie five, so that a
table of seven routes meets every growth, splits of nodes of every type and a pool
that runs out in the middle of a split; three routes out of sixteen are added in
every order, and the six wide ones too.

The pool has two connections, six slices and grows by four, so that the last growth
is cut short; the parser sees up to eight bytes out of two digits, `;`, CR and
LF, in reads of one to three, with sizes below 32. The control plane hands over
three configs and three codes with one request in flight: requests share nothing but
the active config, and the proofs cover any number. `compiler` has every two of five
steps (guards with three kinds of failure, a wait, a loop) before every one of five
controls, because those are laid out together, and 131 more programs so that every
operator of the stages is executed (but `emit_eq_for_standard_error`) and every table of a
route, a match, an arm, a loop and a failing body is once full and once over; four requests
take both sides of every test, and an event comes back with an error, an end or data.
A capture is any response the route can give to any of the requests. `simulator_route`
takes the scenarios of `routing` that come from a compiled module.

`MaxPendingOps`, `MaxGen`, `MaxNow`, `MaxTicks`, `MaxVersion`,
`MaxPushes`, `MaxEntries`, `MaxSinkChanges` and a scenario's `yields` bound
counters in guards. No run uses symmetry.

Deadlock checking is off where a bound, a finished input or a returned `run()` stops
the model; it is on for `gateway`.

### Fairness

Only the shard, main and flusher threads are fair (they are scheduled, `wait()`
returns at the latest with the one-second timer), and epoll, which reports a
socket that stays ready. In `IoUringLoop` every pass of the loop ends and a CQE in
the CQ is taken in the end, because each pass harvests the whole queue. Peers,
sinks and the kernel owe nothing, except that in `sends` a socket accepts bytes in
the end. `IoUringLoop` and `Exchange` write their fairness out as `[]<>` of a step
or of the condition under which it is not possible, which is what weak and strong
fairness say and is cheaper to check than `ENABLED`.

## Proofs

`IoUringLoopProofs`: for every number of connections and every pattern of SQ
exhaustion, `SlotInvariant`, which the run checks, and what follows from it:
`TypeOK`, `PendingOpsExact`, `OneOwner`, `SlicesPinned` and the action property
`NoReuseWhileOwed`. `PendingOpsExact` alone
is not inductive: whether a late completion may touch a slot depends on where the
slot is kept. The strengthening (`SlotGood`) says of each slot that it is exactly
one of free, pending or open, that `pending_ops` is the number of completions
owed, that a free slot owes nothing and holds no buffers, and that any other holds
its two. Each helper is shown to keep it on a record (`AlmostGood` in between),
and each action applies helpers to one slot. Assumptions: `Conns` is finite, the
bounds are naturals.

`IoUringSendProofs`, `IoUringSendTheorems`: for every number of connections, descriptors
and SQ entries and every buffer length, `SentInFull` and `OwedInQueues`. The invariant
`IInv` follows a connection's send through the SQ, the kernel and the CQ: it is in at
most one of them (`OneSend`), `pending_ops` counts what is still to come (`Owed`),
`send_state` says what has been written and what has not (`Account`), and an open
connection has at most one completion coming (`Waiting`). One `wait()` takes any number
of CQEs, so the harvest is an induction over them: `Halfway` is the invariant after the
first k, with the rest still in the CQ, and a harvest that stops at `max_events` leaves
a suffix. A close posts its completions in any order; they are counted through the
bijection that orders them. What the proofs use of finite sets and of induction is named
`Facts` and proved in the second module. Assumptions: those of `IoUringSend` on its
constants.

`IoUringTimersProofs`: for every number of connections, every wheel (64 slots in the
code), every length of a second in clock units and every stall, `Guarded` and
`NeverResumedEarly`, the io_uring halves of what run `timers` checks. The invariant
`IInv` says of each slot which flags go together and that it is on the wheel exactly
when it is open without a timeout (`FlagsOK`); that an operation or completion of the
current generation exists exactly while a timeout is armed, is not cancelled and ends
at the handler's time (`Current`), which is what makes a late completion harmless;
and that the ticks the wheel has done plus those left for a sleeping connection reach
its time, but for the ticks the wheel may be behind (`OnTime`). Every action is a step
of one slot (`SlotStep`), every way a handler runs on is one lemma (`RunsKeeps`), and
the clock and the wheel keep the sum (`ClockStep`). Assumptions: the keepalive timeout
is shorter than a turn of the wheel, waits are positive, the bounds are naturals.

`EpollTimersProofs`, the heap: for any number of entries and any deadlines,
`HeapOfEntries`. A loop of the heap is cut off at its first turn that changes nothing;
what a turn keeps, the loop keeps, by a least-number argument (`NaturalsInduction`).
`sift_up` and `sift_down` start from an array that is a heap but for one place, and
each turn moves that place. `remove_by_conn` runs both, since the last entry, put in
the middle, may belong above or below; it stops at the first entry of the connection,
which is enough because a connection never has two.

`EpollTimersProofs`, the loop: for every number of connections, heap capacity (also one
that sends waits to the wheel), wheel, stall and length of the waits, `TimerCoversTop`,
`NeverEarly` and `Guarded`, the epoll halves of what run `timers` checks. `IInv` says
that the heap is a heap whose entries belong to distinct sleeping connections
(`Sound`), that the timerfd is set to the top when the loop waits (`Synced`), which
flags of a connection go together (`FlagsOK`), and that the ticks the wheel has done
plus those left for a sleeping connection reach its time, but for those it is behind
(`OnTime`). The drain of due entries is a loop again: each turn pops one and runs a
handler, which may wait anew and push. Assumptions: as for io_uring.

`ShardProofs`, control: for every number of requests and of updates,
`LastUpdateApplied`, `RingOutlivesUse`, `PinnedConfig` and the action property
`UpdatesInOrder`. The invariant adds who may be where (`Lifecycle`: a control
block is filled only while a thread is there to read it), that the last update is in
the control block or, when that is empty, active, and that no active one is newer
(`Handed`), that a request to disable capture is in its slot or carried out unless a
ring was put back (`Capture`), and that the pinned config is the one the request was
routed with (`Routed`). `UpdatesInOrder` needs `Handed`: an exchange may only find
the newest version. Assumption: `MaxVersion` is a positive number.

`ShardProofs`, the rings: for every capacity and every word size that is a larger multiple
of it (512 and 256 under 2^32 in the code), `RingTypeOK`, `PopsOldest`, `NoRace`,
and the refinement of `LossyFifo`, which the run checks too. The invariant `RingInv` says how far what each
thread has seen lags behind (`Counts`), that positions are the counts modulo the
word size, that the slots between them hold the queue, and what the producer and
the consumer know at each step. The arithmetic lemmas (`Distance`, `SlotsDiffer`,
`SlotOfPosition`) are where the multiple is needed.

`SlicePoolProofs`: for every number of connections and every growth step
(16384 and 256 in the code), `LentOnce` and `NeverStarved`. Neither is inductive. The
invariant `PoolInv` adds that the in-use map is exactly the slices that connections
hold, that the idle stack holds connections without slices, each once, and that a
connection with an upstream slice has the other two. `free` needs room on the stack:
a stack of distinct numbers that lacks the one given back is not full (`StackRoom`, a
pigeonhole argument by least counterexample). `NeverStarved` is a counting argument:
when every slice is lent, every connection has its three, and none of them asks for
another (`SliceLeft`). Assumptions: at least one connection, a growth step of at least
one.

`GatewayProofs`: for every number of shards, every command line and any failing step,
`UsesWhatExists` and `LeavesNothing`. The steps of `run_shards` that are left to do
are data, so the invariant is about that list: it is in the order of the program
(`Stage`), whatever is held is released by a step that is still on it, a thread is
stopped and joined before what it uses goes, and the flusher runs only while the
rings and the file are there. Every program and every cleanup is shown to have that
shape, and a step takes the head of the list off. Assumptions: `GatewayAssumption`.

Only model-checked: all liveness (fairness and `ENABLED` are beyond the prover); the
exchange of a connection, whose invariants range over callbacks, buffers and peers at
once; what recursive operators compute (the chunked parser, the route tables, the
compiler and the simulator against their references), since the prover's SMT backend
is lost in a module that reaches a RECURSIVE operator. Loops that are written as
functions of the number of turns are in reach, as the heap and the harvest show.

## Not modelled

- Lexer and parser of RouteLang, the HTTP head parsers, the SIMD scanners, the RIR
  printer, option parsing, manifests and capture files: functions from bytes to
  fields and back, of which the models use the outcome.
- LLVM itself. `Codegen` says what the emitted instructions do and states the one
  check of the verifier that the emitted code can fail, dominance.
- Generics, protocols and imports of the language; request bodies in handlers; the
  pool limits of the instruction builder, which no route of 16 blocks reaches; the part
  of `build_mir` behind its last reachable case.
- TLS termination: the handshake and the record layer are the library's.
- `SlabPool`, `SliceArena` and the idle lists of `UpstreamPool`, which the runtime does
  not use.
- Histograms, and the replay of captured traffic over sockets.
- The templated loop in `event_loop.h`, which repeats the two loops `main.cc` runs.

The 512 values a function may have in the code generator are counted, but no program of
`compiler` has as many. The pools of a route's expressions (64) and of a module's failing
arms (64) and the limits of the parser are not modelled.

The programs of `compiler` stay clear of forms on which the stages disagree with any
plain reading of the source: fallible booleans in guards, `.code` of a named error,
errors written as numbers and matched by name, a variant case with a payload
compared with another case, a name bound twice, an empty array, decorators that can
fail. The offline simulator resumes upstream waits that the loop would answer with
502, and says so (`docs/wait.md`, "a successful synthetic completion").
