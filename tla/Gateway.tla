------------------------------- MODULE Gateway -------------------------------
(***************************************************************************)
(* The life of the process: run_shards (main.cc) brings up one thread per  *)
(* shard and the access log flusher, waits for a signal, drains, joins and *)
(* releases everything, or undoes what it did when a step fails.  Shard    *)
(* threads push log entries into their rings (AccessLogRing), the flusher  *)
(* thread pops them, batches lines and writes them to a sink that may      *)
(* stall or break (access_log.cc).                                         *)
(*                                                                         *)
(* run_shards is straight-line code: main.todo is what is left of it, and  *)
(* a step that fails replaces it by the cleanup written at that place.     *)
(* Rings are the bounded queues with loss that SpscRing is proved to       *)
(* implement.  A log line is two writable units, so that a write can end   *)
(* inside a line.                                                          *)
(***************************************************************************)
EXTENDS Integers, Sequences

CONSTANTS
    N,               \* shard_count
    LogModes,        \* the command lines: --access-log absent, given, or compressed
    kCapacity,       \* entries of a ring
    kBatchSize,      \* lines of a batch
    kMaxStall,       \* polls without progress after which a stopping flusher gives up
    MaxEntries,      \* bound: entries a shard logs
    Faults,          \* the steps of run_shards that may fail
    SinkStates,      \* states of the sink: a subset of {"ok", "stalled", "broken"}
    MaxSinkChanges   \* bound: changes of the sink's state

ASSUME GatewayAssumption ==
    /\ N \in Nat \ {0} /\ kCapacity \in Nat \ {0} /\ kBatchSize \in Nat \ {0}
    /\ kMaxStall \in Nat \ {0} /\ MaxEntries \in Nat /\ MaxSinkChanges \in Nat
    /\ LogModes \subseteq {"none", "text", "zstd"}
    /\ Faults \subseteq {"listen", "bound", "open", "ring", "spawn", "start"}
    /\ SinkStates \subseteq {"ok", "stalled", "broken"} /\ "ok" \in SinkStates

Shards == 1..N

VARIABLES
    main,      \* [todo, rc, stall, mode]: the steps left, the exit code, polls of the end
               \* frame, the log mode of the command line
    shard,     \* per shard [loop, ring, spawned, running, draining, thread]
    queue,     \* per shard: the ring's entries
    room,      \* per shard: the free slots its producer knows of
    accepted,  \* per shard: entries pushed so far, which number them
    fl,        \* the flusher: [thread, running, pc, i, batch, entry, data, stall, final]
    fd,        \* the log file is open
    sink, sinkChanges,
    log,       \* the units written
    failed     \* history: a write or the compressor failed

vars == <<main, shard, queue, room, accepted, fl, fd, sink, sinkChanges, log, failed>>

-----------------------------------------------------------------------------
(* run_shards as a sequence of steps.                                      *)

\* One step for each of the first n shards, in order.
Each(op, n) == [k \in 1..n |-> <<op, k>>]

\* Shard::shutdown, which stops and joins first, of each of the first n shards.
Shutdown(n) ==
    [k \in 1..(3 * n) |-> << <<"stop", "join", "release">>[1 + ((k - 1) % 3)],
                             1 + ((k - 1) \div 3) >>]

\* Steps taken only with --access-log.
If(logging, steps) == IF logging THEN steps ELSE <<>>

\* What run_shards acquires, up to the wait for a signal.
Setup(logging) ==
    Each("listen", N) \o << <<"bound", 0>> >>
    \o If(logging, << <<"open", 0>> >>) \o If(logging, Each("ring", N))
    \o Each("spawn", N) \o If(logging, << <<"start", 0>> >>)

\* AccessLogFlusher::stop, and the close of the file.
StopLog == << <<"flstop", 0>>, <<"fljoin", 0>>, <<"endframe", 0>>, <<"close", 0>> >>

\* Mutant: the rings are unmapped before the flusher is stopped.
Program_ReleasesFirst(logging) ==
    Setup(logging) \o << <<"sigwait", 0>> >>
    \o Each("drain", N) \o Each("join", N) \o Shutdown(N) \o If(logging, StopLog)

Program(logging) ==
    Setup(logging) \o << <<"sigwait", 0>> >>
    \o Each("drain", N) \o Each("join", N)
    \o If(logging, StopLog) \o Shutdown(N)

\* Mutant: a shard that failed to spawn is not shut down, nor those after it.
Cleanup_OnlySpawned(op, i) ==
    IF op = "spawn" THEN Shutdown(i - 1) ELSE Shutdown(N)

\* The cleanup at the place where step op of shard i fails.
Cleanup(op, i) ==
    CASE op = "listen" -> Shutdown(i - 1)
      [] op \in {"bound", "open"} -> Shutdown(N)
      [] op = "ring" -> << <<"close", 0>> >> \o Shutdown(N)
      [] op = "spawn" -> Each("stop", i - 1) \o Each("join", i - 1) \o Shutdown(N)
      [] op = "start" -> Each("stop", N) \o Each("join", N) \o Shutdown(N) \o << <<"close", 0>> >>

NoFlusher == [thread |-> "none", running |-> FALSE, pc |-> "while", i |-> 1, batch |-> <<>>,
              entry |-> <<>>, data |-> <<>>, stall |-> 0, final |-> FALSE]

Init ==
    /\ \E m \in LogModes : main = [todo |-> Program(m # "none"), rc |-> 0, stall |-> 0, mode |-> m]
    /\ shard = [s \in Shards |-> [loop |-> FALSE, ring |-> FALSE, spawned |-> FALSE,
                                  running |-> FALSE, draining |-> FALSE, thread |-> "none"]]
    /\ queue = [s \in Shards |-> <<>>] /\ room = [s \in Shards |-> 0]
    /\ accepted = [s \in Shards |-> 0]
    /\ fl = NoFlusher /\ fd = FALSE /\ sink = "ok" /\ sinkChanges = 0
    /\ log = <<>> /\ failed = FALSE

-----------------------------------------------------------------------------
(* write_with_poll: one poll, and the write it allows.                     *)

\* Mutant: a timeout never counts.
Poll_Patient(data, stall, running) ==
    CASE sink = "ok"      -> [verdict |-> "wrote", stall |-> 0]
      [] sink = "broken"  -> [verdict |-> "failed", stall |-> stall]
      [] sink = "stalled" -> [verdict |-> "again", stall |-> stall]

Poll(data, stall, running) ==
    CASE sink = "ok"      -> [verdict |-> "wrote", stall |-> 0]
      [] sink = "broken"  -> [verdict |-> "failed", stall |-> stall]
      [] sink = "stalled" ->
           IF running THEN [verdict |-> "again", stall |-> stall]
           ELSE [verdict |-> IF stall + 1 >= kMaxStall THEN "failed" ELSE "again",
                 stall |-> stall + 1]

-----------------------------------------------------------------------------
(* The main thread.                                                        *)

At(op) == main.todo # <<>> /\ Head(main.todo)[1] = op
Here == Head(main.todo)[2]
Logging == main.mode # "none"
Compress == main.mode = "zstd"
Advance == main' = [main EXCEPT !.todo = Tail(main.todo), !.stall = 0]

\* The steps that can fail: listen and Shard::init, getsockname, open,
\* Shard::init_access_log, Shard::spawn, AccessLogFlusher::start.
Fails ==
    \E op \in Faults :
        /\ At(op)
        /\ main' = [main EXCEPT !.todo = Cleanup(op, Here), !.rc = 1]
        /\ UNCHANGED <<shard, queue, room, accepted, fl, fd, sink, sinkChanges, log, failed>>

MainListen ==
    /\ At("listen") /\ Advance
    /\ shard' = [shard EXCEPT ![Here] = [@ EXCEPT !.loop = TRUE, !.running = TRUE]]
    /\ UNCHANGED <<queue, room, accepted, fl, fd, sink, sinkChanges, log, failed>>

MainBound ==
    /\ At("bound") /\ Advance
    /\ UNCHANGED <<shard, queue, room, accepted, fl, fd, sink, sinkChanges, log, failed>>

MainOpen ==
    /\ At("open") /\ Advance
    /\ fd' = TRUE
    /\ UNCHANGED <<shard, queue, room, accepted, fl, sink, sinkChanges, log, failed>>

MainRing ==
    /\ At("ring") /\ Advance
    /\ shard' = [shard EXCEPT ![Here] = [@ EXCEPT !.ring = TRUE]]
    /\ room' = [room EXCEPT ![Here] = kCapacity]
    /\ UNCHANGED <<queue, accepted, fl, fd, sink, sinkChanges, log, failed>>

MainSpawn ==
    /\ At("spawn") /\ Advance
    /\ shard' = [shard EXCEPT ![Here] = [@ EXCEPT !.spawned = TRUE, !.thread = "run"]]
    /\ UNCHANGED <<queue, room, accepted, fl, fd, sink, sinkChanges, log, failed>>

MainStart ==
    /\ At("start") /\ Advance
    /\ fl' = [fl EXCEPT !.thread = "run", !.running = TRUE]
    /\ UNCHANGED <<shard, queue, room, accepted, fd, sink, sinkChanges, log, failed>>

\* SIGINT or SIGTERM arrives.
MainSigwait ==
    /\ At("sigwait") /\ Advance
    /\ UNCHANGED <<shard, queue, room, accepted, fl, fd, sink, sinkChanges, log, failed>>

MainDrain ==
    /\ At("drain") /\ Advance
    /\ shard' = [shard EXCEPT ![Here] = [@ EXCEPT !.draining = TRUE]]
    /\ UNCHANGED <<queue, room, accepted, fl, fd, sink, sinkChanges, log, failed>>

MainStop ==
    /\ At("stop") /\ Advance
    /\ shard' = [shard EXCEPT ![Here] = [@ EXCEPT !.running = FALSE]]
    /\ UNCHANGED <<queue, room, accepted, fl, fd, sink, sinkChanges, log, failed>>

MainJoin ==
    /\ At("join") /\ Advance
    /\ shard[Here].spawned => shard[Here].thread = "gone"
    /\ shard' = [shard EXCEPT ![Here] = [@ EXCEPT !.spawned = FALSE]]
    /\ UNCHANGED <<queue, room, accepted, fl, fd, sink, sinkChanges, log, failed>>

MainRelease ==
    /\ At("release") /\ Advance
    /\ shard' = [shard EXCEPT ![Here] = [@ EXCEPT !.ring = FALSE, !.loop = FALSE]]
    /\ queue' = [queue EXCEPT ![Here] = <<>>]
    /\ UNCHANGED <<room, accepted, fl, fd, sink, sinkChanges, log, failed>>

\* AccessLogFlusher::stop up to its pthread_join.
MainFlusherStop ==
    /\ At("flstop") /\ Advance
    /\ fl' = [fl EXCEPT !.running = FALSE]
    /\ UNCHANGED <<shard, queue, room, accepted, fd, sink, sinkChanges, log, failed>>

MainFlusherJoin ==
    /\ At("fljoin") /\ Advance
    /\ fl.thread = "gone"
    /\ UNCHANGED <<shard, queue, room, accepted, fl, fd, sink, sinkChanges, log, failed>>

\* The rest of stop: the end of the zstd frame is written with a stall limit of
\* its own, and its failure is not looked at.
MainEndFrame ==
    /\ At("endframe")
    /\ IF ~Compress THEN Advance /\ UNCHANGED <<log, failed>>
       ELSE LET p == Poll(<<"end">>, main.stall, fl.running)
            IN  /\ IF p.verdict = "again" THEN main' = [main EXCEPT !.stall = p.stall]
                                          ELSE Advance
                /\ log' = IF p.verdict = "wrote" THEN Append(log, <<"end">>) ELSE log
                /\ failed' = (failed \/ p.verdict = "failed")
    /\ UNCHANGED <<shard, queue, room, accepted, fl, fd, sink, sinkChanges>>

MainClose ==
    /\ At("close") /\ Advance
    /\ fd' = FALSE
    /\ UNCHANGED <<shard, queue, room, accepted, fl, sink, sinkChanges, log, failed>>

MainStep ==
    \/ Fails \/ MainListen \/ MainBound \/ MainOpen \/ MainRing \/ MainSpawn \/ MainStart
    \/ MainDrain \/ MainStop \/ MainJoin \/ MainRelease
    \/ MainFlusherStop \/ MainFlusherJoin \/ MainEndFrame \/ MainClose

-----------------------------------------------------------------------------
(* The shard threads: EventLoop::run, seen from the log.                   *)

\* A request completes and push()es its entry, which the ring may refuse.
ShardLogs(s) ==
    /\ shard[s].thread = "run" /\ Logging
    /\ accepted[s] < MaxEntries
    /\ \E seen \in room[s]..(kCapacity - Len(queue[s])) :
         \/ /\ seen = 0
            /\ UNCHANGED <<queue, room, accepted>>
         \/ /\ seen > 0
            /\ queue' = [queue EXCEPT ![s] = Append(@, <<s, accepted[s] + 1>>)]
            /\ room' = [room EXCEPT ![s] = seen - 1]
            /\ accepted' = [accepted EXCEPT ![s] = @ + 1]
    /\ UNCHANGED <<main, shard, fl, fd, sink, sinkChanges, log, failed>>

\* run() returns: it was stopped, or its drain is over.
ShardExits(s) ==
    /\ shard[s].thread = "run"
    /\ ~shard[s].running \/ shard[s].draining
    /\ shard' = [shard EXCEPT ![s] = [@ EXCEPT !.thread = "gone", !.running = FALSE]]
    /\ UNCHANGED <<main, queue, room, accepted, fl, fd, sink, sinkChanges, log, failed>>

-----------------------------------------------------------------------------
(* The flusher thread.                                                     *)

\* format_access_log_text for each entry of the batch: a line, of two parts that a
\* write can separate.
Lines(batch) ==
    [k \in 1..(2 * Len(batch)) |-> Append(batch[1 + ((k - 1) \div 2)], 1 + ((k - 1) % 2))]

\* Mutant: there is no final flush.
FlusherWhile_NoFinal ==
    /\ fl.thread = "run" /\ fl.pc = "while"
    /\ fl' = IF fl.running
             THEN [fl EXCEPT !.pc = "pop", !.i = 1, !.batch = <<>>]
             ELSE [fl EXCEPT !.thread = "gone"]
    /\ UNCHANGED <<main, shard, queue, room, accepted, fd, sink, sinkChanges, log, failed>>

\* thread_entry: flush_once while running, and once more after the last check.
FlusherWhile ==
    /\ fl.thread = "run" /\ fl.pc = "while"
    /\ fl' = [fl EXCEPT !.pc = "pop", !.i = 1, !.batch = <<>>, !.final = ~fl.running]
    /\ UNCHANGED <<main, shard, queue, room, accepted, fd, sink, sinkChanges, log, failed>>

\* flush_once pops an entry; a full batch is written first.
FlusherPops ==
    /\ fl.thread = "run" /\ fl.pc = "pop" /\ fl.i <= N
    /\ queue[fl.i] # <<>>
    /\ queue' = [queue EXCEPT ![fl.i] = Tail(@)]
    /\ LET e == Head(queue[fl.i])
       IN  fl' = IF Len(fl.batch) + 1 > kBatchSize
                 THEN [fl EXCEPT !.pc = "flush", !.entry = e, !.data = Lines(fl.batch),
                                 !.stall = 0]
                 ELSE [fl EXCEPT !.batch = Append(fl.batch, e)]
    /\ UNCHANGED <<main, shard, room, accepted, fd, sink, sinkChanges, log, failed>>

\* pop() finds none.  Its load may be stale, except in the final flush, which
\* comes after stop()'s release store and so after the shards were joined.
FlusherFindsNone ==
    /\ fl.thread = "run" /\ fl.pc = "pop" /\ fl.i <= N
    /\ queue[fl.i] = <<>> \/ ~fl.final
    /\ fl' = [fl EXCEPT !.i = fl.i + 1]
    /\ UNCHANGED <<main, shard, queue, room, accepted, fd, sink, sinkChanges, log, failed>>

FlusherRest ==
    /\ fl.thread = "run" /\ fl.pc = "pop" /\ fl.i > N
    /\ fl' = IF fl.batch # <<>>
             THEN [fl EXCEPT !.pc = "flush", !.entry = <<>>, !.data = Lines(fl.batch), !.stall = 0]
             ELSE [fl EXCEPT !.pc = "return"]
    /\ UNCHANGED <<main, shard, queue, room, accepted, fd, sink, sinkChanges, log, failed>>

\* flush_batch: a poll and a write of some of what is left; a failure (here also
\* one of the compressor) ends flush_once.
FlusherWrites ==
    /\ fl.thread = "run" /\ fl.pc = "flush" /\ fl.data # <<>>
    /\ LET p == Poll(fl.data, fl.stall, fl.running)
       IN  \/ /\ p.verdict = "wrote"
              /\ \E n \in 1..Len(fl.data) :
                   /\ log' = log \o SubSeq(fl.data, 1, n)
                   /\ fl' = [fl EXCEPT !.stall = 0, !.data = SubSeq(fl.data, n + 1, Len(fl.data))]
              /\ UNCHANGED failed
           \/ /\ p.verdict = "again"
              /\ fl' = [fl EXCEPT !.stall = p.stall]
              /\ UNCHANGED <<log, failed>>
           \/ /\ p.verdict = "failed"
              /\ fl' = [fl EXCEPT !.pc = "return", !.data = <<>>, !.stall = 0]
              /\ failed' = TRUE
              /\ UNCHANGED log
    /\ UNCHANGED <<main, shard, queue, room, accepted, fd, sink, sinkChanges>>

\* The batch is written; the entry that did not fit begins the next one.
FlusherFlushed ==
    /\ fl.thread = "run" /\ fl.pc = "flush" /\ fl.data = <<>>
    /\ fl' = IF fl.entry # <<>>
             THEN [fl EXCEPT !.pc = "pop", !.batch = <<fl.entry>>, !.entry = <<>>]
             ELSE [fl EXCEPT !.pc = "return", !.batch = <<>>]
    /\ UNCHANGED <<main, shard, queue, room, accepted, fd, sink, sinkChanges, log, failed>>

\* flush_once returns; the thread sleeps and loops, or ends.
FlusherReturns ==
    /\ fl.thread = "run" /\ fl.pc = "return"
    /\ fl' = IF fl.final THEN [fl EXCEPT !.thread = "gone"]
             ELSE [fl EXCEPT !.pc = "while", !.batch = <<>>, !.entry = <<>>]
    /\ UNCHANGED <<main, shard, queue, room, accepted, fd, sink, sinkChanges, log, failed>>

FlusherStep ==
    \/ FlusherWhile \/ FlusherPops \/ FlusherFindsNone \/ FlusherRest
    \/ FlusherWrites \/ FlusherFlushed \/ FlusherReturns

-----------------------------------------------------------------------------
\* External: the file, pipe or socket behind the log.
SinkChanges ==
    /\ sinkChanges < MaxSinkChanges
    /\ sink' \in SinkStates \ {sink}
    /\ sinkChanges' = sinkChanges + 1
    /\ UNCHANGED <<main, shard, queue, room, accepted, fl, fd, log, failed>>

\* main has returned.
Done == main.todo = <<>> /\ UNCHANGED vars

Next ==
    \/ MainStep \/ MainSigwait
    \/ \E s \in Shards : ShardLogs(s) \/ ShardExits(s)
    \/ FlusherStep \/ SinkChanges \/ Done

Spec == Init /\ [][Next]_vars

\* The threads are scheduled.  A stopped or draining shard leaves its loop: its
\* timer fires every second, and the drain has a deadline.
FairSpec ==
    /\ Spec /\ WF_vars(MainStep) /\ WF_vars(FlusherStep)
    /\ \A s \in Shards : WF_vars(ShardExits(s))

-----------------------------------------------------------------------------
(* Properties.                                                             *)

\* A shard thread runs on a mapped loop and pushes into a mapped ring; the
\* flusher pops from mapped rings and writes to an open file.
UsesWhatExists ==
    /\ \A s \in Shards : shard[s].thread = "run" => shard[s].loop /\ (Logging => shard[s].ring)
    /\ fl.thread = "run" => fd /\ \A s \in Shards : shard[s].ring

\* When run_shards returns, whichever step failed, no thread is left and every
\* loop and ring is released.
LeavesNothing ==
    main.todo = <<>> =>
        /\ fl.thread # "run"
        /\ \A s \in Shards : /\ ~shard[s].loop /\ ~shard[s].ring /\ ~shard[s].spawned
                             /\ shard[s].thread # "run"

\* "Final flush - drain all remaining entries": when run_shards returns 0 and the
\* sink took every write, the log holds each entry a ring accepted, once, as a
\* whole line, in its shard's order, and the end of the compressed frame.
\* Whatever fails on the way, no line is begun twice or before an older one of its
\* shard.
LogFaithful ==
    /\ main.todo = <<>> /\ main.rc = 0 /\ Logging /\ ~failed =>
         LET frame == IF Compress THEN SubSeq(log, 1, Len(log) - 1) ELSE log
         IN  /\ Compress => log # <<>> /\ log[Len(log)] = <<"end">>
             /\ \A s \in Shards :
                  SelectSeq(frame, LAMBDA u : u[1] = s)
                      = Lines([k \in 1..accepted[s] |-> <<s, k>>])
             /\ \A k \in 1..(Len(frame) \div 2) : frame[2 * k - 1][1] = frame[2 * k][1]
    /\ LET begun == SelectSeq(log, LAMBDA u : u # <<"end">> /\ u[3] = 1)
       IN  \A a, b \in 1..Len(begun) :
             a < b /\ begun[a][1] = begun[b][1] => begun[a][2] < begun[b][2]

\* Once the signal arrived or a step failed, run_shards returns, also when the
\* log's reader never takes another byte.
Exits == (\A k \in DOMAIN main.todo : main.todo[k][1] # "sigwait") ~> (main.todo = <<>>)
=============================================================================
