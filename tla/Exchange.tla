------------------------------ MODULE Exchange ------------------------------
(***************************************************************************)
(* One client connection served by the callbacks of callbacks_impl.h over  *)
(* the epoll backend: requests are read, answered locally, proxied to an   *)
(* upstream (bodies streamed in both directions) or handed to a JIT        *)
(* handler that may yield; pipelined requests are kept in the buffers.     *)
(*                                                                         *)
(* Bytes are units <<i, k>>: the k-th unit of request i (on the way in)    *)
(* or of the upstream's response to it (on the way back); <<i, 0>> is a    *)
(* response the gateway formats itself.  A buffer keeps the memory behind  *)
(* its length, because a send that met EAGAIN reads it later.              *)
(*                                                                         *)
(* An iteration of the loop is a wait that harvests events (sends and      *)
(* receives happen there), then a dispatch of each one in order.           *)
(***************************************************************************)
EXTENDS Integers, Sequences, SequencesExt, FiniteSetsExt

CONSTANT
    Scenarios    \* by name: what the client sends, the upstream answers, the
                 \* handlers return and the environment may do

EnvEvents ==
    {"drain",            \* the shard starts draining
     "idle",             \* a wheel tick finds the connection expired
     "client_eof", "client_reset", "upstream_eof", "upstream_reset",
     "refuse",           \* connect fails
     "no_socket",        \* socket() fails
     "no_slice",         \* the slice pool is exhausted
     "partial",          \* a send may find the socket buffer full
     "pending_connect",  \* connect may return EINPROGRESS
     "body_early",       \* request body arrives before the upstream has what precedes it
     "answer_early",     \* the upstream answers before it has the request
     "crowded"}          \* pending_completions may be full of others' events

ASSUME ExchangeAssumption ==
    \A name \in DOMAIN Scenarios :
        LET s == Scenarios[name]
        IN  /\ s.cap \in Nat \ {0}
            /\ s.yields \in Nat
            /\ s.env \subseteq EnvEvents
            /\ s.catchall \in {"default", "static", "proxy", "jit"}
            /\ Len(s.reqs) = Len(s.resps)
            /\ \A i \in 1..Len(s.reqs) :
                 /\ s.reqs[i].hdr >= 1
                 /\ s.reqs[i].chunked => s.reqs[i].body >= 1
                 /\ s.resps[i].hdr >= 1

VARIABLES
    sc,         \* the scenario, chosen once
    c,          \* the connection, its backend state and what its peers saw
    batch,      \* events of the current wait, in dispatch order
    waiting,    \* TRUE while wait() harvests
    seen,       \* fd directions already reported by the current wait
    draining

Reqs == Scenarios[sc].reqs          \* the client's requests: [route, hdr, body, chunked, bad]
Resps == Scenarios[sc].resps        \* the answers: [interim, hdr, body, mode, extra, bad, conn]
Cap == Scenarios[sc].cap            \* units a buffer holds (SlicePool::kSliceSize)
Outcomes == Scenarios[sc].outcomes  \* what a JIT handler may return
MaxYields == Scenarios[sc].yields   \* bound: waits of one handler
Env == Scenarios[sc].env            \* what peers and kernel may do
Catchall == Scenarios[sc].catchall  \* what the config has for "/"; "default" if nothing

vars == <<sc, c, batch, waiting, seen, draining>>

Null == "null"
NoSend == [buf |-> "none", off |-> 0, rem |-> 0, type |-> "none"]
NoSlots == [recv |-> Null, send |-> Null, urecv |-> Null, usend |-> Null]

Ev(type, res) == [type |-> type, res |-> res]

-----------------------------------------------------------------------------
(* Buffers: reset() only forgets the length. *)

Data(b) == SubSeq(b.mem, 1, b.len)

Reset(b) == [b EXCEPT !.len = 0]

Write(b, u) ==
    LET n == b.len + Len(u)
    IN  [mem |-> Data(b) \o u \o SubSeq(b.mem, n + 1, Len(b.mem)), len |-> n]

DropUnits(b, n) == Write(Reset(b), SubSeq(b.mem, n + 1, b.len))

(* Memory behind a buffer's length matters only to a send still reading it. *)
Settled(x) ==
    LET Cut(b, name) == IF x.ss.buf = name THEN b ELSE [b EXCEPT !.mem = Data(b)]
    IN  [x EXCEPT !.recv = Cut(x.recv, "recv"),
                  !.send = Cut(x.send, "send"),
                  !.up = Cut(x.up, "up")]

Buf(x, name) ==
    IF name = "recv" THEN x.recv ELSE IF name = "send" THEN x.send ELSE x.up

-----------------------------------------------------------------------------
(* The messages. *)

ReqLen(i) == Reqs[i].hdr + Reqs[i].body

(* All the client sends, in order. *)
UnitsOf(reqs) ==
    FlattenSeq([i \in 1..Len(reqs) |-> [k \in 1..(reqs[i].hdr + reqs[i].body) |-> <<i, k>>]])

Sent == [name \in DOMAIN Scenarios |-> UnitsOf(Scenarios[name].reqs)]

AllUnits == Sent[sc]

RespLen(i) == Resps[i].interim + Resps[i].hdr + Resps[i].body + Resps[i].extra

RespUnits(i) == [k \in 1..RespLen(i) |-> <<i, k>>]

(* A head is complete when its units are there, one after the other. *)
Parse(d, first, hdr) ==
    LET i == d[1][1]
        n == Min({Len(d), hdr})
    IN  IF d[1][2] # first \/ \E j \in 1..n : d[j] # <<i, first + j - 1>>
        THEN "Error"
        ELSE IF Len(d) >= hdr THEN "Complete" ELSE "Incomplete"

ReqParse(d) == IF d = <<>> THEN "Incomplete" ELSE Parse(d, 1, Reqs[d[1][1]].hdr)

Interims(d) == Cardinality({j \in 1..Len(d) : d[j][2] <= Resps[d[j][1]].interim})

RespParse(d) ==
    LET i == d[1][1]
        p == Parse(d, Resps[i].interim + 1, Resps[i].hdr)
    IN  IF p = "Complete" /\ Resps[i].bad = "head" THEN "Error" ELSE p

-----------------------------------------------------------------------------
(* The epoll backend: an immediate result is queued as a completion. *)

Queued(x, type, res) ==
    {[x EXCEPT !.pend = Append(@, Ev(type, res))]}
      \cup (IF "crowded" \in Env THEN {x} ELSE {})

(* The peer of a send has received its first n units. *)
Delivered(x, type, u) ==
    IF type = "Send" THEN [x EXCEPT !.cgot = @ \o u] ELSE [x EXCEPT !.ugot = @ \o u]

CanFail(type) ==
    IF type = "Send" THEN "client_reset" \in Env ELSE "upstream_reset" \in Env

(* add_send and add_send_upstream of the first n units of a buffer. *)
AddSend(x, name, n, type) ==
    LET u == SubSeq(Buf(x, name).mem, 1, n)
        Blocked(k) ==
            LET y == Delivered(x, type, SubSeq(u, 1, k))
                z == [y EXCEPT !.ss = [buf |-> name, off |-> k, rem |-> n - k, type |-> type]]
            IN  IF type = "Send" THEN [z EXCEPT !.cint = "RecvSend"]
                                 ELSE [z EXCEPT !.uint = "RecvSend"]
    IN  Queued(Delivered(x, type, u), type, n)
          \cup (IF "partial" \in Env THEN {Blocked(k) : k \in 0..(n - 1)} ELSE {})
          \cup (IF CanFail(type) THEN Queued(x, type, -1) ELSE {})

(* add_connect of a new upstream socket. *)
AddConnect(x) ==
    LET y == [x EXCEPT !.ufd = TRUE, !.ugot = <<>>, !.upos = 0, !.ueof = FALSE,
                       !.stale = @ \/ x.up.len > 0]
    IN  Queued([y EXCEPT !.uint = "Recv"], "UpstreamConnect", 0)
          \cup (IF "pending_connect" \in Env THEN {[y EXCEPT !.uint = "Connect"]} ELSE {})
          \cup (IF "refuse" \in Env
                THEN Queued([y EXCEPT !.uint = "none"], "UpstreamConnect", -1) ELSE {})

SubmitRecv(x) == [x EXCEPT !.cint = "Recv"]

SubmitRecvUpstream(x) == IF x.ufd THEN [x EXCEPT !.uint = "Recv"] ELSE x

PauseRecv(x) == [x EXCEPT !.cint = "Paused"]

CloseUpstream(x) == [x EXCEPT !.ufd = FALSE, !.uint = "none"]

UpCap(x) == IF x.bound THEN Cap ELSE 0

-----------------------------------------------------------------------------
(* The event loop's share of a connection. *)

SetSlots(x, r, s, ur, us) ==
    [x EXCEPT !.slots = [recv |-> r, send |-> s, urecv |-> ur, usend |-> us]]

EpochLeave(x) == [x EXCEPT !.epoch = @ - 1]

OnRequestComplete(x) == [x EXCEPT !.inReq = FALSE, !.cut = @ \/ x.rem > 0]

(* close_conn: the connection is reset, not what the backend has for its id. *)
CloseConn(x) ==
    LET y == IF x.inReq THEN EpochLeave(x) ELSE x
        e == [mem |-> <<>>, len |-> 0]
    IN  [y EXCEPT !.open = FALSE, !.slots = NoSlots, !.state = "Idle", !.handler = "none",
                  !.timer = "off", !.inReq = FALSE, !.ufd = FALSE, !.uint = "none",
                  !.cint = "none", !.recv = e, !.send = e, !.up = e, !.bound = FALSE,
                  !.stash = 0, !.depth = 0, !.rem = 0, !.respRem = 0, !.initLen = 0,
                  !.upSend = 0]

(* A response the gateway formats itself: the send buffer is overwritten. *)
Respond(x) ==
    AddSend([SetSlots(x, Null, "response_sent", Null, Null) EXCEPT
                 !.state = "Sending", !.handler = "none",
                 !.send = Write(Reset(@), <<<<x.req, 0>>>>)], "send", 1, "Send")

(* A 4xx/5xx answer after which the connection is closed. *)
Fail(x) == Respond([x EXCEPT !.keep = FALSE])

-----------------------------------------------------------------------------
(* JIT handlers. *)

(* Mutant: the deadline is not put on the heap. *)
ScheduleYieldTimer_NotArmed(x) == PauseRecv(x)

ScheduleYieldTimer(x) == PauseRecv([x EXCEPT !.timer = "armed"])

(* Mutant: a handler that waits keeps the callbacks of its phase. *)
Yielded_KeepsSlots(x, kind) ==
    [x EXCEPT !.state = "ExecHandler", !.handler = kind, !.yields = @ + 1]

Yielded(x, kind) ==
    [SetSlots(x, Null, Null, Null, Null) EXCEPT
        !.state = "ExecHandler", !.handler = kind, !.yields = @ + 1]

(* submit_connect of forward and of wait(upstream.connect()). *)
NoSocket(x) == IF "no_socket" \in Env THEN Fail(x) ELSE {}

OnOutcome(x, o) ==
    LET y == Yielded(x, o)
    IN  CASE o = "status" -> Respond(x)
          [] o \in {"error", "send"} -> Fail(x)
          [] o = "timer" -> {ScheduleYieldTimer(y)}
          [] o = "recv" -> {SubmitRecv(y)}
          [] o = "any" -> {SubmitRecv(ScheduleYieldTimer(y))}
          [] o = "connect" ->
               NoSocket(x) \cup {PauseRecv(z) : z \in AddConnect(CloseUpstream(y))}
          [] o = "usend" ->
               IF x.ufd THEN {PauseRecv(z) : z \in AddSend(y, "recv", x.recv.len, "UpstreamSend")}
                        ELSE Fail(x)
          [] o = "urecv" ->
               IF x.ufd THEN {PauseRecv(SubmitRecvUpstream(y))} ELSE Fail(x)
          [] o = "forward" ->
               LET z == [CloseUpstream(x) EXCEPT !.handler = "none"]
               IN  NoSocket(z) \cup
                   AddConnect([SetSlots(z, Null, Null, Null, "upstream_connected")
                                 EXCEPT !.state = "Proxying"])

(* invoke_jit_handler and handle_jit_outcome: a handler waits a bounded    *)
(* number of times, then answers.                                          *)
RunHandler(x) ==
    LET final == Outcomes \cap {"status", "forward", "error", "send"}
        allowed == IF x.yields < MaxYields THEN Outcomes ELSE final
    IN  UNION {OnOutcome([x EXCEPT !.state = "ExecHandler"], o) : o \in allowed}

ResumeJitHandler(x) == RunHandler(x)

-----------------------------------------------------------------------------
(* Reading a request. *)

(* capture_request_metadata: how much of the buffer is this request.  What *)
(* the parser does not take as a whole head is a request all the same,     *)
(* without a length or a body; an empty buffer too (the data of a Recv     *)
(* that on_response_sent reset).                                           *)
CaptureRequestMetadata(x) ==
    LET d == Data(x.recv)
        i == IF d = <<>> THEN x.req ELSE d[1][1]
        q == Reqs[i]
        used == Min({x.recv.len - q.hdr, q.body})
        malformed == q.chunked /\ q.bad \in 1..used
    IN  IF ReqParse(d) = "Complete"
        THEN [x EXCEPT !.req = i, !.hdrEnd = q.hdr, !.rem = q.body - used,
                       !.malformed = malformed,
                       !.initLen = IF malformed THEN 0 ELSE q.hdr + used]
        ELSE [x EXCEPT !.req = i, !.hdrEnd = 0, !.rem = 0, !.malformed = FALSE,
                       !.initLen = 0, !.cut = TRUE]

(* Where it is routed to.  Of a cut head the method and the path are used, *)
(* or what there is of them; anything else goes where "/" goes.            *)
Routes(x) ==
    LET d == Data(x.recv)
    IN  (IF d # <<>> /\ d[1][2] = 1 THEN {Reqs[d[1][1]].route} ELSE {})
          \cup (IF ReqParse(d) = "Complete" THEN {} ELSE {Catchall})

(* What on_header_received does before it routes the request. *)
BeginRequest(x) ==
    [CaptureRequestMetadata(x) EXCEPT
        !.inReq = TRUE, !.epoch = @ + 1, !.keep = ~draining, !.yields = 0]

StartProxy(x) ==
    NoSocket(x) \cup
    AddConnect([SetSlots(x, Null, Null, Null, "upstream_connected")
                  EXCEPT !.state = "Proxying"])

(* Mutant: the handler runs before its body has arrived. *)
StartHandler_NoBody(x) == RunHandler(x)

StartHandler(x) ==
    IF x.route = "jitbody" /\ x.hdrEnd > 0 /\ Reqs[x.req].chunked THEN Fail(x)
    ELSE IF x.route = "jitbody" /\ x.rem > 0
    THEN {SubmitRecv([SetSlots(x, "jit_request_body_recvd", Null, Null, Null)
                        EXCEPT !.state = "ReadingBody"])}
    ELSE RunHandler(x)

(* A callback that ends by calling another leaves the call to dispatch. *)
TailCall(x, name, res) == {[x EXCEPT !.tail = <<name, res>>]}

(* Mutant: the callback is set, no recv is submitted. *)
AwaitHeader_NoSubmit(x) ==
    [SetSlots(x, "header_received", Null, Null, Null) EXCEPT !.state = "ReadingHeader"]

AwaitHeader(x) ==
    SubmitRecv([SetSlots(x, "header_received", Null, Null, Null)
                  EXCEPT !.state = "ReadingHeader"])

(* on_header_received from the route on *)
Routed(x) ==
    CASE x.route = "proxy" -> StartProxy(x)
      [] x.route \in {"static", "default"} -> Respond(x)
      [] x.route \in {"jit", "jitbody"} -> StartHandler(x)

OnHeaderReceived(x, res) ==
    CASE res <= 0 -> {CloseConn(x)}
      [] res > 0 /\ x.depth > 0 /\ ReqParse(Data(x.recv)) = "Incomplete" -> {AwaitHeader(x)}
      [] OTHER -> UNION {Routed([BeginRequest(x) EXCEPT !.route = r]) : r \in Routes(x)}

(* The event's result is counted, not what is in the buffer: a Recv that   *)
(* was reported together with the Send before this request is counted      *)
(* again.                                                                  *)
OnJitRequestBodyRecvd(x, res) ==
    LET used == Min({res, x.rem})
        y == [x EXCEPT !.rem = @ - used, !.initLen = @ + used,
                       !.cut = @ \/ x.initLen + used > x.recv.len]
    IN  CASE res <= 0 \/ x.rem = 0 -> {CloseConn(x)}
          [] res > 0 /\ used < x.rem ->
               {SubmitRecv([SetSlots(y, "jit_request_body_recvd", Null, Null, Null)
                              EXCEPT !.state = "ReadingBody"])}
          [] OTHER -> RunHandler(y)

PipelineLeftover(x) ==
    IF x.initLen = 0 \/ x.initLen >= x.recv.len THEN 0 ELSE x.recv.len - x.initLen

PipelineStash(x) ==
    LET n == PipelineLeftover(x)
    IN  IF n = 0 THEN [x EXCEPT !.stash = 0]
        ELSE [x EXCEPT !.stash = n,
                       !.send = Write(Reset(@), SubSeq(x.recv.mem, x.initLen + 1, x.recv.len))]

PipelineDispatch(x) ==
    TailCall([x EXCEPT !.state = "ReadingHeader"], "header_received", x.recv.len)

(* A request read after another: pipeline_depth is what tells them apart. *)
Pipelined(x) == PipelineDispatch([x EXCEPT !.depth = @ + 1])

AwaitNext(x) == AwaitHeader([x EXCEPT !.depth = 0, !.recv = Reset(@)])

OnResponseSent(x, res) ==
    LET y == CloseUpstream(EpochLeave(OnRequestComplete(
                 SetSlots(x, Null, Null, Null, Null))))
    IN  CASE res < 0 \/ res # x.send.len -> {CloseConn(SetSlots(x, Null, Null, Null, Null))}
          [] res = x.send.len /\ ~x.keep -> {CloseConn(y)}
          [] res = x.send.len /\ x.keep /\ PipelineLeftover(x) > 0 ->
               Pipelined([y EXCEPT !.recv = DropUnits(@, x.initLen)])
          [] OTHER -> {AwaitNext(y)}

-----------------------------------------------------------------------------
(* The response on its way back to the client. *)

(* Body units of the response among n received ones. *)
BodyIn(i, n) ==
    CASE Resps[i].mode = "None" -> 0
      [] Resps[i].mode \in {"ContentLength", "Chunked"} -> Min({n, Resps[i].body})
      [] Resps[i].mode = "UntilClose" -> n

(* The response goes out with "Connection: close" put in its head; the     *)
(* chunked body is copied as it is.                                        *)
InjectClose(x, i, done) ==
    LET got == x.up.len - Resps[i].hdr
        n == Resps[i].hdr + IF Resps[i].mode = "Chunked" THEN got ELSE BodyIn(i, got)
    IN  AddSend([SetSlots(x, Null, IF done THEN "response_sent" ELSE "response_header_sent",
                          Null, Null)
                   EXCEPT !.send = Write(Reset(@), SubSeq(x.up.mem, 1, n)),
                          !.keep = FALSE, !.state = "Sending", !.upSend = x.up.len],
                "send", n, "Send")

InjectFits(x, i) ==
    LET got == x.up.len - Resps[i].hdr
    IN  Resps[i].hdr + 1 + (IF Resps[i].mode = "Chunked" THEN got ELSE BodyIn(i, got)) <= Cap

(* A complete head of the response to request i is at the buffer's front. *)
OnResponseHead(x, i) ==
    LET r == Resps[i]
        got == x.up.len - r.hdr
        used == BodyIn(i, got)
        counted == r.mode \in {"ContentLength", "Chunked"}
        done == r.mode = "None" \/ (counted /\ used = r.body)
        y == [x EXCEPT !.respMode = r.mode, !.respRem = IF counted THEN r.body - used ELSE 0]
    IN  CASE r.mode = "Chunked" /\ r.bad = "chunk" /\ got > 0 -> Fail(CloseUpstream(x))
          [] ~(r.mode = "Chunked" /\ r.bad = "chunk" /\ got > 0)
               /\ draining /\ ~r.conn /\ InjectFits(x, i) -> InjectClose(y, i, done)
          [] OTHER ->
               AddSend([SetSlots(y, Null, IF done THEN "proxy_response_sent"
                                                  ELSE "response_header_sent", Null, Null)
                          EXCEPT !.state = "Sending", !.upSend = r.hdr + used],
                       "up", r.hdr + used, "Send")

OnUpstreamResponse(x, res) ==
    LET m == Interims(Data(x.up))
        y == [x EXCEPT !.up = DropUnits(@, m)]
        p == RespParse(Data(y.up))
    IN  CASE x.up.len = 0 -> IF res <= 0 THEN {CloseConn(x)} ELSE {SubmitRecvUpstream(x)}
          [] x.up.len > 0 /\ y.up.len = 0 -> {SubmitRecvUpstream(y)}
          [] OTHER ->
               CASE p = "Complete" -> OnResponseHead(y, y.up.mem[1][1])
                 [] p = "Incomplete" /\ res > 0 -> {SubmitRecvUpstream(y)}
                 [] p = "Error" \/ (p = "Incomplete" /\ res <= 0) -> Fail(CloseUpstream(y))

(* pipeline recovery once a proxied exchange is over: the stashed units,   *)
(* the late ones, or both.                                                 *)
NextRequest(x) ==
    LET stashed == SubSeq(x.send.mem, 1, x.stash)
        y == [x EXCEPT !.stash = 0, !.send = Reset(@)]
    IN  CASE x.stash > 0 /\ x.recv.len > 0 /\ x.stash + x.recv.len > Cap -> {CloseConn(x)}
          [] x.stash > 0 /\ x.stash + x.recv.len <= Cap ->
               Pipelined([y EXCEPT !.recv = Write(Reset(@), stashed \o Data(@))])
          [] x.stash = 0 /\ x.recv.len > 0 -> Pipelined(x)
          [] OTHER -> {AwaitNext(x)}

(* The exchange is over and its upstream connection with it. *)
Finished(x) ==
    CloseUpstream(EpochLeave(OnRequestComplete(
        [SetSlots(x, Null, Null, Null, Null) EXCEPT !.up = Reset(@)])))

OnProxyResponseSent(x, res) ==
    CASE res < 0 -> {CloseConn(x)}
      [] res >= 0 /\ draining -> {CloseConn(Finished(x))}
      [] OTHER -> NextRequest(Finished(x))

OnResponseBodyRecvd(x, res) ==
    LET i == x.up.mem[1][1]
        n == IF x.respMode = "UntilClose" THEN x.up.len ELSE Min({x.up.len, x.respRem})
    IN  CASE res <= 0 -> {CloseConn(IF x.respMode = "UntilClose"
                                    THEN EpochLeave(OnRequestComplete(x)) ELSE x)}
          [] res > 0 /\ x.respMode = "Chunked" /\ Resps[i].bad = "chunk" -> {CloseConn(x)}
          [] OTHER ->
               AddSend([SetSlots(x, Null, "response_body_sent", Null, Null)
                          EXCEPT !.state = "Sending", !.upSend = n,
                                 !.respRem = IF x.respMode = "UntilClose" THEN 0 ELSE @ - n],
                       "up", n, "Send")

(* Mutant: the forwarded bytes stay counted as still to come. *)
StreamOn_NotConsumed(x) ==
    OnResponseBodyRecvd(SetSlots(x, Null, Null, "response_body_recvd", Null), x.up.len)

(* consume_upstream_sent, then stream what is left or wait for more. *)
StreamOn(x) ==
    LET y == [SetSlots(x, Null, Null, "response_body_recvd", Null) EXCEPT !.upSend = 0]
    IN  IF x.upSend >= x.up.len
        THEN {SubmitRecvUpstream([y EXCEPT !.up = Reset(@)])}
        ELSE OnResponseBodyRecvd([y EXCEPT !.up = DropUnits(@, x.upSend)], x.up.len - x.upSend)

OnResponseHeaderSent(x, res) == IF res <= 0 THEN {CloseConn(x)} ELSE StreamOn(x)

OnResponseBodySent(x, res) ==
    LET done == x.respMode \in {"ContentLength", "Chunked"} /\ x.respRem = 0
    IN  CASE res <= 0 -> {CloseConn(x)}
          [] res > 0 /\ ~done -> StreamOn(x)
          [] res > 0 /\ done /\ (~x.keep \/ draining) -> {CloseConn(Finished(x))}
          [] OTHER -> NextRequest([Finished(x) EXCEPT !.upSend = 0])

-----------------------------------------------------------------------------
(* The request on its way to the upstream. *)

(* Mutant: all of recv_buf is sent, a pipelined request included. *)
OnUpstreamConnected_WholeBuffer(x, res) ==
    IF res < 0 THEN Fail(x)
    ELSE AddSend(SetSlots([x EXCEPT !.bound = TRUE, !.state = "Proxying"], Null, Null,
                          "early_upstream_recvd_send_inflight", "upstream_request_sent"),
                 "recv", x.recv.len, "UpstreamSend")

OnUpstreamConnected(x, res) ==
    LET n == IF x.initLen > 0 THEN Min({x.initLen, x.recv.len}) ELSE x.recv.len
        y == [x EXCEPT !.bound = TRUE, !.state = "Proxying"]
    IN  CASE res < 0 -> Fail(x)
          [] res >= 0 /\ x.malformed -> {CloseConn(x)}
          [] OTHER ->
               (IF "no_slice" \in Env /\ ~x.bound THEN {CloseConn(x)} ELSE {}) \cup
               AddSend(SetSlots(y, Null, Null, "early_upstream_recvd_send_inflight",
                                "upstream_request_sent"), "recv", n, "UpstreamSend")

(* prepare_early_response_state *)
PrepareEarlyResponse(x) ==
    LET y == IF x.rem > 0 THEN [x EXCEPT !.keep = FALSE] ELSE PipelineStash(x)
    IN  SetSlots([y EXCEPT !.recv = Reset(@)], Null, Null, "upstream_response", Null)

(* Units of the upstream's response that can be read now: half a request   *)
(* is not answered.                                                        *)
UpAvailable(x) ==
    IF x.hdrEnd = 0 \/ ~x.ufd THEN 0
    ELSE IF "answer_early" \in Env \/ Len(x.ugot) >= ReqLen(x.req)
         THEN RespLen(x.req) - x.upos ELSE 0

ReadUpstream(x, n) ==
    [x EXCEPT !.up = Write(@, SubSeq(RespUnits(x.req), x.upos + 1, x.upos + n)),
              !.upos = @ + n]

(* A send to the upstream failed: an answer it sent before is forwarded,   *)
(* read directly from the socket if need be.                               *)
SendFailed(x) ==
    LET room == Min({UpCap(x), UpAvailable(x)})
        Forward(y, n) == TailCall(PrepareEarlyResponse(y), "upstream_response", n)
    IN  CASE x.up.len > 0 -> Forward(x, x.up.len)
          [] x.up.len = 0 /\ room = 0 -> {CloseConn(x)}
          [] OTHER -> UNION {Forward(ReadUpstream(x, n), n) : n \in 1..room}

StreamRequestBody(x) ==
    {SubmitRecvUpstream(SubmitRecv(
        SetSlots([x EXCEPT !.recv = Reset(@)],
                 "request_body_recvd", Null, "early_upstream_recvd", Null)))}

AwaitResponse(x) ==
    LET y == SetSlots([PipelineStash(x) EXCEPT !.recv = Reset(@)],
                      Null, Null, "upstream_response", Null)
    IN  IF x.up.len > 0 THEN TailCall(y, "upstream_response", x.up.len)
        ELSE {SubmitRecvUpstream(y)}

OnUpstreamRequestSent(x, res) ==
    CASE res < 0 -> SendFailed(x)
      [] res >= 0 /\ x.rem > 0 -> StreamRequestBody(x)
      [] OTHER -> AwaitResponse(x)

OnRequestBodySent(x, res) ==
    CASE res <= 0 -> SendFailed(x)
      [] res > 0 /\ x.rem > 0 -> StreamRequestBody(x)
      [] OTHER -> AwaitResponse(x)

OnRequestBodyRecvd(x, res) ==
    LET n == Min({x.recv.len, x.rem})
        at == Reqs[x.req].body - x.rem
        bad == Reqs[x.req].chunked /\ Reqs[x.req].bad \in (at + 1)..(at + n)
    IN  IF res <= 0 \/ bad THEN {CloseConn(x)}
        ELSE AddSend([SetSlots(x, Null, Null, "early_upstream_recvd_send_inflight",
                               "request_body_sent")
                        EXCEPT !.rem = @ - n, !.initLen = n], "recv", n, "UpstreamSend")

(* handle_early_upstream_recv: the upstream answers before the request is  *)
(* out; its answer is forwarded once no send to it is in flight.           *)
HandleEarlyUpstreamRecv(x, res, inflight) ==
    LET m == Interims(Data(x.up))
        y == [x EXCEPT !.up = DropUnits(@, m)]
        more == IF inflight THEN y ELSE SubmitRecvUpstream(y)
        Defer(z) == [z EXCEPT !.slots.usend = "body_send_with_early_response",
                              !.slots.urecv = Null]
    IN  CASE res <= 0 -> IF x.up.len = 0 THEN CloseConn(x) ELSE Defer(x)
          [] res > 0 /\ y.up.len = 0 -> more
          [] OTHER -> IF RespParse(Data(y.up)) = "Incomplete" THEN more ELSE Defer(y)

OnBodySendWithEarlyResponse(x) ==
    LET y == PrepareEarlyResponse(x)
        d == Data(x.up)
        whole == d[1][2] <= Resps[d[1][1]].interim \/ RespParse(d) # "Incomplete"
    IN  TailCall(y, "upstream_response", IF whole THEN x.up.len ELSE 0)

OnEarlyUpstreamRecvd(x, res) ==
    LET y == HandleEarlyUpstreamRecv(x, res, FALSE)
    IN  IF y.slots.usend = "body_send_with_early_response"
        THEN OnBodySendWithEarlyResponse(y) ELSE {y}

-----------------------------------------------------------------------------
(* Dispatch. *)

Callback(x, name, res) ==
    CASE name = "header_received" -> OnHeaderReceived(x, res)
      [] name = "jit_request_body_recvd" -> OnJitRequestBodyRecvd(x, res)
      [] name = "request_body_recvd" -> OnRequestBodyRecvd(x, res)
      [] name = "response_sent" -> OnResponseSent(x, res)
      [] name = "proxy_response_sent" -> OnProxyResponseSent(x, res)
      [] name = "response_header_sent" -> OnResponseHeaderSent(x, res)
      [] name = "response_body_sent" -> OnResponseBodySent(x, res)
      [] name = "upstream_response" -> OnUpstreamResponse(x, res)
      [] name = "response_body_recvd" -> OnResponseBodyRecvd(x, res)
      [] name = "early_upstream_recvd" -> OnEarlyUpstreamRecvd(x, res)
      [] name = "early_upstream_recvd_send_inflight" ->
           {HandleEarlyUpstreamRecv(x, res, TRUE)}
      [] name = "upstream_connected" -> OnUpstreamConnected(x, res)
      [] name = "upstream_request_sent" -> OnUpstreamRequestSent(x, res)
      [] name = "request_body_sent" -> OnRequestBodySent(x, res)
      [] name = "body_send_with_early_response" -> OnBodySendWithEarlyResponse(x)

HandleUnhandledRecv(x, res) ==
    LET y == IF x.keep THEN x ELSE [x EXCEPT !.recv = Reset(@)]
    IN  CASE res > 0 -> IF x.slots.send = Null THEN SubmitRecv(y) ELSE y
          [] res < 0 -> CloseConn(x)
          [] res = 0 -> x

(* The call a callback ended with. *)
Continued(x) ==
    LET y == [x EXCEPT !.tail = <<>>]
    IN  CASE x.tail = <<>> -> {x}
          [] x.tail # <<>> /\ x.tail[1] = "header_received" -> OnHeaderReceived(y, x.tail[2])
          [] x.tail # <<>> /\ x.tail[1] = "upstream_response" -> OnUpstreamResponse(y, x.tail[2])

(* The slot of an event's type. *)
SlotOf(x, type) ==
    CASE type = "Recv" -> x.slots.recv
      [] type = "Send" -> x.slots.send
      [] type = "UpstreamRecv" -> x.slots.urecv
      [] type \in {"UpstreamSend", "UpstreamConnect"} -> x.slots.usend

(* dispatch_event *)
DispatchEvent(x, e) ==
    CASE SlotOf(x, e.type) # Null ->
           UNION {Continued(y) : y \in Callback(x, SlotOf(x, e.type), e.res)}
      [] SlotOf(x, e.type) = Null /\ e.type = "Recv" -> {HandleUnhandledRecv(x, e.res)}
      [] OTHER ->
           IF e.type = "UpstreamRecv" /\ e.res < 0 /\ x.state # "ReadingHeader"
           THEN {CloseConn(x)} ELSE {x}

(* Mutant: any event resumes a waiting handler. *)
Matches_Any(kind, type) == TRUE

(* yield_kind_matches_event *)
Matches(kind, type) ==
    \/ kind \in {"recv", "any"} /\ type = "Recv"
    \/ kind = "connect" /\ type = "UpstreamConnect"
    \/ kind = "usend" /\ type = "UpstreamSend"
    \/ kind = "urecv" /\ type = "UpstreamRecv"

(* EpollEventLoop::dispatch: timer events first, then the connection's.    *)
(* drain_yield_heap resumes a handler whose deadline has passed; a wheel   *)
(* tick closes a connection whose entry has expired.                       *)
Dispatched(x, e) ==
    LET timer == e.type \in {"HandlerTimer", "Timeout"}
        waits == x.slots = NoSlots /\ x.handler # "none" /\ ~timer
        resumed == \/ e.type = "HandlerTimer" /\ x.timer = "due"
                   \/ waits /\ Matches(x.handler, e.type)
        dropped == \/ e.type = "Timeout" /\ x.timer = "off" /\ x.open
                   \/ waits /\ e.type = "Recv" /\ e.res <= 0
    IN  CASE resumed -> ResumeJitHandler([x EXCEPT !.timer = "off"])
          [] ~resumed /\ dropped -> {CloseConn(x)}
          [] ~timer /\ x.slots # NoSlots -> DispatchEvent(x, e)
          [] OTHER -> {x}

(* The next wait starts with the queued completions, last one first. *)
Dispatch ==
    /\ ~waiting
    /\ \E x \in Dispatched(c, Head(batch)) :
         LET last == Len(batch) = 1
         IN  /\ c' = Settled(IF last THEN [x EXCEPT !.pend = <<>>] ELSE x)
             /\ batch' = IF last THEN Reverse(x.pend) ELSE Tail(batch)
             /\ waiting' = last
             /\ seen' = IF last THEN {} ELSE seen
    /\ UNCHANGED <<sc, draining>>

-----------------------------------------------------------------------------
(* wait(): what one epoll_wait reports of the two sockets.  A socket's     *)
(* report is a set of <<connection, events>>: its read, then its write.    *)

WantsBody(x) == x.slots.recv \in {"request_body_recvd", "jit_request_body_recvd"}

(* What the client has sent and the gateway has not read.  Body units that *)
(* arrive while those before them are on the way to the upstream are lost; *)
(* only "body_early" has them.                                             *)
ClientAvailable(x) ==
    IF x.ceof \/ ("body_early" \notin Env /\ x.state = "Proxying" /\ x.rem > 0 /\ ~WantsBody(x))
    THEN 0 ELSE Len(AllUnits) - x.cpos

ReadClient(x, n) ==
    [x EXCEPT !.recv = Write(@, SubSeq(AllUnits, x.cpos + 1, x.cpos + n)), !.cpos = @ + n]

ClientReads(x) ==
    LET room == Cap - x.recv.len
        avail == ClientAvailable(x)
        end == x.ceof \/ "client_eof" \in Env
    IN  (IF x.cint \in {"Recv", "RecvSend"}
         THEN {<<ReadClient(x, n), <<Ev("Recv", n)>>>> : n \in 1..Min({room, avail})}
                \cup (IF room = 0 /\ avail > 0 THEN {<<x, <<Ev("Recv", -1)>>>>} ELSE {})
         ELSE {})
        \cup (IF end THEN {<<[x EXCEPT !.ceof = TRUE], <<Ev("Recv", IF room = 0 THEN -1 ELSE 0)>>>>}
                     ELSE {})
        \cup (IF "client_reset" \in Env THEN {<<x, <<Ev("Recv", -1)>>>>} ELSE {})

UpstreamReads(x) ==
    LET room == UpCap(x) - x.up.len
        avail == IF x.ueof THEN 0 ELSE UpAvailable(x)
        end == x.ueof \/ "upstream_eof" \in Env \/ x.hdrEnd = 0 \/ x.upos = RespLen(x.req)
    IN  {<<ReadUpstream(x, n), <<Ev("UpstreamRecv", n)>>>> : n \in 1..Min({room, avail})}
          \cup (IF room = 0 /\ avail > 0 THEN {<<x, <<Ev("UpstreamRecv", -1)>>>>} ELSE {})
          \cup (IF end THEN {<<[x EXCEPT !.ueof = TRUE],
                               <<Ev("UpstreamRecv", IF room = 0 THEN -1 ELSE 0)>>>>} ELSE {})
          \cup (IF "upstream_reset" \in Env THEN {<<x, <<Ev("UpstreamRecv", -1)>>>>} ELSE {})

(* handle_epollout: the rest of the connection's one outstanding send; a   *)
(* socket polled for output without one is polled for input only.          *)
Writes(x, fd) ==
    LET s == x.ss
        u(k) == SubSeq(Buf(x, s.buf).mem, s.off + 1, s.off + k)
        Rearm(y, which) == IF which = "client" THEN [y EXCEPT !.cint = "Recv"]
                                               ELSE [y EXCEPT !.uint = "Recv"]
        idle == Rearm([x EXCEPT !.ss = NoSend], IF s.type = "Send" THEN "client" ELSE "upstream")
    IN  IF s.rem = 0 THEN {<<Rearm(x, fd), <<>>>>}
        ELSE {<<Delivered(idle, s.type, u(s.rem)), <<Ev(s.type, s.off + s.rem)>>>>}
               \cup {<<[Delivered(x, s.type, u(k)) EXCEPT !.ss.off = @ + k, !.ss.rem = @ - k],
                       <<>>>> : k \in 1..(s.rem - 1)}
               \cup (IF CanFail(s.type) THEN {<<idle, <<Ev(s.type, -1)>>>>} ELSE {})

(* Either or both of a socket's directions are ready. *)
Reports(x, fd, reads, writable) ==
    IF ~writable THEN reads
    ELSE reads \cup Writes(x, fd)
           \cup UNION {{<<v[1], r[2] \o v[2]>> : v \in Writes(r[1], fd)} : r \in reads}

ClientReport(x) == Reports(x, "client", ClientReads(x), x.cint = "RecvSend")

UpstreamReport(x) ==
    CASE x.uint = "Connect" ->
           {<<x, <<Ev("UpstreamConnect", r)>>>> :
              r \in {0} \cup (IF "refuse" \in Env THEN {-1} ELSE {})}
      [] x.uint \in {"Recv", "RecvSend"} ->
           Reports(x, "upstream", UpstreamReads(x), x.uint = "RecvSend")
      [] x.uint = "none" -> {}

Harvest(fd, report) ==
    /\ waiting
    /\ c.open
    /\ fd \notin seen
    /\ \E r \in report :
         /\ r # <<c, <<>>>>
         /\ c' = Settled(r[1])
         /\ batch' = batch \o r[2]
    /\ seen' = seen \cup {fd}
    /\ UNCHANGED <<sc, waiting, draining>>

HarvestClient == Harvest("client", ClientReport(c))

HarvestUpstream == Harvest("upstream", UpstreamReport(c))

HarvestYieldTimer ==
    /\ waiting
    /\ "yield" \notin seen
    /\ c.timer = "armed"
    /\ c' = [c EXCEPT !.timer = "due"]
    /\ batch' = Append(batch, Ev("HandlerTimer", 0))
    /\ seen' = seen \cup {"yield"}
    /\ UNCHANGED <<sc, waiting, draining>>

HarvestTick ==
    /\ "idle" \in Env
    /\ waiting
    /\ c.open
    /\ "tick" \notin seen
    /\ batch' = Append(batch, Ev("Timeout", 0))
    /\ seen' = seen \cup {"tick"}
    /\ UNCHANGED <<sc, c, waiting, draining>>

(* wait() returns; the loop calls it again when there is nothing to do. *)
WaitReturns ==
    /\ waiting
    /\ batch # <<>> \/ seen # {}
    /\ waiting' = (batch = <<>>)
    /\ seen' = IF batch = <<>> THEN {} ELSE seen
    /\ UNCHANGED <<sc, c, batch, draining>>

(* drain() is called from another thread, at any moment. *)
StartDrain ==
    /\ "drain" \in Env
    /\ ~draining
    /\ draining' = TRUE
    /\ UNCHANGED <<sc, c, batch, waiting, seen>>

(* on_accept *)
Init ==
    /\ sc \in DOMAIN Scenarios
    /\ c = [open |-> TRUE, state |-> "ReadingHeader",
            slots |-> [NoSlots EXCEPT !.recv = "header_received"],
            keep |-> TRUE, depth |-> 0, inReq |-> FALSE, epoch |-> 0,
            req |-> 0, route |-> "default", hdrEnd |-> 0, cut |-> FALSE, stale |-> FALSE,
            initLen |-> 0, rem |-> 0, malformed |-> FALSE, stash |-> 0,
            respMode |-> "None", respRem |-> 0, upSend |-> 0,
            handler |-> "none", yields |-> 0, timer |-> "off",
            recv |-> [mem |-> <<>>, len |-> 0], send |-> [mem |-> <<>>, len |-> 0],
            up |-> [mem |-> <<>>, len |-> 0], bound |-> FALSE,
            cint |-> "Recv", uint |-> "none", ufd |-> FALSE, ss |-> NoSend, pend |-> <<>>,
            cpos |-> 0, ceof |-> FALSE, cgot |-> <<>>,
            upos |-> 0, ueof |-> FALSE, ugot |-> <<>>, tail |-> <<>>]
    /\ batch = <<>>
    /\ waiting = TRUE
    /\ seen = {}
    /\ draining = FALSE

Next ==
    \/ HarvestClient
    \/ HarvestUpstream
    \/ HarvestYieldTimer
    \/ HarvestTick
    \/ WaitReturns
    \/ Dispatch
    \/ StartDrain

Spec == Init /\ [][Next]_vars

(* The loop keeps running, and epoll reports a socket that stays ready:    *)
(* weak fairness of the loop and strong fairness of each report, with the  *)
(* conditions under which they are enabled written out.                    *)
Ready(fd, report) == waiting /\ c.open /\ fd \notin seen /\ report \ {<<c, <<>>>>} # {}

FairSpec ==
    /\ Spec
    /\ []<><<Dispatch \/ WaitReturns>>_vars \/ []<>(waiting /\ batch = <<>> /\ seen = {})
    /\ []<><<HarvestClient>>_vars \/ <>[]~Ready("client", ClientReport(c))
    /\ []<><<HarvestUpstream>>_vars \/ <>[]~Ready("upstream", UpstreamReport(c))
    /\ []<><<HarvestYieldTimer>>_vars \/ <>[]~(waiting /\ "yield" \notin seen /\ c.timer = "armed")

-----------------------------------------------------------------------------
(* Properties. *)

(* The upstream of a proxied request receives its units in order and       *)
(* without a gap, through connecting, partial sends, body streaming and    *)
(* the reuse of recv_buf for pipelined data (on_upstream_connected,        *)
(* on_request_body_recvd); of what was taken for a request without a whole *)
(* head, a run of what the client sent.                                    *)
UpstreamGetsRequest ==
    c.ufd /\ c.route = "proxy" =>
        /\ \E p \in 0..(Len(AllUnits) - Len(c.ugot)) :
             c.ugot = SubSeq(AllUnits, p + 1, p + Len(c.ugot))
        /\ c.hdrEnd > 0 => /\ Len(c.ugot) <= ReqLen(c.req)
                           /\ c.ugot # <<>> => c.ugot[1] = <<c.req, 1>>

(* The last unit of the response to request i that is the client's. *)
LastUnit(i) == Resps[i].interim + Resps[i].hdr + Resps[i].body

(* b starts the response to request i. *)
Starts(b, i) == b[1] = i /\ b[2] \in {0, Resps[i].interim + 1}

Follows(a, b) ==
    IF a[2] \in {0, LastUnit(a[1])}
    THEN \E i \in IF c.cut THEN a[1]..Len(Reqs) ELSE {a[1] + 1} : Starts(b, i)
    ELSE b = <<a[1], a[2] + 1>>

(* The client receives, for each of its requests in order, one whole       *)
(* response, its own or the gateway's, with no interim head and no byte    *)
(* past its end; only the last may be cut short.  Two things the code does *)
(* are excepted.  A request answered before all of it has arrived (a head  *)
(* in two reads that is not behind another request, the body of a request  *)
(* answered locally, an upstream that answers early, a body counted        *)
(* twice): on_header_received takes the rest for another request, so from  *)
(* then on a request may get two answers or none, each still whole and in  *)
(* order.  And bytes that a handler's upstream left in upstream_recv_buf,  *)
(* which on_response_sent does not reset: the next upstream's response     *)
(* starts with them.                                                       *)
ClientGetsResponses ==
    ~c.stale =>
        /\ c.cgot # <<>> => Starts(c.cgot[1], 1)
        /\ \A j \in 1..(Len(c.cgot) - 1) : Follows(c.cgot[j], c.cgot[j + 1])

(* State and callback slots agree, as docs/testing.md lists them; the      *)
(* epoch is entered exactly while a request is in flight (epoch_enter and  *)
(* epoch_leave against req_start_us on every path); and a connection that  *)
(* cleared keep_alive does not go back to reading headers, unless an       *)
(* upstream answered early: on_proxy_response_sent does not look at it.    *)
StateMatchesSlots ==
    /\ c.epoch = IF c.inReq THEN 1 ELSE 0
    /\ LET only(s) == c.slots = [NoSlots EXCEPT !.send = s]
       IN  CASE c.state = "Idle" -> c.slots = NoSlots /\ ~c.open /\ ~c.ufd
             [] c.state = "ReadingHeader" ->
                  /\ c.slots = [NoSlots EXCEPT !.recv = "header_received"] /\ ~c.inReq
                  /\ c.keep \/ c.cut
             [] c.state = "ReadingBody" ->
                  c.slots = [NoSlots EXCEPT !.recv = "jit_request_body_recvd"]
             [] c.state = "Proxying" ->
                  /\ c.ufd
                  /\ c.slots.send = Null
                  /\ c.slots.usend # Null \/ c.slots.urecv # Null
             [] c.state = "Sending" ->
                  \/ only(c.slots.send) /\ c.slots.send # Null
                  \/ c.slots = [NoSlots EXCEPT !.urecv = "response_body_recvd"]
             [] c.state = "ExecHandler" -> c.slots = NoSlots /\ c.handler # "none"

(* wait() reports the end of an operation that a callback or a handler     *)
(* started and still awaits, once (Proactor model, io_backend.h), and a    *)
(* send the kernel has not finished has one too: send_state is one slot    *)
(* for both sockets.  Only a connect that was in progress is reported      *)
(* again, by every wait until the socket's interest changes.               *)
CompletionAwaited ==
    LET types == {c.ss.type} \cup (IF waiting THEN {} ELSE {Head(batch).type})
    IN  c.open =>
        /\ "Send" \in types => c.slots.send # Null
        /\ "UpstreamSend" \in types => c.slots.usend # Null \/ c.handler = "usend"
        /\ "UpstreamConnect" \in types /\ "pending_connect" \notin Env =>
             c.slots.usend = "upstream_connected" \/ c.handler = "connect"

(* Every open connection waits for something that can still happen: data   *)
(* from a socket it polls, an outstanding send, a queued completion or a   *)
(* deadline.  A completion that pending_completions had no room for is     *)
(* lost, and its connection waits for the keepalive timer.                 *)
NotStuck ==
    c.open /\ waiting /\ batch = <<>> /\ "crowded" \notin Env =>
        \/ c.slots.recv # Null /\ c.cint \in {"Recv", "RecvSend"}
        \/ c.slots.send # Null /\ c.ss.type = "Send" /\ c.cint = "RecvSend"
        \/ c.slots.urecv # Null /\ c.uint \in {"Recv", "RecvSend"}
        \/ c.slots.usend # Null /\ c.ss.type = "UpstreamSend" /\ c.uint = "RecvSend"
        \/ c.slots.usend = "upstream_connected" /\ c.uint = "Connect"
        \/ c.handler \in {"timer", "any"} /\ c.timer = "armed"
        \/ c.handler = "recv" /\ c.cint = "Recv"
        \/ c.handler = "connect" /\ c.uint = "Connect"
        \/ c.handler = "usend" /\ c.uint = "RecvSend"
        \/ c.handler = "urecv" /\ c.uint = "Recv"

(* A handler that needs the request body runs when the body is there       *)
(* (on_jit_request_body_recvd), unless a request came with half a head     *)
(* (that one has no body to wait for) or a Recv was counted twice.         *)
HandlerGetsBody ==
    ~c.cut => \A j \in 1..Len(c.cgot) :
        LET i == c.cgot[j][1]
        IN  c.cgot[j][2] = 0 /\ i > 0 /\ Reqs[i].route = "jitbody" /\ ~Reqs[i].chunked =>
              <<i, ReqLen(i)>> \in {AllUnits[k] : k \in 1..c.cpos}

(* When nothing fails and the buffers hold what is sent, every request is  *)
(* answered in full, without the connection being closed on the way (with  *)
(* the exceptions of ClientGetsResponses).                                 *)
AllAnswered ==
    Env \subseteq {"partial"} /\ Len(AllUnits) <= Cap =>
    <>[](\/ c.cut \/ c.stale
         \/ /\ c.open /\ c.state = "ReadingHeader"
            /\ c.cgot # <<>> /\ Last(c.cgot)[1] = Len(Reqs))
=============================================================================
