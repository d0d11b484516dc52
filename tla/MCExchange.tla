----------------------------- MODULE MCExchange -----------------------------
(* Scenarios of Exchange for TLC. *)
EXTENDS Exchange

Req(route, hdr, body) ==
    [route |-> route, hdr |-> hdr, body |-> body, chunked |-> FALSE, bad |-> 0]

ChunkedReq(route, hdr, body, bad) == [Req(route, hdr, body) EXCEPT !.chunked = TRUE, !.bad = bad]

Resp(interim, hdr, mode, body) ==
    [interim |-> interim, hdr |-> hdr, body |-> body, mode |-> mode, extra |-> 0,
     bad |-> "none", conn |-> FALSE]

NoResp == Resp(0, 1, "None", 0)

(* Local answers to pipelined requests, one of them with a body. *)
LocalReqs == <<Req("static", 2, 1), Req("default", 2, 0), Req("static", 1, 0)>>
LocalResps == <<NoResp, NoResp, NoResp>>

(* Uploads: a body by length, then a chunked one. *)
UploadReqs == <<Req("proxy", 1, 2), ChunkedReq("proxy", 1, 2, 0)>>
UploadResps == <<Resp(1, 1, "None", 0), NoResp>>

(* Responses of every kind, to pipelined requests. *)
StreamReqs == <<Req("proxy", 1, 0), Req("proxy", 1, 1), Req("static", 1, 0)>>
StreamResps == <<Resp(1, 1, "ContentLength", 3), [Resp(0, 2, "Chunked", 2) EXCEPT !.conn = TRUE],
                 NoResp>>

(* Responses that end with the connection, run over, or are malformed. *)
OddReqs == <<Req("proxy", 1, 0), ChunkedReq("proxy", 1, 2, 2)>>
OddResps == <<[Resp(0, 1, "ContentLength", 1) EXCEPT !.extra = 1], Resp(0, 1, "UntilClose", 2)>>
BadReqs == <<Req("proxy", 1, 0), Req("proxy", 1, 0)>>
BadResps == <<[NoResp EXCEPT !.extra = 1], [Resp(0, 1, "Chunked", 2) EXCEPT !.bad = "chunk"]>>

(* Handlers: one that needs its body, one that does not. *)
HandlerReqs == <<Req("jitbody", 1, 2), Req("jit", 1, 0)>>
HandlerResps == <<Resp(0, 1, "ContentLength", 1), [NoResp EXCEPT !.bad = "head"]>>

(* One of each. *)
MixedReqs == <<Req("proxy", 1, 1), Req("jit", 1, 0), Req("proxy", 1, 0), Req("static", 1, 1)>>
MixedResps == <<Resp(1, 1, "ContentLength", 2), NoResp, Resp(0, 1, "Chunked", 2), NoResp>>

(* Heads of more than one unit. *)
SplitReqs == <<Req("proxy", 2, 1), Req("jitbody", 2, 1), Req("static", 2, 0)>>
SplitResps == <<Resp(0, 1, "ContentLength", 1), NoResp, NoResp>>

(* A handler that reads from an upstream, between two proxied requests. *)
ReadsReqs == <<Req("proxy", 1, 0), Req("jit", 1, 0), Req("proxy", 1, 0)>>
ReadsResps == [i \in 1..3 |-> Resp(0, 1, "ContentLength", 1)]

Scenario(reqs, resps, cap, env) ==
    [reqs |-> reqs, resps |-> resps, cap |-> cap, env |-> env, outcomes |-> {}, yields |-> 0,
     catchall |-> "default"]

Failures == {"idle", "client_eof", "client_reset", "upstream_eof", "upstream_reset", "refuse",
             "no_socket", "no_slice"}

AllOutcomes == {"status", "timer", "recv", "any", "connect", "usend", "urecv", "forward",
                "error", "send"}

PassScenarios ==
    [local   |-> Scenario(LocalReqs, LocalResps, 4,
                          {"drain", "idle", "client_eof", "client_reset", "partial"}),
     crowded |-> Scenario(LocalReqs, LocalResps, 4, {"crowded", "idle"}),
     upload  |-> Scenario(UploadReqs, UploadResps, 4,
                          {"partial", "pending_connect"} \cup Failures),
     stream  |-> Scenario(StreamReqs, StreamResps, 3, {"partial", "upstream_eof"}),
     drain   |-> Scenario(StreamReqs, StreamResps, 4, {"drain", "upstream_eof"}),
     odd     |-> Scenario(OddReqs, OddResps, 3, {"partial", "upstream_eof", "upstream_reset"}),
     bad     |-> Scenario(BadReqs, BadResps, 3, {"partial", "upstream_eof", "upstream_reset"}),
     early   |-> Scenario(UploadReqs, UploadResps, 4,
                          {"partial", "answer_early", "upstream_eof", "upstream_reset"}),
     handler |-> [Scenario(HandlerReqs, HandlerResps, 4,
                           {"partial", "client_eof", "refuse", "no_socket", "idle"})
                    EXCEPT !.outcomes = AllOutcomes, !.yields = 2],
     mixed   |-> [Scenario(MixedReqs, MixedResps, 6, {"partial"})
                    EXCEPT !.outcomes = {"status", "timer"}, !.yields = 1],
     split   |-> [Scenario(SplitReqs, SplitResps, 8, {"partial"})
                    EXCEPT !.outcomes = {"status"}, !.catchall = "proxy"],
     reads   |-> [Scenario(ReadsReqs, ReadsResps, 4, {"upstream_eof"})
                    EXCEPT !.outcomes = {"status", "connect", "usend", "urecv"}, !.yields = 3]]

(* Body units that arrive while nobody has asked for them. *)
BodyEarly == [early_body |-> Scenario(UploadReqs, UploadResps, 4, {"body_early"})]
=============================================================================
