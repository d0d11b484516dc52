---------------------------- MODULE IoUringSend ----------------------------
(***************************************************************************)
(* The send path of the io_uring backend (io_uring_backend.cc): add_send,  *)
(* add_send_upstream, the partial-send state machine of wait(), and the    *)
(* cancel SQEs of a close, over a submission queue, a completion queue and *)
(* the process's table of file descriptors.                                *)
(*                                                                         *)
(* Per connection there is one send_state entry, shared by the client and  *)
(* the upstream send.  The kernel resolves an SQE's fd when the SQE is     *)
(* issued: `to' is the connection the fd belongs to at that moment.  A     *)
(* cancel SQE with IORING_ASYNC_CANCEL_ALL completes with the number of    *)
(* operations it cancelled.  Left out: a failing io_uring_enter, and the   *)
(* limit of one batch of events (wait() then leaves CQEs for the next).    *)
(***************************************************************************)
EXTENDS Integers, Sequences, FiniteSets, Functions

CONSTANTS
    Conns,   \* connection ids
    Fds,     \* file descriptor numbers
    MaxLen,  \* largest buffer sent
    SqSize,  \* sq_ring_entries
    None     \* no descriptor, no connection

ASSUME SendAssumption == MaxLen \in Nat \ {0} /\ SqSize \in Nat \ {0}

SendKinds == {"Send", "UpstreamSend"}
ECANCELED == -125
EBADF == -9
ENOSPC == -28

VARIABLES
    conn,   \* per connection: descriptors, armed flags, the callback it waits in, pending_ops
    ss,     \* send_state[conn_id]
    owner,  \* the connection whose socket a descriptor number is
    sq,     \* SQEs queued and not yet issued
    kernel, \* sends the kernel holds
    cq,     \* CQEs posted
    events, \* events wait() returned and dispatch has not yet handled
    phase,  \* "dispatch", or "wait" while blocked in io_uring_enter
    want,   \* length of the last buffer handed to add_send (history)
    got     \* bytes of it the kernel has written (history)

vars == <<conn, ss, owner, sq, kernel, cq, events, phase, want, got>>

Closed(owed) ==
    [open |-> FALSE, fd |-> None, up |-> None, armed |-> {}, waits |-> "none", owed |-> owed]

Init ==
    /\ conn = [c \in Conns |-> Closed(0)]
    /\ ss = [c \in Conns |-> [fd |-> None, offset |-> 0, remaining |-> 0]]
    /\ owner = [f \in Fds |-> None]
    /\ sq = <<>> /\ kernel = {} /\ cq = <<>> /\ events = <<>>
    /\ phase = "dispatch"
    /\ want = [c \in Conns |-> 0] /\ got = [c \in Conns |-> 0]

-----------------------------------------------------------------------------
(* The loop between two calls of wait().                                   *)

\* A free slot takes an accepted socket.
Accept(c, f) ==
    /\ phase = "dispatch"
    /\ ~conn[c].open /\ conn[c].owed = 0 /\ owner[f] = None
    /\ conn' = [conn EXCEPT ![c].open = TRUE, ![c].fd = f]
    /\ owner' = [owner EXCEPT ![f] = c]
    /\ UNCHANGED <<ss, sq, kernel, cq, events, phase, want, got>>

\* A proxied request opens its upstream socket.
OpenUpstream(c, f) ==
    /\ phase = "dispatch"
    /\ conn[c].open /\ conn[c].up = None /\ owner[f] = None
    /\ conn' = [conn EXCEPT ![c].up = f]
    /\ owner' = [owner EXCEPT ![f] = c]
    /\ UNCHANGED <<ss, sq, kernel, cq, events, phase, want, got>>

\* A callback submits n bytes and waits for the completion.  With a full SQ
\* nothing is recorded, and the callbacks do not look at the result.
Send(c, k, n) ==
    LET fd == IF k = "Send" THEN conn[c].fd ELSE conn[c].up
    IN  /\ phase = "dispatch"
        /\ conn[c].open /\ conn[c].waits = "none" /\ fd # None
        /\ IF Len(sq) < SqSize
           THEN /\ ss' = [ss EXCEPT ![c] = [fd |-> fd, offset |-> 0, remaining |-> n]]
                /\ sq' = Append(sq, [c |-> c, type |-> k, fd |-> fd, len |-> n])
                /\ conn' = [conn EXCEPT ![c].waits = k, ![c].owed = @ + 1,
                                        ![c].armed = @ \cup {k}]
                /\ want' = [want EXCEPT ![c] = n] /\ got' = [got EXCEPT ![c] = 0]
           ELSE /\ conn' = [conn EXCEPT ![c].waits = k]
                /\ UNCHANGED <<ss, sq, want, got>>
        /\ UNCHANGED <<owner, kernel, cq, events, phase>>

\* io_uring_enter: the kernel takes the queued SQEs and looks up their fds.
\* A closed descriptor fails at once.
Issued(q) == { [c |-> q[i].c, type |-> q[i].type, to |-> owner[q[i].fd], len |-> q[i].len] :
               i \in { j \in DOMAIN q : owner[q[j].fd] # None } }
Refused(q) ==
    LET bad == { j \in DOMAIN q : owner[q[j].fd] = None }
        inOrder == { f \in Bijection(1 .. Cardinality(bad), bad) :
                     \A i, j \in DOMAIN f : i < j => f[i] < f[j] }
    IN  { [i \in DOMAIN f |-> [c |-> q[f[i]].c, type |-> q[f[i]].type, res |-> EBADF]] :
          f \in inOrder }

\* What cancelling the operations K of connection c leaves in the CQ: each
\* cancelled operation and each cancel SQE completes; the order is the kernel's.
CancelCqes(c, targets, K) ==
    LET cancelled == { [c |-> c, type |-> op.type, res |-> ECANCELED] : op \in K }
        cancels == { [c |-> c, type |-> k, res |-> Cardinality({op \in K : op.type = k})] :
                     k \in targets }
        all == cancelled \cup cancels
    IN  Bijection(1 .. Cardinality(all), all)

\* close_conn_impl: cancel what is armed, submit at once, close the sockets.
Close(c) ==
    LET r == conn[c]
        targets == IF r.owed = 0 THEN {}
                   ELSE { k \in r.armed : k = "Send" \/ r.up # None }
        held == kernel \cup Issued(sq)
    IN  /\ phase = "dispatch" /\ r.open
        /\ \E K \in SUBSET { op \in held : op.c = c /\ op.type \in targets } :
             /\ kernel' = IF r.owed = 0 THEN kernel ELSE held \ K
             /\ \E b \in Refused(sq), q \in CancelCqes(c, targets, K) :
                  cq' = IF r.owed = 0 THEN cq ELSE cq \o b \o q
        /\ sq' = IF r.owed = 0 THEN sq ELSE <<>>
        /\ conn' = [conn EXCEPT ![c] = Closed(r.owed + Cardinality(targets))]
        /\ owner' = [f \in Fds |-> IF f \in {r.fd, r.up} THEN None ELSE owner[f]]
        /\ UNCHANGED <<ss, events, phase, want, got>>

\* dispatch of one event: the accounting, then the callback waiting for it.  A
\* callback that sees an error closes the connection (Close, the next step).
Dispatch ==
    /\ phase = "dispatch" /\ events # <<>>
    /\ LET e == Head(events) r == conn[e.c]
       IN  conn' = [conn EXCEPT ![e.c].owed = IF @ > 0 THEN @ - 1 ELSE 0,
                                ![e.c].armed = @ \ {e.type},
                                ![e.c].waits = IF r.waits = e.type THEN "none" ELSE @]
    /\ events' = Tail(events)
    /\ UNCHANGED <<ss, owner, sq, kernel, cq, phase, want, got>>

-----------------------------------------------------------------------------
(* wait().                                                                 *)

Enter ==
    /\ phase = "dispatch" /\ events = <<>>
    /\ kernel' = kernel \cup Issued(sq)
    /\ \E b \in Refused(sq) : cq' = cq \o b
    /\ sq' = <<>>
    /\ phase' = "wait"
    /\ UNCHANGED <<conn, ss, owner, events, want, got>>

\* The kernel writes n bytes of a send, at least one.
KernelWrites(op, n) ==
    /\ op \in kernel /\ n \in 1 .. op.len
    /\ kernel' = kernel \ {op}
    /\ cq' = Append(cq, [c |-> op.c, type |-> op.type, res |-> n])
    /\ got' = [got EXCEPT ![op.c] = IF conn[op.c].open THEN @ + n ELSE @]
    /\ UNCHANGED <<conn, ss, owner, sq, events, phase, want>>

\* Mutant: the completion of a partial send is reported, not continued.
Harvested_ReportsPartial(h, e) ==
    LET s == h.ss[e.c]
    IN  IF e.res > 0 /\ s.remaining > 0
        THEN [h EXCEPT !.ss[e.c] = [s EXCEPT !.offset = @ + e.res, !.remaining = @ - e.res],
                       !.events = Append(@, [e EXCEPT !.res = s.offset + e.res])]
        ELSE [h EXCEPT !.events = Append(@, e)]

\* Mutant: the continuation is queued and the part is reported too.
Harvested_ReportsTwice(h, e) ==
    LET s == h.ss[e.c]
    IN  IF e.res > 0 /\ s.remaining > e.res /\ Len(h.sq) < SqSize
        THEN [ss |-> [h.ss EXCEPT ![e.c] = [s EXCEPT !.offset = @ + e.res,
                                                     !.remaining = @ - e.res]],
              sq |-> Append(h.sq, [c |-> e.c, type |-> e.type, fd |-> s.fd,
                                   len |-> s.remaining - e.res]),
              events |-> Append(h.events, e)]
        ELSE [h EXCEPT !.events = Append(@, e)]

\* Mutant: a full SQ is not reported, the rest of the buffer is forgotten.
Harvested_SqFullSilent(h, e) ==
    LET s == h.ss[e.c]
    IN  IF e.res > 0 /\ s.remaining > e.res
        THEN [h EXCEPT !.ss[e.c] = [s EXCEPT !.offset = @ + e.res, !.remaining = @ - e.res],
                       !.sq = IF Len(@) < SqSize
                              THEN Append(@, [c |-> e.c, type |-> e.type, fd |-> s.fd,
                                              len |-> s.remaining - e.res])
                              ELSE @]
        ELSE [h EXCEPT !.events = Append(@, e)]

\* One CQE of the harvest loop: h holds the send states, the SQ and the events
\* returned so far.  A partial send is continued, or fails when the SQ is full;
\* a full one is reported with the total, both as Send.
Harvested(h, e) ==
    LET s == h.ss[e.c]
        left == s.remaining - e.res
        moved(n) == [h.ss EXCEPT ![e.c] = [fd |-> s.fd, offset |-> s.offset + e.res, remaining |-> n]]
        reported(res) == Append(h.events, [c |-> e.c, type |-> "Send", res |-> res])
        rest == [c |-> e.c, type |-> e.type, fd |-> s.fd, len |-> left]
    IN  IF e.res > 0 /\ s.remaining > 0
        THEN IF left > 0
             THEN IF Len(h.sq) < SqSize
                  THEN [ss |-> moved(left), sq |-> Append(h.sq, rest), events |-> h.events]
                  ELSE [ss |-> moved(0), sq |-> h.sq, events |-> reported(ENOSPC)]
             ELSE [ss |-> moved(left), sq |-> h.sq, events |-> reported(s.offset + e.res)]
        ELSE [ss |-> h.ss, sq |-> h.sq, events |-> Append(h.events, e)]

\* The first k CQEs.
Harvesting[k \in 0 .. Len(cq)] ==
    IF k = 0 THEN [ss |-> ss, sq |-> sq, events |-> <<>>]
             ELSE Harvested(Harvesting[k - 1], cq[k])

\* wait() returns at most max_events events, those of other operations among them:
\* it may stop after any of the sends' CQEs and leave the rest in the CQ.
Harvest ==
    /\ phase = "wait" /\ phase' = "dispatch"
    /\ \E k \in 1 .. Len(cq) :
         LET h == Harvesting[k]
         IN  /\ ss' = h.ss /\ sq' = h.sq /\ events' = h.events
             /\ cq' = SubSeq(cq, k + 1, Len(cq))
    /\ UNCHANGED <<conn, owner, kernel, want, got>>

Next ==
    \/ \E c \in Conns, f \in Fds : Accept(c, f) \/ OpenUpstream(c, f)
    \/ \E c \in Conns, k \in SendKinds, n \in 1 .. MaxLen : Send(c, k, n)
    \/ \E c \in Conns : Close(c)
    \/ Dispatch
    \/ Enter
    \/ Harvest
    \/ \E op \in kernel, n \in 1 .. MaxLen : KernelWrites(op, n)

Spec == Init /\ [][Next]_vars

\* The shard thread keeps running, and sockets accept bytes in the end.
FairSpec ==
    /\ Spec
    /\ WF_vars(Dispatch) /\ WF_vars(Enter) /\ WF_vars(Harvest)
    /\ \A c \in Conns :
         WF_vars(\E op \in kernel, n \in 1 .. MaxLen : op.c = c /\ KernelWrites(op, n))

-----------------------------------------------------------------------------
(* Properties.                                                             *)

\* "Only emits Send completion when all bytes are sent (or error)": a success
\* event for a live connection carries the length that was handed to add_send,
\* and the kernel has written exactly that many bytes.
SentInFull ==
    \A i \in DOMAIN events :
        LET e == events[i]
        IN  conn[e.c].open /\ e.res > 0 => e.res = want[e.c] /\ got[e.c] = want[e.c]

\* The sends' share of pending_ops counts the events still to be dispatched for a connection,
\* wherever they are: resubmissions neither lose nor add one.
OwedInQueues ==
    \A c \in Conns :
        LET mine(q) == Cardinality({ i \in DOMAIN q : q[i].c = c })
        IN  conn[c].owed = mine(sq) + mine(cq) + mine(events)
                            + Cardinality({ op \in kernel : op.c = c })

\* Every send of a client response that reached the SQ is reported in the end.
ClientSendReported ==
    \A c \in Conns : ("Send" \in conn[c].armed) ~> ("Send" \notin conn[c].armed)

\* Bytes of a connection are written to a socket of that connection only.
SendsToOwnSocket == \A op \in kernel : op.to = op.c
=============================================================================
