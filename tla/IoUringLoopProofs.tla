------------------------- MODULE IoUringLoopProofs -------------------------
(***************************************************************************)
(* Slot accounting of the io_uring loop, for any number of connections,    *)
(* any bound on operations and any pattern of SQ exhaustion.               *)
(*                                                                         *)
(* The inductive invariant is per slot (SlotGood): every helper of the     *)
(* code is shown to preserve it on a record, and every action applies      *)
(* helpers to the record of one slot, or the same helper to each.          *)
(***************************************************************************)
EXTENDS IoUringLoop, TLAPS

\* SlotGood between the accounting of a CQE and the branch that follows it:
\* the last CQE of a closed slot may just have been counted.
AlmostGood(r) ==
    /\ r \in SlotRecords
    /\ r.pending_ops = Owed(r)
    /\ r.free + r.pending_free + One(r.open) = 1
    /\ (r.mode = "none") <=> ~r.open
    /\ r.free > 0 => r.pending_ops = 0 /\ r.slices = {}
    /\ r.free = 0 => {"recv_slice", "send_slice"} \subseteq r.slices

\* Types of the fields a slot record has.
LEMMA FieldTypes ==
    ASSUME NEW r \in SlotRecords
    PROVE  /\ r.free \in Nat /\ r.pending_free \in Nat /\ r.pending_ops \in Nat
           /\ r.open \in BOOLEAN /\ r.upstream \in BOOLEAN
           /\ r.mode \in {"none", "slots", "yield"}
           /\ r.armed \in SUBSET Kinds /\ r.slices \in SUBSET Slices
           /\ r.kernel \in [Kinds -> Nat] /\ r.cq \in [Kinds -> Nat]
  BY DEF SlotRecords

\* Owed depends only on the two counters, and is a natural number.
LEMMA OwedNat ==
    ASSUME NEW r \in SlotRecords
    PROVE  Owed(r) \in Nat
  <1>1. \A j \in Kinds : r.kernel[j] \in Nat /\ r.cq[j] \in Nat
    BY FieldTypes
  <1> QED BY <1>1 DEF Owed, Kinds

\* The counters of a record, kind by kind.
LEMMA CounterTypes ==
    ASSUME NEW r \in SlotRecords
    PROVE  /\ r.kernel["Recv"] \in Nat /\ r.cq["Recv"] \in Nat
           /\ r.kernel["Send"] \in Nat /\ r.cq["Send"] \in Nat
           /\ r.kernel["UpstreamConnect"] \in Nat /\ r.cq["UpstreamConnect"] \in Nat
           /\ r.kernel["UpstreamRecv"] \in Nat /\ r.cq["UpstreamRecv"] \in Nat
           /\ r.kernel["UpstreamSend"] \in Nat /\ r.cq["UpstreamSend"] \in Nat
           /\ r.kernel["HandlerTimer"] \in Nat /\ r.cq["HandlerTimer"] \in Nat
  BY FieldTypes DEF Kinds

\* One tag owes no more than the slot.
LEMMA OwedBound ==
    ASSUME NEW r \in SlotRecords, NEW k \in Kinds
    PROVE  r.kernel[k] + r.cq[k] <= Owed(r)
  <1> DEFINE w(j) == r.kernel[j] + r.cq[j]
  <1>1. /\ w("Recv") \in Nat /\ w("Send") \in Nat /\ w("UpstreamConnect") \in Nat
        /\ w("UpstreamRecv") \in Nat /\ w("UpstreamSend") \in Nat /\ w("HandlerTimer") \in Nat
    BY CounterTypes
  <1>2. Owed(r) = w("Recv") + w("Send") + w("UpstreamConnect")
                    + w("UpstreamRecv") + w("UpstreamSend") + w("HandlerTimer")
    BY CounterTypes DEF Owed
  <1> HIDE DEF w
  <1>3. w(k) <= Owed(r)
    BY <1>1, <1>2 DEF Kinds
  <1> QED BY <1>3 DEF w

\* Owed depends on the two counters only.
LEMMA OwedSame ==
    ASSUME NEW r, NEW s, s.kernel = r.kernel, s.cq = r.cq
    PROVE  Owed(s) = Owed(r)
  BY DEF Owed

\* An open slot is on neither list.
LEMMA OpenFacts ==
    ASSUME NEW r, AlmostGood(r), r.open
    PROVE  r.free = 0 /\ r.pending_free = 0 /\ SlotGood(r)
  <1>1. r.free \in Nat /\ r.pending_free \in Nat /\ r.free + r.pending_free + 1 = 1
    BY FieldTypes DEF AlmostGood, One
  <1>2. r.free = 0 /\ r.pending_free = 0
    BY <1>1
  <1> QED BY <1>2, Zenon DEF AlmostGood, SlotGood

\* Between steps a slot is good, hence almost good.
LEMMA GoodIsAlmost ==
    ASSUME NEW r, SlotGood(r)
    PROVE  AlmostGood(r)
  BY DEF SlotGood, AlmostGood

\* Submitting an operation counts it once on each side.
LEMMA SubmitGood ==
    ASSUME NEW r, SlotGood(r), r.open, NEW k \in Kinds, NEW ok
    PROVE  /\ SlotGood(Submit(r, k, ok))
           /\ Submit(r, k, ok).open
  <1>1. CASE k \notin ok
    BY <1>1 DEF Submit
  <1>2. CASE k \in ok
    <2> DEFINE s == Submit(r, k, ok)
               x == [r.kernel EXCEPT ![k] = @ + 1]
               y == r.pending_ops + 1
               z == IF k = "UpstreamConnect" THEN r.armed ELSE r.armed \cup {k}
    <2>1. r \in SlotRecords
      BY DEF SlotGood
    <2>2. x \in [Kinds -> Nat] /\ y \in Nat
      BY <2>1 DEF SlotRecords
    <2>3. z \in SUBSET Kinds
      BY <2>1 DEF SlotRecords
    <2>4. s = [r EXCEPT !.pending_ops = y, !.kernel = x, !.armed = z]
      BY <1>2 DEF Submit
    <2>5. \A j \in Kinds : x[j] = r.kernel[j] + (IF j = k THEN 1 ELSE 0)
      BY <2>1, FieldTypes
    <2> HIDE DEF x, y, z, s
    <2>6. s \in SlotRecords
      BY <2>1, <2>2, <2>3, <2>4, Zenon DEF SlotRecords
    <2>7. /\ s.kernel = x
          /\ s.pending_ops = y
          /\ s.cq = r.cq
          /\ s.free = r.free
          /\ s.pending_free = r.pending_free
          /\ s.open = r.open
          /\ s.mode = r.mode
          /\ s.slices = r.slices
      BY <2>1, <2>4, Zenon DEF SlotRecords
    <2>8. Owed(s) = Owed(r) + 1
      <3>1. \A j \in Kinds : r.kernel[j] \in Nat /\ r.cq[j] \in Nat
        BY <2>1, FieldTypes
      <3> QED BY <2>5, <2>7, <3>1, SMTT(30) DEF Owed, Kinds
    <2>9. r.free = 0 /\ r.pending_free = 0
      BY OpenFacts, GoodIsAlmost
    <2>10. SlotGood(s)
      BY <2>6, <2>7, <2>8, <2>9 DEF SlotGood, One, y
    <2> QED BY <2>7, <2>10 DEF s
  <1> QED BY <1>1, <1>2

\* An idempotent receive submission.
LEMMA SubmitRecvGood ==
    ASSUME NEW r, SlotGood(r), r.open, NEW k \in Kinds, NEW ok
    PROVE  /\ SlotGood(SubmitRecv(r, k, ok))
           /\ SubmitRecv(r, k, ok).open
  BY SubmitGood DEF SubmitRecv

\* reset() forgets the connection and leaves the kernel's counters and the lists.
LEMMA ResetFields ==
    ASSUME NEW r \in SlotRecords
    PROVE  /\ Reset(r) \in SlotRecords
           /\ Reset(r).kernel = r.kernel
           /\ Reset(r).cq = r.cq
           /\ Reset(r).pending_ops = 0
           /\ Reset(r).free = r.free
           /\ Reset(r).pending_free = r.pending_free
           /\ Reset(r).slices = {}
           /\ Reset(r).open = FALSE
           /\ Reset(r).mode = "none"
  BY Zenon DEF Reset, SlotRecords

\* A slot taken from the free stack starts owed nothing.
LEMMA AllocateGood ==
    ASSUME NEW r, SlotGood(r), r.free > 0, NEW ok
    PROVE  /\ SlotGood(Allocate(r, ok))
           /\ Allocate(r, ok).open
           /\ Owed(r) = 0
  <1> DEFINE s == [Reset(r) EXCEPT !.free = @ - 1, !.open = TRUE, !.mode = "slots",
                                   !.slices = {"recv_slice", "send_slice"}]
  <1>1. r \in SlotRecords /\ r.pending_ops = 0 /\ Owed(r) = 0
    BY DEF SlotGood
  <1>2. r.free = 1 /\ r.pending_free = 0
    <2>1. r.free \in Nat /\ r.pending_free \in Nat /\ One(r.open) \in Nat
      BY <1>1, FieldTypes DEF One
    <2> QED BY <2>1 DEF SlotGood
  <1> DEFINE t == Reset(r)
  <1>3. /\ t \in SlotRecords
        /\ t.kernel = r.kernel
        /\ t.cq = r.cq
        /\ t.pending_ops = 0
        /\ t.free = r.free
        /\ t.pending_free = r.pending_free
    BY <1>1, ResetFields, Zenon
  <1> HIDE DEF t
  <1>4. s = [t EXCEPT !.free = 0, !.open = TRUE, !.mode = "slots",
                      !.slices = {"recv_slice", "send_slice"}]
    BY <1>2, <1>3 DEF t
  <1> HIDE DEF s
  <1>5. /\ s \in SlotRecords
        /\ s.kernel = r.kernel
        /\ s.cq = r.cq
        /\ s.pending_ops = 0
        /\ s.free = 0
        /\ s.pending_free = 0
        /\ s.open
        /\ s.mode = "slots"
        /\ s.slices = {"recv_slice", "send_slice"}
    BY <1>2, <1>3, <1>4, Zenon DEF SlotRecords, Slices
  <1>6. Owed(s) = 0
    BY <1>1, <1>5, OwedSame
  <1>7. SlotGood(s)
    BY <1>5, <1>6 DEF SlotGood, One
  <1> QED BY <1>1, <1>5, <1>7, SubmitRecvGood, ZenonT(60) DEF s, Allocate, Kinds

\* Each cancel SQE adds one CQE, and moves its targets from the kernel to the CQ.
LEMMA CancelOpsGood ==
    ASSUME NEW r, SlotGood(r), r.open, NEW C \in SUBSET Kinds, NEW hit \in BOOLEAN
    PROVE  /\ SlotGood(CancelOps(r, C, hit))
           /\ CancelOps(r, C, hit).open
  <1> DEFINE s == CancelOps(r, C, hit)
             n(k) == Cancelled(r, k, hit)
             y == r.pending_ops + One("Recv" \in C) + One("Send" \in C)
                    + One("UpstreamConnect" \in C) + One("UpstreamRecv" \in C)
                    + One("UpstreamSend" \in C) + One("HandlerTimer" \in C)
             x == [k \in Kinds |-> IF k \in C THEN r.kernel[k] - n(k) ELSE r.kernel[k]]
             z == [k \in Kinds |-> IF k \in C THEN r.cq[k] + n(k) + 1 ELSE r.cq[k]]
  <1>1. r \in SlotRecords
    BY DEF SlotGood
  <1>2. \A k \in Kinds : r.kernel[k] \in Nat /\ r.cq[k] \in Nat
    BY <1>1, FieldTypes
  <1>3. \A k \in Kinds : n(k) \in Nat /\ n(k) <= r.kernel[k]
    BY <1>2 DEF Cancelled, One
  <1>4. s = [r EXCEPT !.pending_ops = y, !.kernel = x, !.cq = z]
    BY DEF CancelOps
  <1> HIDE DEF n, s
  <1>5. x \in [Kinds -> Nat] /\ z \in [Kinds -> Nat]
    <2>1. \A k \in Kinds : r.kernel[k] - n(k) \in Nat /\ r.cq[k] + n(k) + 1 \in Nat
      BY <1>2, <1>3
    <2> QED BY <1>2, <2>1
  <1>6. y \in Nat
    BY <1>1, FieldTypes DEF One
  <1>7. \A k \in Kinds : x[k] + z[k] = r.kernel[k] + r.cq[k] + One(k \in C)
    <2> SUFFICES ASSUME NEW k \in Kinds
                 PROVE  x[k] + z[k] = r.kernel[k] + r.cq[k] + One(k \in C)
      OBVIOUS
    <2>1. n(k) \in Nat /\ r.kernel[k] \in Nat /\ r.cq[k] \in Nat
      BY <1>2, <1>3
    <2>2. CASE k \in C
      BY <2>1, <2>2 DEF One
    <2>3. CASE k \notin C
      BY <2>1, <2>3 DEF One
    <2> QED BY <2>2, <2>3
  <1>8. \A k \in Kinds : x[k] \in Nat /\ z[k] \in Nat
    BY <1>5
  <1>9. \A k \in Kinds : One(k \in C) \in Nat
    BY DEF One
  <1>10. y = r.pending_ops + One("Recv" \in C) + One("Send" \in C)
                    + One("UpstreamConnect" \in C) + One("UpstreamRecv" \in C)
                    + One("UpstreamSend" \in C) + One("HandlerTimer" \in C)
    OBVIOUS
  <1> HIDE DEF x, y, z
  <1>11. /\ s \in SlotRecords
         /\ s.kernel = x
         /\ s.cq = z
         /\ s.pending_ops = y
         /\ s.free = r.free
         /\ s.pending_free = r.pending_free
         /\ s.open = r.open
         /\ s.mode = r.mode
         /\ s.slices = r.slices
    BY <1>1, <1>4, <1>5, <1>6, Zenon DEF SlotRecords
  <1>12. Owed(s) = y
    <2>1. r.pending_ops = Owed(r)
      BY DEF SlotGood
    <2> DEFINE o(k) == One(k \in C)
               w(k) == r.kernel[k] + r.cq[k]
               v(k) == x[k] + z[k]
    <2>2. \A k \in Kinds : o(k) \in Nat /\ w(k) \in Nat /\ v(k) = w(k) + o(k)
      BY <1>2, <1>7, <1>9
    <2>3. y = r.pending_ops + o("Recv") + o("Send") + o("UpstreamConnect")
                + o("UpstreamRecv") + o("UpstreamSend") + o("HandlerTimer")
      BY <1>10
    <2>4. Owed(s) = v("Recv") + v("Send") + v("UpstreamConnect")
                      + v("UpstreamRecv") + v("UpstreamSend") + v("HandlerTimer")
      BY <1>8, <1>11 DEF Owed, Kinds
    <2>5. Owed(r) = w("Recv") + w("Send") + w("UpstreamConnect")
                      + w("UpstreamRecv") + w("UpstreamSend") + w("HandlerTimer")
      BY <1>2 DEF Owed, Kinds
    <2> HIDE DEF o, v, w
    <2> QED BY <2>1, <2>2, <2>3, <2>4, <2>5 DEF Kinds
  <1>13. r.free = 0 /\ r.pending_free = 0
    BY OpenFacts, GoodIsAlmost
  <1>14. SlotGood(s)
    BY <1>11, <1>12, <1>13 DEF SlotGood, One
  <1> QED BY <1>11, <1>14 DEF s

\* free_conn_impl puts an open slot on exactly one of the two lists.
LEMMA FreeConnGood ==
    ASSUME NEW r, SlotGood(r), r.open
    PROVE  SlotGood(FreeConn(r)) /\ ~FreeConn(r).open
  <1> DEFINE t == Reset(r)
             s == FreeConn(r)
  <1>1. /\ r \in SlotRecords /\ r.pending_ops = Owed(r) /\ r.pending_ops \in Nat
        /\ r.free = 0 /\ r.pending_free = 0
        /\ {"recv_slice", "send_slice"} \subseteq r.slices
        /\ r.slices \in SUBSET Slices
    BY OpenFacts, GoodIsAlmost, FieldTypes, Zenon DEF SlotGood
  <1>2. /\ t \in SlotRecords
        /\ t.kernel = r.kernel /\ t.cq = r.cq
        /\ t.pending_ops = 0
        /\ t.free = 0 /\ t.pending_free = 0
        /\ t.slices = {} /\ t.open = FALSE /\ t.mode = "none"
    BY <1>1, ResetFields, Zenon
  <1>3. CASE r.pending_ops = 0
    <2>1. s = [t EXCEPT !.free = 1]
      BY <1>2, <1>3 DEF FreeConn
    <2> HIDE DEF t, s
    <2>2. /\ s \in SlotRecords
          /\ s.kernel = r.kernel /\ s.cq = r.cq
          /\ s.pending_ops = 0 /\ s.free = 1 /\ s.pending_free = 0
          /\ s.slices = {} /\ s.open = FALSE /\ s.mode = "none"
      BY <1>2, <2>1 DEF SlotRecords
    <2>3. Owed(s) = 0
      BY <1>1, <1>3, <2>2, OwedSame, Zenon
    <2>4. SlotGood(s)
      BY <2>2, <2>3 DEF SlotGood, One
    <2> QED BY <2>2, <2>4 DEF s
  <1>4. CASE r.pending_ops # 0
    <2>1. s = [t EXCEPT !.slices = r.slices, !.pending_ops = r.pending_ops, !.pending_free = 1]
      BY <1>2, <1>4 DEF FreeConn
    <2> HIDE DEF t, s
    <2>2. /\ s \in SlotRecords
          /\ s.kernel = r.kernel /\ s.cq = r.cq
          /\ s.pending_ops = r.pending_ops /\ s.free = 0 /\ s.pending_free = 1
          /\ s.slices = r.slices /\ s.open = FALSE /\ s.mode = "none"
      BY <1>1, <1>2, <2>1, Zenon DEF SlotRecords
    <2>3. Owed(s) = r.pending_ops
      BY <1>1, <2>2, OwedSame
    <2>4. SlotGood(s)
      BY <1>1, <1>4, <2>2, <2>3 DEF SlotGood, One
    <2> QED BY <2>2, <2>4 DEF s
  <1> QED BY <1>1, <1>3, <1>4

\* Closing an open slot, whichever cancel SQEs found room.
LEMMA CloseGood ==
    ASSUME NEW r, SlotGood(r), r.open, NEW ok, NEW hit \in BOOLEAN
    PROVE  SlotGood(Close(r, ok, hit)) /\ ~Close(r, ok, hit).open
  <1>1. CancelTargets(r) \cap ok \in SUBSET Kinds
    <2>1. r.armed \in SUBSET Kinds
      BY FieldTypes DEF SlotGood
    <2> QED BY <2>1 DEF CancelTargets, Kinds
  <1> QED BY <1>1, CancelOpsGood, FreeConnGood DEF Close

\* The last CQE of a closed slot moves it from pending_free to the free stack.
LEMMA ReclaimSlotGood ==
    ASSUME NEW r, AlmostGood(r), ~r.open, r.free = 0, r.pending_ops = 0
    PROVE  SlotGood(ReclaimSlot(r)) /\ ~ReclaimSlot(r).open
  <1> DEFINE s == ReclaimSlot(r)
  <1>1. r \in SlotRecords /\ Owed(r) = 0 /\ r.mode = "none"
    BY DEF AlmostGood
  <1>2. r.pending_free = 1
    <2>1. r.pending_free \in Nat
      BY <1>1, FieldTypes
    <2> QED BY <2>1 DEF AlmostGood, One
  <1>3. s = [r EXCEPT !.slices = {}, !.free = 1, !.pending_free = 0]
    BY <1>2 DEF ReclaimSlot
  <1> HIDE DEF s
  <1>4. /\ s \in SlotRecords
        /\ s.kernel = r.kernel /\ s.cq = r.cq
        /\ s.pending_ops = 0 /\ s.free = 1 /\ s.pending_free = 0
        /\ s.slices = {} /\ s.open = r.open /\ s.mode = "none"
    BY <1>1, <1>3, Zenon DEF SlotRecords
  <1>5. Owed(s) = 0
    BY <1>1, <1>4, OwedSame
  <1>6. SlotGood(s)
    BY <1>4, <1>5 DEF SlotGood, One
  <1> QED BY <1>4, <1>6 DEF s

\* reclaim_pending finds nothing to do: dispatch has reclaimed every drained slot.
LEMMA ReclaimPendingSame ==
    ASSUME NEW r, SlotGood(r)
    PROVE  ReclaimPending(r) = r
  BY DEF ReclaimPending, SlotGood

\* Closing the upstream socket between requests touches no counter.
LEMMA DropUpstreamGood ==
    ASSUME NEW r, SlotGood(r), r.open, NEW b \in BOOLEAN
    PROVE  /\ SlotGood(DropUpstream(r)) /\ DropUpstream(r).open
           /\ SlotGood([DropUpstream(r) EXCEPT !.upstream = b])
           /\ [DropUpstream(r) EXCEPT !.upstream = b].open
  <1> DEFINE s == DropUpstream(r)
             a == r.armed \ {"UpstreamRecv", "UpstreamSend"}
             t == [s EXCEPT !.upstream = b]
  <1>1. r \in SlotRecords
    BY DEF SlotGood
  <1>2. a \in SUBSET Kinds
    BY <1>1, FieldTypes
  <1>3. s = [r EXCEPT !.upstream = FALSE, !.armed = a]
    BY DEF DropUpstream
  <1> HIDE DEF a, s
  <1>4. /\ s \in SlotRecords
        /\ s.kernel = r.kernel /\ s.cq = r.cq
        /\ s.pending_ops = r.pending_ops /\ s.free = r.free /\ s.pending_free = r.pending_free
        /\ s.slices = r.slices /\ s.open = r.open /\ s.mode = r.mode
    BY <1>1, <1>2, <1>3, Zenon DEF SlotRecords
  <1>5. /\ t \in SlotRecords
        /\ t.kernel = r.kernel /\ t.cq = r.cq
        /\ t.pending_ops = r.pending_ops /\ t.free = r.free /\ t.pending_free = r.pending_free
        /\ t.slices = r.slices /\ t.open = r.open /\ t.mode = r.mode
    BY <1>4, Zenon DEF SlotRecords
  <1> HIDE DEF t
  <1>6. Owed(s) = Owed(r) /\ Owed(t) = Owed(r)
    BY <1>4, <1>5, OwedSame
  <1>7. SlotGood(s) /\ SlotGood(t)
    BY <1>4, <1>5, <1>6, Zenon DEF SlotGood
  <1> QED BY <1>4, <1>5, <1>7, Zenon DEF s, t

\* Disarming a yield timer may complete it, but leaves its CQE owed.
LEMMA DisarmGood ==
    ASSUME NEW r, SlotGood(r), r.open, NEW ok, NEW hit \in BOOLEAN
    PROVE  SlotGood(DisarmYieldTimer(r, ok, hit)) /\ DisarmYieldTimer(r, ok, hit).open
  <1>1. CASE "HandlerTimer" \notin r.armed
    BY <1>1 DEF DisarmYieldTimer
  <1>2. CASE "HandlerTimer" \in r.armed
    <2> DEFINE s == DisarmYieldTimer(r, ok, hit)
               n == IF "HandlerTimer" \in ok THEN Cancelled(r, "HandlerTimer", hit) ELSE 0
               a == r.armed \ {"HandlerTimer"}
               x == [r.kernel EXCEPT !["HandlerTimer"] = @ - n]
               z == [r.cq EXCEPT !["HandlerTimer"] = @ + n]
    <2>1. r \in SlotRecords
      BY DEF SlotGood
    <2>2. \A k \in Kinds : r.kernel[k] \in Nat /\ r.cq[k] \in Nat
      BY <2>1, FieldTypes
    <2>3. n \in Nat /\ n <= r.kernel["HandlerTimer"]
      BY <2>2 DEF Cancelled, One, Kinds
    <2>4. a \in SUBSET Kinds
      BY <2>1, FieldTypes
    <2>5. s = [r EXCEPT !.armed = a, !.kernel = x, !.cq = z]
      BY <1>2 DEF DisarmYieldTimer
    <2> HIDE DEF n, a, s
    <2>6. x \in [Kinds -> Nat] /\ z \in [Kinds -> Nat]
      <3>1. r.kernel["HandlerTimer"] - n \in Nat /\ r.cq["HandlerTimer"] + n \in Nat
        BY <2>2, <2>3 DEF Kinds
      <3> QED BY <2>1, <3>1, FieldTypes, Zenon
    <2>7. \A k \in Kinds \ {"HandlerTimer"} : x[k] = r.kernel[k] /\ z[k] = r.cq[k]
      BY <2>1, FieldTypes
    <2>8. /\ x["HandlerTimer"] = r.kernel["HandlerTimer"] - n
          /\ z["HandlerTimer"] = r.cq["HandlerTimer"] + n
      BY <2>1, FieldTypes DEF Kinds
    <2> HIDE DEF x, z
    <2>9. /\ s \in SlotRecords
          /\ s.kernel = x /\ s.cq = z
          /\ s.pending_ops = r.pending_ops /\ s.free = r.free
          /\ s.pending_free = r.pending_free
          /\ s.slices = r.slices /\ s.open = r.open /\ s.mode = r.mode
      BY <2>1, <2>4, <2>5, <2>6, Zenon DEF SlotRecords
    <2>10. Owed(s) = Owed(r)
      BY <2>2, <2>3, <2>7, <2>8, <2>9 DEF Owed, Kinds
    <2>11. SlotGood(s)
      BY <2>9, <2>10, Zenon DEF SlotGood
    <2> QED BY <2>9, <2>11 DEF s
  <1> QED BY <1>1, <1>2

\* Allocating the upstream buffer adds a slice only.
LEMMA SlicesGood ==
    ASSUME NEW r, SlotGood(r), r.open
    PROVE  /\ SlotGood([r EXCEPT !.slices = @ \cup {"upstream_recv_slice"}])
           /\ [r EXCEPT !.slices = @ \cup {"upstream_recv_slice"}].open
  <1> DEFINE a == r.slices \cup {"upstream_recv_slice"}
             s == [r EXCEPT !.slices = a]
  <1>1. r \in SlotRecords /\ r.free = 0
    BY OpenFacts, GoodIsAlmost, Zenon DEF SlotGood
  <1>2. a \in SUBSET Slices /\ r.slices \subseteq a
    BY <1>1, FieldTypes DEF Slices
  <1> HIDE DEF a
  <1>3. /\ s \in SlotRecords
        /\ s.kernel = r.kernel /\ s.cq = r.cq
        /\ s.pending_ops = r.pending_ops /\ s.free = r.free /\ s.pending_free = r.pending_free
        /\ s.slices = a /\ s.open = r.open /\ s.mode = r.mode
    BY <1>1, <1>2, Zenon DEF SlotRecords
  <1> HIDE DEF s
  <1>4. Owed(s) = Owed(r)
    BY <1>3, OwedSame
  <1>5. SlotGood(s)
    BY <1>1, <1>2, <1>3, <1>4, Zenon DEF SlotGood
  <1> QED BY <1>3, <1>5 DEF s, a

\* Whatever a callback does, it leaves an open slot with exact accounts.
LEMMA EffectsGood ==
    ASSUME NEW r, SlotGood(r), r.open, NEW ok, NEW e \in Effects(r, ok)
    PROVE  SlotGood(e) /\ e.open
  <1>1. "Recv" \in Kinds /\ "Send" \in Kinds /\ "UpstreamConnect" \in Kinds
        /\ "UpstreamRecv" \in Kinds /\ "UpstreamSend" \in Kinds /\ "HandlerTimer" \in Kinds
    BY DEF Kinds
  <1> DEFINE d == DropUpstream(r)
             u == [DropUpstream(r) EXCEPT !.upstream = TRUE]
             q == SubmitRecv(r, "Recv", ok)
             b == [r EXCEPT !.slices = @ \cup {"upstream_recv_slice"}]
  <1>2. SlotGood(d) /\ d.open /\ SlotGood(u) /\ u.open
    BY DropUpstreamGood, Zenon
  <1>3. SlotGood(q) /\ q.open
    BY <1>1, SubmitRecvGood
  <1>4. SlotGood(b) /\ b.open
    BY SlicesGood
  <1>5. \/ e = Submit(r, "Send", ok)
        \/ e = d
        \/ e = Submit(d, "Send", ok)
        \/ e = q
        \/ e = SubmitRecv(d, "Recv", ok)
        \/ e = Submit(u, "UpstreamConnect", ok)
        \/ e = Submit(q, "HandlerTimer", ok)
        \/ e = Submit(b, "UpstreamSend", ok)
        \/ e = SubmitRecv(r, "UpstreamRecv", ok)
        \/ e = SubmitRecv(q, "UpstreamRecv", ok)
    BY DEF Effects
  <1> HIDE DEF d, u, q, b
  <1> QED BY <1>1, <1>2, <1>3, <1>4, <1>5, SubmitGood, SubmitRecvGood

\* A callback leaves an open slot good and open.
LEMMA CallbackGood ==
    ASSUME NEW r, SlotGood(r), r.open, NEW q \in CallbackResults(r)
    PROVE  SlotGood(q) /\ q.open
  <1>0. PICK ok \in SqOutcomes :
            \E e \in Effects(r, ok), m \in {"slots", "yield"} : q = [e EXCEPT !.mode = m]
    BY DEF CallbackResults
  <1>1. PICK e \in Effects(r, ok), m \in {"slots", "yield"} : q = [e EXCEPT !.mode = m]
    BY <1>0, Zenon
  <1>2. SlotGood(e) /\ e.open
    BY EffectsGood
  <1>3. e \in SlotRecords
    BY <1>2 DEF SlotGood
  <1>4. /\ q \in SlotRecords
        /\ q.kernel = e.kernel /\ q.cq = e.cq
        /\ q.pending_ops = e.pending_ops /\ q.free = e.free /\ q.pending_free = e.pending_free
        /\ q.slices = e.slices /\ q.open = e.open /\ q.mode # "none"
    BY <1>1, <1>3 DEF SlotRecords
  <1>5. Owed(q) = Owed(e)
    BY <1>4, OwedSame
  <1> QED BY <1>2, <1>4, <1>5, Zenon DEF SlotGood

\* Counting a final CQE keeps the accounts exact; it may be a closed slot's last.
LEMMA AccountGood ==
    ASSUME NEW r, SlotGood(r), NEW k \in Kinds, r.cq[k] > 0, NEW ev
    PROVE  /\ AlmostGood(Account(r, k, ev))
           /\ Account(r, k, ev).open = r.open
           /\ Account(r, k, ev).mode = r.mode
           /\ Account(r, k, ev).free = 0
  <1> DEFINE s == Account(r, k, ev)
             a == r.armed \ {ev}
             z == [r.cq EXCEPT ![k] = @ - 1]
             y == r.pending_ops - 1
  <1>1. r \in SlotRecords /\ r.pending_ops = Owed(r) /\ r.free \in Nat
    BY FieldTypes DEF SlotGood
  <1>2. \A j \in Kinds : r.kernel[j] \in Nat /\ r.cq[j] \in Nat
    BY <1>1, FieldTypes
  <1>3. r.pending_ops > 0
    BY <1>1, <1>2, OwedBound, OwedNat
  <1>4. r.free = 0
    BY <1>1, <1>3 DEF SlotGood
  <1>5. s = [r EXCEPT !.cq = z, !.armed = a, !.pending_ops = y]
    <2>1. (IF r.pending_ops > 0 THEN r.pending_ops - 1 ELSE 0) = y
      BY <1>3
    <2> HIDE DEF y
    <2> QED BY <2>1, Zenon DEF Account
  <1>6. a \in SUBSET Kinds /\ y \in Nat
    BY <1>1, <1>3, FieldTypes
  <1>7. z \in [Kinds -> Nat]
    <2>1. r.cq[k] - 1 \in Nat
      BY <1>2
    <2> QED BY <1>1, <2>1, FieldTypes
  <1>8. \A j \in Kinds : z[j] = r.cq[j] - (IF j = k THEN 1 ELSE 0)
    BY <1>1, <1>2, FieldTypes
  <1> HIDE DEF a, z, s
  <1>9. /\ s \in SlotRecords
        /\ s.kernel = r.kernel /\ s.cq = z
        /\ s.pending_ops = y /\ s.free = r.free /\ s.pending_free = r.pending_free
        /\ s.slices = r.slices /\ s.open = r.open /\ s.mode = r.mode
    BY <1>1, <1>5, <1>6, <1>7, Zenon DEF SlotRecords
  <1>10. Owed(s) = Owed(r) - 1
    <2> DEFINE w(j) == r.kernel[j] + r.cq[j]
               v(j) == s.kernel[j] + s.cq[j]
    <2>1. \A j \in Kinds : w(j) \in Nat /\ v(j) = w(j) - (IF j = k THEN 1 ELSE 0)
      BY <1>2, <1>8, <1>9
    <2>2. Owed(r) = w("Recv") + w("Send") + w("UpstreamConnect")
                      + w("UpstreamRecv") + w("UpstreamSend") + w("HandlerTimer")
      BY <1>1, CounterTypes DEF Owed
    <2>3. Owed(s) = v("Recv") + v("Send") + v("UpstreamConnect")
                      + v("UpstreamRecv") + v("UpstreamSend") + v("HandlerTimer")
      <3>1. s \in SlotRecords
        BY <1>9
      <3> QED BY <3>1, CounterTypes DEF Owed
    <2> HIDE DEF v, w
    <2> QED BY <2>1, <2>2, <2>3 DEF Kinds
  <1>11. AlmostGood(s)
    BY <1>1, <1>4, <1>9, <1>10 DEF SlotGood, AlmostGood, One
  <1> QED BY <1>4, <1>9, <1>11 DEF s

\* A slot nothing runs on is closed: the CQE is counted, or is the last.
LEMMA DispatchedGood ==
    ASSUME NEW r, AlmostGood(r), r.free = 0, NEW q \in Dispatched(r)
    PROVE  /\ SlotGood(q)
           /\ q.open => r.open
  <1>1. r \in SlotRecords /\ r.pending_ops \in Nat /\ r.free \in Nat /\ r.pending_free \in Nat
    BY FieldTypes DEF AlmostGood
  <1>2. CASE ~r.open
    <2>1. r.mode = "none"
      BY <1>1, <1>2 DEF AlmostGood
    <2>2. q = IF r.pending_ops = 0 THEN ReclaimSlot(r) ELSE r
      BY <2>1 DEF Dispatched
    <2>3. CASE r.pending_ops = 0
      BY <1>2, <2>1, <2>2, <2>3, ReclaimSlotGood
    <2>4. CASE r.pending_ops # 0
      BY <1>1, <1>2, <2>2, <2>4 DEF AlmostGood, SlotGood
    <2> QED BY <2>3, <2>4
  <1>3. CASE r.open
    <2>1. SlotGood(r) /\ r.mode # "none"
      BY <1>3, OpenFacts, Zenon DEF AlmostGood
    <2>2. \/ q = r
          \/ q \in CallbackResults(r)
          \/ \E ok \in SqOutcomes, hit \in BOOLEAN : q = Close(r, ok, hit)
          \/ \E ok \in SqOutcomes, hit \in BOOLEAN : q \in CallbackResults(DisarmYieldTimer(r, ok, hit))
      BY <2>1 DEF Dispatched
    <2>3. CASE \E ok \in SqOutcomes, hit \in BOOLEAN : q = Close(r, ok, hit)
      BY <1>3, <2>1, <2>3, CloseGood
    <2>4. CASE \E ok \in SqOutcomes, hit \in BOOLEAN :
                   q \in CallbackResults(DisarmYieldTimer(r, ok, hit))
      <3>1. PICK ok \in SqOutcomes, hit \in BOOLEAN :
                   q \in CallbackResults(DisarmYieldTimer(r, ok, hit))
        BY <2>4
      <3>2. SlotGood(DisarmYieldTimer(r, ok, hit)) /\ DisarmYieldTimer(r, ok, hit).open
        BY <1>3, <2>1, DisarmGood
      <3> HIDE DEF DisarmYieldTimer
      <3> QED BY <1>3, <3>1, <3>2, CallbackGood
    <2> QED BY <1>3, <2>1, <2>2, <2>3, <2>4, CallbackGood
  <1> QED BY <1>1, <1>2, <1>3 DEF SlotRecords

\* A kernel completion moves one unit from the kernel to the CQ.
LEMMA KernelCompleteGood ==
    ASSUME NEW r, SlotGood(r), NEW k \in Kinds, r.kernel[k] > 0
    PROVE  SlotGood(Completed(r, k)) /\ Completed(r, k).open = r.open
  <1> DEFINE s == Completed(r, k)
             x == [r.kernel EXCEPT ![k] = @ - 1]
             z == [r.cq EXCEPT ![k] = @ + 1]
  <1>1. r \in SlotRecords
    BY DEF SlotGood
  <1>2. \A j \in Kinds : r.kernel[j] \in Nat /\ r.cq[j] \in Nat
    BY <1>1, FieldTypes
  <1>3. x \in [Kinds -> Nat] /\ z \in [Kinds -> Nat]
    <2>1. r.kernel[k] - 1 \in Nat /\ r.cq[k] + 1 \in Nat
      BY <1>2
    <2> QED BY <1>1, <2>1, FieldTypes
  <1>4. \A j \in Kinds : x[j] + z[j] = r.kernel[j] + r.cq[j]
    BY <1>1, <1>2, FieldTypes
  <1>5. s = [r EXCEPT !.kernel = x, !.cq = z]
    BY DEF Completed
  <1> HIDE DEF s, x, z
  <1>6. /\ s \in SlotRecords
        /\ s.kernel = x /\ s.cq = z
        /\ s.pending_ops = r.pending_ops /\ s.free = r.free /\ s.pending_free = r.pending_free
        /\ s.slices = r.slices /\ s.open = r.open /\ s.mode = r.mode
    BY <1>1, <1>3, <1>5, Zenon DEF SlotRecords
  <1>7. Owed(s) = Owed(r)
    <2> DEFINE w(j) == r.kernel[j] + r.cq[j]
               v(j) == s.kernel[j] + s.cq[j]
    <2>1. \A j \in Kinds : v(j) = w(j)
      BY <1>4, <1>6
    <2>2. Owed(r) = w("Recv") + w("Send") + w("UpstreamConnect")
                      + w("UpstreamRecv") + w("UpstreamSend") + w("HandlerTimer")
      BY <1>1, CounterTypes DEF Owed
    <2>3. Owed(s) = v("Recv") + v("Send") + v("UpstreamConnect")
                      + v("UpstreamRecv") + v("UpstreamSend") + v("HandlerTimer")
      <3>1. s \in SlotRecords
        BY <1>6
      <3> QED BY <3>1, CounterTypes DEF Owed
    <2> HIDE DEF v, w
    <2> QED BY <2>1, <2>2, <2>3 DEF Kinds
  <1>8. SlotGood(s) /\ s.open = r.open
    BY <1>6, <1>7 DEF SlotGood, One
  <1> QED BY <1>8 DEF s

\* The resubmission of a partial send moves one unit back to the kernel.
LEMMA ResubmitGood ==
    ASSUME NEW r, SlotGood(r), NEW k \in Kinds, r.cq[k] > 0
    PROVE  SlotGood(Resubmitted(r, k)) /\ Resubmitted(r, k).open = r.open
  <1> DEFINE s == Resubmitted(r, k)
             x == [r.kernel EXCEPT ![k] = @ + 1]
             z == [r.cq EXCEPT ![k] = @ - 1]
  <1>1. r \in SlotRecords
    BY DEF SlotGood
  <1>2. \A j \in Kinds : r.kernel[j] \in Nat /\ r.cq[j] \in Nat
    BY <1>1, FieldTypes
  <1>3. x \in [Kinds -> Nat] /\ z \in [Kinds -> Nat]
    <2>1. r.kernel[k] + 1 \in Nat /\ r.cq[k] - 1 \in Nat
      BY <1>2
    <2> QED BY <1>1, <2>1, FieldTypes
  <1>4. \A j \in Kinds : x[j] + z[j] = r.kernel[j] + r.cq[j]
    BY <1>1, <1>2, FieldTypes
  <1>5. s = [r EXCEPT !.kernel = x, !.cq = z]
    BY DEF Resubmitted
  <1> HIDE DEF s, x, z
  <1>6. /\ s \in SlotRecords
        /\ s.kernel = x /\ s.cq = z
        /\ s.pending_ops = r.pending_ops /\ s.free = r.free /\ s.pending_free = r.pending_free
        /\ s.slices = r.slices /\ s.open = r.open /\ s.mode = r.mode
    BY <1>1, <1>3, <1>5, Zenon DEF SlotRecords
  <1>7. Owed(s) = Owed(r)
    <2> DEFINE w(j) == r.kernel[j] + r.cq[j]
               v(j) == s.kernel[j] + s.cq[j]
    <2>1. \A j \in Kinds : v(j) = w(j)
      BY <1>4, <1>6
    <2>2. Owed(r) = w("Recv") + w("Send") + w("UpstreamConnect")
                      + w("UpstreamRecv") + w("UpstreamSend") + w("HandlerTimer")
      BY <1>1, CounterTypes DEF Owed
    <2>3. Owed(s) = v("Recv") + v("Send") + v("UpstreamConnect")
                      + v("UpstreamRecv") + v("UpstreamSend") + v("HandlerTimer")
      <3>1. s \in SlotRecords
        BY <1>6
      <3> QED BY <3>1, CounterTypes DEF Owed
    <2> HIDE DEF v, w
    <2> QED BY <2>1, <2>2, <2>3 DEF Kinds
  <1>8. SlotGood(s) /\ s.open = r.open
    BY <1>6, <1>7 DEF SlotGood, One
  <1> QED BY <1>8 DEF s

-----------------------------------------------------------------------------

\* The inductive invariant: every slot is good, and the loop's own variables
\* have their types.
IndInv == SlotInvariant /\ TypeOK

\* All slots start free, with nothing owed and nothing held.
LEMMA InitInv == Init => IndInv
  <1> SUFFICES ASSUME Init PROVE IndInv
    OBVIOUS
  <1> DEFINE z == [k \in Kinds |-> 0]
  <1>1. z \in [Kinds -> Nat] /\ \A k \in Kinds : z[k] = 0
    OBVIOUS
  <1>2. InitialSlot = [free |-> 1, pending_free |-> 0, open |-> FALSE, upstream |-> FALSE,
                       mode |-> "none", armed |-> {}, slices |-> {}, pending_ops |-> 0,
                       kernel |-> z, cq |-> z]
    BY DEF InitialSlot
  <1> HIDE DEF z
  <1>3. /\ InitialSlot \in SlotRecords
        /\ InitialSlot.kernel = z /\ InitialSlot.cq = z
        /\ InitialSlot.pending_ops = 0 /\ InitialSlot.free = 1
        /\ InitialSlot.pending_free = 0 /\ InitialSlot.open = FALSE
        /\ InitialSlot.mode = "none" /\ InitialSlot.slices = {}
    BY <1>1, <1>2 DEF SlotRecords
  <1>4. Owed(InitialSlot) = 0
    BY <1>1, <1>3 DEF Owed, Kinds
  <1>5. SlotGood(InitialSlot)
    BY <1>3, <1>4 DEF SlotGood, One
  <1>6. SlotInvariant
    BY <1>5 DEF Init, SlotInvariant
  <1>7. slot \in [Conns -> SlotRecords]
    BY <1>3 DEF Init
  <1>8. deferred \in 0 .. MaxDeferred
    BY ConstantsAssumption DEF Init
  <1> QED BY <1>6, <1>7, <1>8, Zenon DEF Init, IndInv, TypeOK

\* What NoReuseWhileOwed says of a step.
FreshReuse == \A c \in Conns : ~slot[c].open /\ slot'[c].open => Owed(slot[c]) = 0

\* Replacing one slot by a good one keeps all slots good.
LEMMA OneSlotGood ==
    ASSUME IndInv, NEW c \in Conns, NEW q, SlotGood(q), slot' = [slot EXCEPT ![c] = q],
           q.open => slot[c].open \/ Owed(slot[c]) = 0
    PROVE  SlotInvariant' /\ slot' \in [Conns -> SlotRecords] /\ FreshReuse
  BY DEF IndInv, SlotInvariant, SlotGood, TypeOK, FreshReuse

\* A step that leaves the slots alone.
LEMMA SameSlotsGood ==
    ASSUME IndInv, slot' = slot
    PROVE  SlotInvariant' /\ slot' \in [Conns -> SlotRecords] /\ FreshReuse
  BY DEF IndInv, SlotInvariant, TypeOK, FreshReuse

\* Dropping the yield timer's flag changes no account.
LEMMA WheelResumedGood ==
    ASSUME NEW r, SlotGood(r)
    PROVE  SlotGood(WheelResumed(r)) /\ WheelResumed(r).open = r.open
  <1> DEFINE s == WheelResumed(r)
             a == r.armed \ {"HandlerTimer"}
  <1>1. r \in SlotRecords
    BY DEF SlotGood
  <1>2. a \in SUBSET Kinds
    BY <1>1, FieldTypes
  <1>3. s = [r EXCEPT !.armed = a]
    BY DEF WheelResumed
  <1> HIDE DEF s, a
  <1>4. /\ s \in SlotRecords
        /\ s.kernel = r.kernel /\ s.cq = r.cq
        /\ s.pending_ops = r.pending_ops /\ s.free = r.free /\ s.pending_free = r.pending_free
        /\ s.slices = r.slices /\ s.open = r.open /\ s.mode = r.mode
    BY <1>1, <1>2, <1>3 DEF SlotRecords
  <1>5. Owed(s) = Owed(r)
    BY <1>4, OwedSame
  <1>6. SlotGood(s) /\ s.open = r.open
    BY <1>4, <1>5 DEF SlotGood
  <1> QED BY <1>6 DEF s

\* Every step keeps the slots good, and opens only slots nothing is owed for.
LEMMA SlotStep ==
    ASSUME IndInv, Next
    PROVE  SlotInvariant' /\ slot' \in [Conns -> SlotRecords] /\ FreshReuse
  <1>0. \A c \in Conns : SlotGood(slot[c])
    BY DEF IndInv, SlotInvariant
  <1>1. ASSUME NEW c \in Conns, NEW k \in Kinds, KernelComplete(c, k)
        PROVE  SlotInvariant' /\ slot' \in [Conns -> SlotRecords] /\ FreshReuse
    <2>1. SlotGood(Completed(slot[c], k)) /\ Completed(slot[c], k).open = slot[c].open
      BY <1>0, <1>1, KernelCompleteGood DEF KernelComplete
    <2>2. slot' = [slot EXCEPT ![c] = Completed(slot[c], k)]
      BY <1>1 DEF KernelComplete
    <2> QED BY <2>1, <2>2, OneSlotGood, Zenon
  <1>14. ASSUME NEW c \in Conns, NEW k \in Kinds, Resubmit(c, k)
         PROVE  SlotInvariant' /\ slot' \in [Conns -> SlotRecords] /\ FreshReuse
    <2>1. SlotGood(Resubmitted(slot[c], k)) /\ Resubmitted(slot[c], k).open = slot[c].open
      BY <1>0, <1>14, ResubmitGood DEF Resubmit
    <2>2. slot' = [slot EXCEPT ![c] = Resubmitted(slot[c], k)]
      BY <1>14 DEF Resubmit
    <2> QED BY <2>1, <2>2, OneSlotGood, Zenon
  <1>2. ASSUME NEW c \in Conns, NEW ok, slot[c].free > 0,
               slot' = [slot EXCEPT ![c] = Allocate(slot[c], ok)]
        PROVE  SlotInvariant' /\ slot' \in [Conns -> SlotRecords] /\ FreshReuse
    BY <1>0, <1>2, AllocateGood, OneSlotGood, Zenon
  <1>3. [c \in Conns |-> ReclaimPending(slot[c])] = slot
    BY <1>0, ReclaimPendingSame DEF IndInv, TypeOK
  <1>4. ASSUME NEW c \in Conns, NEW ok, AcceptReclaimed(c, ok)
        PROVE  SlotInvariant' /\ slot' \in [Conns -> SlotRecords] /\ FreshReuse
    <2>1. slot[c].free > 0 /\ slot' = [slot EXCEPT ![c] = Allocate(slot[c], ok)]
      BY <1>3, <1>4, Zenon DEF AcceptReclaimed
    <2> QED BY <1>2, <2>1, Zenon
  <1>5. ASSUME NEW c \in Conns, NEW k \in Kinds, NEW ev, DispatchFinal(c, k, ev)
        PROVE  SlotInvariant' /\ slot' \in [Conns -> SlotRecords] /\ FreshReuse
    <2>1. PICK q \in Dispatched(Account(slot[c], k, ev)) : slot' = [slot EXCEPT ![c] = q]
      BY <1>5, Zenon DEF DispatchFinal
    <2>2. slot[c].cq[k] > 0
      BY <1>5 DEF DispatchFinal
    <2>3. /\ AlmostGood(Account(slot[c], k, ev))
          /\ Account(slot[c], k, ev).open = slot[c].open
          /\ Account(slot[c], k, ev).free = 0
      BY <1>0, <2>2, AccountGood
    <2>4. SlotGood(q) /\ (q.open => slot[c].open)
      BY <2>1, <2>3, DispatchedGood
    <2> QED BY <2>1, <2>4, OneSlotGood, Zenon
  <1>6. ASSUME NEW c \in Conns, NEW k \in Kinds, DispatchMore(c, k)
        PROVE  SlotInvariant' /\ slot' \in [Conns -> SlotRecords] /\ FreshReuse
    <2>1. PICK q \in Dispatched(slot[c]) : slot' = [slot EXCEPT ![c] = q]
      BY <1>6, Zenon DEF DispatchMore
    <2>2. slot[c].free = 0
      <3>1. slot[c] \in SlotRecords /\ slot[c].pending_ops = Owed(slot[c])
        BY <1>0 DEF SlotGood
      <3>2. slot[c].kernel[k] \in Nat /\ slot[c].cq[k] \in Nat /\ slot[c].free \in Nat
        BY <3>1, FieldTypes
      <3>3. Owed(slot[c]) > 0
        BY <1>6, <3>1, <3>2, OwedBound, OwedNat DEF DispatchMore
      <3> QED BY <1>0, <3>1, <3>2, <3>3 DEF SlotGood
    <2>3. SlotGood(q) /\ (q.open => slot[c].open)
      BY <1>0, <2>1, <2>2, GoodIsAlmost, DispatchedGood
    <2> QED BY <2>1, <2>3, OneSlotGood, Zenon
  <1>7. ASSUME NEW c \in Conns, NEW match \in BOOLEAN, DispatchTimer(c, match)
        PROVE  SlotInvariant' /\ slot' \in [Conns -> SlotRecords] /\ FreshReuse
    <2> DEFINE ev == IF match THEN "HandlerTimer" ELSE ""
               r == Account(slot[c], "HandlerTimer", ev)
               idle == IF r.pending_ops = 0 /\ r.mode # "yield" /\ ~r.open THEN ReclaimSlot(r) ELSE r
    <2>1. PICK q : /\ slot' = [slot EXCEPT ![c] = q]
                   /\ (q \in CallbackResults(r) /\ r.mode = "yield") \/ q = idle
      BY <1>7 DEF DispatchTimer
    <2>2. slot[c].cq["HandlerTimer"] > 0 /\ "HandlerTimer" \in Kinds
      BY <1>7 DEF DispatchTimer, Kinds
    <2>3. AlmostGood(r) /\ r.open = slot[c].open /\ r.free = 0
      BY <1>0, <2>2, AccountGood, ZenonT(60)
    <2> HIDE DEF r
    <2>4. CASE q \in CallbackResults(r) /\ r.mode = "yield"
      <3>1. r.open
        BY <2>3, <2>4 DEF AlmostGood
      <3>2. SlotGood(r)
        BY <2>3, <3>1, OpenFacts, Zenon DEF AlmostGood
      <3> QED BY <2>1, <2>3, <2>4, <3>1, <3>2, CallbackGood, OneSlotGood, Zenon
    <2>5. CASE q = idle /\ ~r.open /\ r.pending_ops = 0
      <3>1. q = ReclaimSlot(r)
        BY <2>3, <2>5 DEF AlmostGood
      <3>2. SlotGood(q) /\ ~q.open
        BY <2>3, <2>5, <3>1, ReclaimSlotGood
      <3> QED BY <2>1, <3>2, OneSlotGood, Zenon
    <2>6. CASE q = idle /\ (r.open \/ r.pending_ops # 0)
      <3>1. q = r
        BY <2>6
      <3>2. SlotGood(r)
        <4>1. r \in SlotRecords
          BY <2>3 DEF AlmostGood
        <4>2. r.pending_ops \in Nat /\ r.pending_free \in Nat /\ r.free \in Nat
          BY <4>1, FieldTypes
        <4> QED BY <2>3, <2>6, <4>1, <4>2, OpenFacts DEF AlmostGood, SlotGood
      <3> QED BY <2>1, <2>3, <3>1, <3>2, OneSlotGood, Zenon
    <2> QED BY <2>1, <2>4, <2>5, <2>6
  <1>8. ASSUME NEW c \in Conns, NEW ok, NEW hit \in BOOLEAN, DispatchTick(c, ok, hit)
        PROVE  SlotInvariant' /\ slot' \in [Conns -> SlotRecords] /\ FreshReuse
    <2>1. slot[c].open
      BY <1>8 DEF DispatchTick
    <2>2. PICK q : /\ slot' = [slot EXCEPT ![c] = q]
                   /\ q = Close(slot[c], ok, hit) \/ q \in CallbackResults(WheelResumed(slot[c]))
      BY <1>8, Zenon DEF DispatchTick
    <2>3. SlotGood(Close(slot[c], ok, hit))
      BY <1>0, <2>1, CloseGood
    <2>4. SlotGood(WheelResumed(slot[c])) /\ WheelResumed(slot[c]).open
      BY <1>0, <2>1, WheelResumedGood
    <2>5. SlotGood(q)
      BY <2>2, <2>3, <2>4, CallbackGood
    <2> QED BY <2>1, <2>2, <2>5, OneSlotGood, Zenon
  <1>9. ASSUME NEW ok, NEW hit \in BOOLEAN, ForceCloseAll(ok, hit)
        PROVE  SlotInvariant' /\ slot' \in [Conns -> SlotRecords] /\ FreshReuse
    <2>1. \A c \in Conns : SlotGood(slot'[c]) /\ (slot'[c].open => slot[c].open)
      BY <1>0, <1>9, CloseGood DEF ForceCloseAll
    <2>2. slot' \in [Conns -> SlotRecords]
      BY <1>9, <2>1 DEF ForceCloseAll, SlotGood
    <2> QED BY <2>1, <2>2 DEF SlotInvariant, FreshReuse
  <1>10. CASE LoopTail
    <2>1. slot' = slot \/ \E ok \in SqOutcomes, hit \in BOOLEAN : ForceCloseAll(ok, hit)
      BY <1>10 DEF LoopTail
    <2> QED BY <1>9, <2>1, SameSlotsGood
  <1>11. CASE AcceptDeferred \/ EndOfBatch
    BY <1>3, <1>11, SameSlotsGood DEF AcceptDeferred, EndOfBatch
  <1>12. CASE RetryDrop \/ Drain \/ Stop \/ DeadlinePasses
    BY <1>12, SameSlotsGood DEF RetryDrop, Drain, Stop, DeadlinePasses
  <1>13. ASSUME NEW c \in Conns, NEW ok, AcceptConn(c, ok) \/ RetryAccept(c, ok)
         PROVE  SlotInvariant' /\ slot' \in [Conns -> SlotRecords] /\ FreshReuse
    BY <1>2, <1>13 DEF AcceptConn, RetryAccept
  <1> QED
    BY <1>1, <1>4, <1>5, <1>6, <1>7, <1>8, <1>10, <1>11, <1>12, <1>13, <1>14
       DEF Next, LoopStep, Completion

\* The loop's own variables keep their types.
LEMMA ControlStep ==
    ASSUME IndInv, Next
    PROVE  /\ deferred' \in 0 .. MaxDeferred
           /\ phase' \in {"batch", "retry", "returned"}
           /\ draining' \in BOOLEAN
           /\ expired' \in BOOLEAN /\ running' \in BOOLEAN
  <1> USE ConstantsAssumption DEF IndInv, TypeOK, LoopUnchanged
  <1>1. CASE \E c \in Conns :
               \/ \E k \in Kinds : KernelComplete(c, k) \/ Resubmit(c, k) \/ DispatchMore(c, k)
               \/ \E ok \in SqOutcomes : AcceptConn(c, ok) \/ AcceptReclaimed(c, ok)
               \/ Completion(c)
               \/ \E ok \in SqOutcomes, hit \in BOOLEAN : DispatchTick(c, ok, hit)
    <2>1. LoopUnchanged
      BY <1>1 DEF KernelComplete, Resubmit, DispatchMore, AcceptConn, AcceptReclaimed, Completion,
                  DispatchFinal, DispatchTimer, DispatchTick
    <2> QED BY <2>1, SMTT(30)
  <1>2. CASE AcceptDeferred
    BY <1>2 DEF AcceptDeferred
  <1>3. CASE LoopStep
    <2>1. CASE EndOfBatch
      BY <2>1 DEF EndOfBatch
    <2>2. CASE \E c \in Conns, ok \in SqOutcomes : RetryAccept(c, ok)
      BY <2>2 DEF RetryAccept
    <2>3. CASE RetryDrop
      BY <2>3 DEF RetryDrop
    <2>4. CASE LoopTail
      BY <2>4, Zenon DEF LoopTail
    <2> QED BY <1>3, <2>1, <2>2, <2>3, <2>4 DEF LoopStep
  <1>4. CASE Drain \/ Stop \/ DeadlinePasses
    BY <1>4, Zenon DEF Drain, Stop, DeadlinePasses
  <1> QED BY <1>1, <1>2, <1>3, <1>4 DEF Next

\* The invariant is inductive.
LEMMA InductiveStep == IndInv /\ [Next]_vars => IndInv' /\ FreshReuse
  <1>1. ASSUME IndInv, Next PROVE IndInv' /\ FreshReuse
    BY <1>1, SlotStep, ControlStep DEF IndInv, TypeOK
  <1>2. ASSUME IndInv, UNCHANGED vars PROVE IndInv' /\ FreshReuse
    <2>1. SlotInvariant' /\ FreshReuse
      BY <1>2, SameSlotsGood DEF vars
    <2> QED BY <1>2, <2>1 DEF vars, IndInv, TypeOK
  <1> QED BY <1>1, <1>2

\* The slot accounting holds in every reachable state, for any number of slots
\* and any behaviour of the submission queue, the kernel and the callbacks.
THEOREM SlotInvariantHolds == Spec => []SlotInvariant
  <1>1. IndInv => SlotInvariant
    BY DEF IndInv
  <1> QED BY <1>1, InitInv, InductiveStep, PTL DEF Spec

\* Every variable of the loop keeps its type; the deferred accepts stay within
\* kMaxDeferredAccepts.
THEOREM TypeCorrect == Spec => []TypeOK
  <1>1. IndInv => TypeOK
    BY DEF IndInv
  <1> QED BY <1>1, InitInv, InductiveStep, PTL DEF Spec

\* pending_ops is exact (free_conn_impl may trust it).
THEOREM PendingOpsExactHolds == Spec => []PendingOpsExact
  <1>1. SlotInvariant => PendingOpsExact
    BY DEF SlotInvariant, SlotGood, PendingOpsExact
  <1> QED BY <1>1, SlotInvariantHolds, PTL

\* No id is twice on the free stack, or on it while in use.
THEOREM OneOwnerHolds == Spec => []OneOwner
  <1>1. SlotInvariant => OneOwner
    BY DEF SlotInvariant, SlotGood, OneOwner
  <1> QED BY <1>1, SlotInvariantHolds, PTL

\* Buffers outlive every operation the kernel may still perform on them.
THEOREM SlicesPinnedHolds == Spec => []SlicesPinned
  <1>1. ASSUME SlotInvariant PROVE SlicesPinned
    <2> SUFFICES ASSUME NEW c \in Conns
                 PROVE  /\ Owed(slot[c]) > 0 => {"recv_slice", "send_slice"} \subseteq slot[c].slices
                        /\ slot[c].free > 0 => slot[c].slices = {}
      BY DEF SlicesPinned
    <2>1. SlotGood(slot[c])
      BY <1>1 DEF SlotInvariant
    <2>2. slot[c].free \in Nat
      BY <2>1, FieldTypes DEF SlotGood
    <2> QED BY <2>1, <2>2 DEF SlotGood
  <1> QED BY <1>1, SlotInvariantHolds, PTL

\* A slot is reused only when no CQE of its previous life can arrive.
THEOREM NoReuseWhileOwedHolds == Spec => NoReuseWhileOwed
  <1>1. IndInv /\ [Next]_vars => [FreshReuse]_vars
    BY InductiveStep
  <1> QED BY <1>1, InitInv, InductiveStep, PTL DEF Spec, NoReuseWhileOwed, FreshReuse
=============================================================================
