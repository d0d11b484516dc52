------------------------ MODULE IoUringSendTheorems -------------------------
(***************************************************************************)
(* The steps of IoUringSend that end a send keep the invariant of          *)
(* IoUringSendProofs: the close of a connection, which cancels what it has *)
(* in flight, and the harvest, by induction over the CQEs that one wait()  *)
(* takes.  So every behaviour keeps it: a Send event means that the whole  *)
(* buffer was written, and pending_ops counts the completions still to     *)
(* come.                                                                   *)
(***************************************************************************)
EXTENDS IoUringSendProofs, FiniteSetTheorems

USE SMTT(30)

-----------------------------------------------------------------------------
(* Closing a connection.                                                   *)

\* A close posts one completion for each operation it cancels and each cancel SQE;
\* a cancel SQE reports a positive count only if something was cancelled.
LEMMA CancelIs ==
    ASSUME Facts, NEW c \in Conns, NEW targets \in SUBSET SendKinds, Single(targets), NEW K, Single(K),
           \A op \in K : Op(op), NEW q \in CancelCqes(c, targets, K)
    PROVE  /\ q \in Seq(Cqe) /\ \A i \in DOMAIN q : q[i].c = c
           /\ Cardinality(Mine(q, c)) = Cardinality(K) + Cardinality(targets)
           /\ Single(Good(q, c)) /\ (Good(q, c) # {} => K # {})
<1> DEFINE some(k) == {op \in K : op.type = k}
<1> DEFINE cancelled == { [c |-> c, type |-> op.type, res |-> ECANCELED] : op \in K }
<1> DEFINE cancels == { [c |-> c, type |-> k, res |-> Cardinality(some(k))] : k \in targets }
<1> DEFINE all == cancelled \cup cancels
<1>1. q \in Bijection(1 .. Cardinality(all), all)
  BY Zenon DEF CancelCqes
<1>2. \A k : Single(some(k)) /\ (some(k) # {} => K # {})
  BY DEF Single
<1>3. \A k : Cardinality(some(k)) \in Nat /\ (K = {} => Cardinality(some(k)) = 0)
  <2> HIDE DEF some
  <2> TAKE k
  <2>1. Cardinality(some(k)) \in Nat
    BY <1>2, SingleSize
  <2>2. K = {} => some(k) = {}
    BY <1>2
  <2> QED BY <2>1, <2>2, EmptySize
<1>4. \A x \in cancelled : x \in Cqe /\ x.c = c /\ x.res < 0
  BY DEF Cqe, Op, ECANCELED
<1>5. \A x \in cancels : x \in Cqe /\ x.c = c /\ x.res >= 0 /\ (x.res > 0 => K # {})
  <2> HIDE DEF some
  <2> QED BY <1>3 DEF Cqe
<1>6. /\ Single(cancelled) /\ (cancelled = {} <=> K = {})
      /\ Single(cancels) /\ (cancels = {} <=> targets = {})
  <2> HIDE DEF some
  <2> QED BY Zenon DEF Single
<1> HIDE DEF cancelled, cancels
<1>7. cancelled \cap cancels = {}
  <2> SUFFICES ASSUME NEW x \in cancelled, x \in cancels PROVE FALSE
    OBVIOUS
  <2>1. x.res \in Int
    BY <1>4 DEF Cqe
  <2> QED BY <1>4, <1>5, <2>1
<1>8. /\ IsFiniteSet(cancelled) /\ Cardinality(cancelled) = Cardinality(K)
      /\ Cardinality(cancelled) \in Nat
  <2>1. CASE K = {}
    BY <1>6, <2>1, EmptySize
  <2>2. CASE K # {}
    <3>1. cancelled # {} /\ Cardinality(K) = 1
      BY <1>6, <2>2, SingleSize
    <3> QED BY <1>6, <3>1, SingleSize
  <2> QED BY <2>1, <2>2
<1>9. /\ IsFiniteSet(cancels) /\ Cardinality(cancels) = Cardinality(targets)
      /\ Cardinality(cancels) \in Nat
  <2>1. CASE targets = {}
    BY <1>6, <2>1, EmptySize
  <2>2. CASE targets # {}
    <3>1. cancels # {} /\ Cardinality(targets) = 1
      BY <1>6, <2>2, SingleSize
    <3> QED BY <1>6, <3>1, SingleSize
  <2> QED BY <2>1, <2>2
<1>10. Cardinality(all) = Cardinality(K) + Cardinality(targets) /\ Cardinality(all) \in Nat
  <2>1. Cardinality(all)
          = Cardinality(cancelled) + Cardinality(cancels) - Cardinality(cancelled \cap cancels)
    BY <1>8, <1>9, UnionSize
  <2>2. Cardinality(cancelled \cap cancels) = 0
    BY <1>7, EmptySize
  <2> QED BY <1>8, <1>9, <2>1, <2>2
<1>11. \A x \in all : x \in Cqe /\ x.c = c /\ (x.res > 0 => x \in cancels /\ K # {})
  <2> SUFFICES ASSUME NEW x \in all
               PROVE  x \in Cqe /\ x.c = c /\ (x.res > 0 => x \in cancels /\ K # {})
    OBVIOUS
  <2>1. CASE x \in cancelled
    <3>1. x.res \in Int
      BY <1>4, <2>1 DEF Cqe
    <3> QED BY <1>4, <2>1, <3>1
  <2>2. CASE x \in cancels
    BY <1>5, <2>2
  <2> QED BY <2>1, <2>2
<1>12. PICK n \in Nat : n = Cardinality(all)
  BY <1>10
<1>13. /\ q \in [1..n -> all] /\ \A i, j \in 1..n : q[i] = q[j] => i = j
  <2> HIDE DEF all
  <2> QED BY <1>1, <1>12, Zenon DEF Bijection, Injection, IsInjective
<1>14. q \in Seq(Cqe) /\ DOMAIN q = 1..n
  <2>1. q \in [1..n -> Cqe]
    BY <1>11, <1>13
  <2> QED BY <2>1
<1>15. \A i \in 1..n : q[i] \in all
  BY <1>13
<1>16. \A i \in DOMAIN q : q[i].c = c
  BY <1>11, <1>14, <1>15
<1>17. Mine(q, c) = 1..n
  BY <1>14, <1>16 DEF Mine
<1>18. Cardinality(1..n) = n
  BY IntervalSize
<1>19. \A i \in Good(q, c) : i \in 1..n /\ q[i] \in cancels /\ K # {}
  BY <1>11, <1>14, <1>15 DEF Good
<1>20. Single(Good(q, c))
  BY <1>6, <1>13, <1>19 DEF Single
<1> QED BY <1>10, <1>12, <1>14, <1>16, <1>17, <1>18, <1>19, <1>20, Zenon

\* A queue with at most one entry of written bytes, after one with none.
LEMMA GoodAfter ==
    ASSUME NEW a \in Seq(Cqe), NEW b \in Seq(Cqe), NEW c, Good(a, c) = {}, Single(Good(b, c))
    PROVE  Single(Good(a \o b, c))
<1>1. ASSUME NEW i \in Good(a \o b, c) PROVE i \in Int /\ i - Len(a) \in Good(b, c)
  <2>1. i \in 1..(Len(a) + Len(b)) /\ (a \o b)[i].c = c /\ (a \o b)[i].res > 0
    BY <1>1 DEF Good
  <2>2. CASE i <= Len(a)
    <3>1. i \in Good(a, c)
      BY <2>1, <2>2 DEF Good
    <3> QED BY <3>1
  <2>3. CASE i > Len(a)
    BY <2>1, <2>3 DEF Good
  <2> QED BY <2>1, <2>2, <2>3
<1>2. ASSUME NEW i \in Good(a \o b, c), NEW j \in Good(a \o b, c) PROVE i = j
  <2>1. /\ i \in Int /\ i - Len(a) \in Good(b, c)
        /\ j \in Int /\ j - Len(a) \in Good(b, c)
    BY <1>1
  <2>2. i - Len(a) = j - Len(a)
    BY <2>1, Zenon DEF Single
  <2> QED BY <2>1, <2>2
<1> QED BY <1>2 DEF Single

\* What a close that cancels leaves of the closed connection's sends: its refused
\* completions b, those of the operations K given up and n cancels are in the CQ.
LEMMA CancelSelf ==
    ASSUME Facts, IInv, NEW c \in Conns, NEW b \in Seq(Cqe), NEW H, Taken(b, H, c),
           NEW K \in SUBSET Ops(H, c), NEW n \in Nat, NEW q \in Seq(Cqe),
           Cardinality(Mine(q, c)) = Cardinality(K) + n,
           Single(Good(q, c)), Good(q, c) # {} => K # {},
           Ops(kernel, c)' = Ops(H, c) \ K, cq' = (cq \o b) \o q, sq' = <<>>,
           UNCHANGED events, conn'[c].owed = conn[c].owed + n
    PROVE  OneSend(c)' /\ Owed(c)'
<1>1. TypeOK /\ cq \in Seq(Cqe) /\ OneSend(c) /\ Owed(c)
  BY Zenon DEF IInv, TypeOK
<1>2. PICK a \in Seq(Cqe) : a = cq \o b
  <2>1. cq \o b \in Seq(Cqe)
    BY <1>1
  <2> QED BY <2>1, Zenon
<1>3. cq' = a \o q
  BY <1>2, Zenon
<1>4. Single(Ops(H, c)) /\ Single(K)
  BY Zenon DEF Taken, Single
<1>5. K = {} => Ops(kernel, c)' = Ops(H, c)
  OBVIOUS
<1>6. ASSUME K # {} PROVE Ops(H, c) = K /\ Ops(kernel, c)' = {}
  <2>1. PICK y \in K : TRUE
    BY <1>6, Zenon
  <2>2. \A z \in Ops(H, c) : z = y
    BY <1>4, <2>1, Zenon DEF Single
  <2>3. Ops(H, c) = K
    BY <2>1, <2>2, Zenon
  <2> QED BY <2>3
<1>7. OneSend(c)'
  <2>1. Good(a, c) = Good(cq, c)
    BY <1>1, <1>2, GoodConcat DEF Taken
  <2>2. Mine(sq, c)' = {}
    BY DEF Mine
  <2>3. CASE K = {}
    <3>1. Good(a \o q, c) = Good(a, c)
      BY <2>3, GoodConcat, Zenon
    <3>2. Good(cq, c)' = Good(cq, c)
      BY <1>3, <2>1, <3>1, Zenon
    <3>3. Ops(H, c) = {} \/ Good(cq, c) = {}
      BY Zenon DEF Taken
    <3> QED BY <1>1, <1>4, <1>5, <2>2, <2>3, <3>2, <3>3, Zenon DEF OneSend, Single
  <2>4. CASE K # {}
    <3>1. Good(a, c) = {}
      BY <1>6, <2>1, <2>4, Zenon DEF Taken
    <3>2. Single(Good(a \o q, c))
      BY <3>1, GoodAfter, Zenon
    <3>3. Single(Good(cq, c)')
      BY <1>3, <3>2, Zenon
    <3> QED BY <1>6, <2>2, <2>4, <3>3, Zenon DEF OneSend, Single
  <2> QED BY <2>3, <2>4, Zenon
<1>8. Owed(c)'
  <2>1. PICK s \in Nat, m \in Nat, e \in Nat, k \in Nat :
          /\ s = Cardinality(Mine(sq, c)) /\ m = Cardinality(Mine(cq, c))
          /\ e = Cardinality(Mine(events, c)) /\ k = Cardinality(Ops(kernel, c))
    BY <1>1, Finite, Zenon
  <2>2. PICK x \in Nat, h \in Nat, z \in Nat :
          x = Cardinality(Mine(b, c)) /\ h = Cardinality(Ops(H, c)) /\ z = Cardinality(K)
    BY <1>4, MineIs, SingleSize, Zenon
  <2>3. Cardinality(Mine(cq, c)') = m + x + (z + n)
    <3>1. Cardinality(Mine(a \o q, c)) = Cardinality(Mine(a, c)) + Cardinality(Mine(q, c))
      BY MineConcat
    <3>2. Cardinality(Mine(a, c)) = Cardinality(Mine(cq, c)) + Cardinality(Mine(b, c))
      BY <1>1, <1>2, MineConcat
    <3> QED BY <1>3, <2>1, <2>2, <3>1, <3>2, ZenonT(40)
  <2>4. Cardinality(Ops(kernel, c)') = h - z
    <3>1. CASE K = {}
      <4>1. z = 0 /\ Cardinality(Ops(kernel, c)') = h
        BY <1>5, <2>2, <3>1, EmptySize, ZenonT(40)
      <4> QED BY <4>1
    <3>2. CASE K # {}
      <4>1. z = h /\ Cardinality(Ops(kernel, c)') = 0
        BY <1>6, <2>2, <3>2, EmptySize, Zenon
      <4> QED BY <4>1
    <3> QED BY <3>1, <3>2, Zenon
  <2>5. Cardinality(Mine(sq, c)') = 0
    <3>1. Mine(sq, c)' = {}
      BY DEF Mine
    <3> QED BY <3>1, EmptySize, Zenon
  <2>6. Cardinality(Mine(events, c)') = e
    BY <2>1
  <2>7. conn[c].owed = s + m + e + k
    BY <1>1, <2>1, Zenon DEF Owed
  <2>8. x + h = s + k
    BY <2>1, <2>2, Zenon DEF Taken
  <2>9. conn'[c].owed = (s + m + e + k) + n
    BY <2>7, Zenon
  <2>10. (s + m + e + k) + n = 0 + (m + x + (z + n)) + e + (h - z)
    BY <2>8
  <2> QED BY <2>3, <2>4, <2>5, <2>6, <2>9, <2>10, Zenon DEF Owed
<1> QED BY <1>7, <1>8

\* A close that cancels keeps the invariant: c's record becomes x, the kernel takes
\* the SQ, gives up the operations K and posts their completions and the cancels'.
LEMMA CancelOK ==
    ASSUME Facts, IInv, NEW c \in Conns, NEW targets \in SUBSET SendKinds, Single(targets),
           NEW x \in ConnRecord, x.owed = conn[c].owed + Cardinality(targets),
           x.armed = {}, x.waits = "none", ~x.open, conn' = [conn EXCEPT ![c] = x],
           UNCHANGED <<ss, events, want, got>>, owner' \in [Fds -> Conns \cup {None}],
           NEW H, H = kernel \cup Issued(sq),
           NEW K \in SUBSET { op \in H : op.c = c /\ op.type \in targets }, kernel' = H \ K,
           NEW b \in Refused(sq), NEW q \in CancelCqes(c, targets, K),
           cq' = (cq \o b) \o q, sq' = <<>>
    PROVE  IInv'
<1>1. TypeOK /\ conn \in [Conns -> ConnRecord] /\ cq \in Seq(Cqe)
  BY Zenon DEF IInv, TypeOK, ConnRecord
<1>2. b \in Seq(Cqe) /\ \A op \in H : Op(op)
  BY Issues, Zenon
<1>3. Taken(b, H, c)
  <2>1. OneSend(c)
    BY Zenon DEF IInv
  <2> QED BY <1>1, <2>1, Enters, Zenon
<1>4. K \in SUBSET Ops(H, c) /\ Single(K) /\ \A op \in K : Op(op)
  BY <1>2, <1>3 DEF Ops, Single, Taken
<1>5. /\ q \in Seq(Cqe) /\ \A i \in DOMAIN q : q[i].c = c
      /\ Cardinality(Mine(q, c)) = Cardinality(K) + Cardinality(targets)
      /\ Single(Good(q, c)) /\ (Good(q, c) # {} => K # {})
  BY <1>4, CancelIs, Zenon
<1>6. b \o q \in Seq(Cqe) /\ cq' = cq \o (b \o q) /\ cq' \in Seq(Cqe)
  BY <1>1, <1>2, <1>5
<1>7. conn' \in [Conns -> ConnRecord] /\ conn'[c] = x
  BY <1>1
<1>8. TypeOK'
  <2>1. \A op \in kernel' : Op(op)
    BY <1>2
  <2> QED BY <1>1, <1>6, <1>7, <2>1 DEF TypeOK, ConnRecord
<1>9. ASSUME NEW d \in Conns, d # c PROVE (OneSend(d) /\ Owed(d) /\ Waiting(d) /\ Account(d))'
  <2>1. PICK w \in Seq(Cqe) : w = b \o q
    BY <1>6, Zenon
  <2>2. cq' = cq \o w
    BY <1>6, <2>1, Zenon
  <2>3. Mine(q, d) = {} /\ Good(q, d) = {}
    BY <1>5, <1>9 DEF Mine, Good
  <2>4. Good(b, d) = {}
    <3>1. OneSend(d)
      BY Zenon DEF IInv
    <3> QED BY <1>1, <3>1, Enters, Zenon DEF Taken
  <2>5. Good(w, d) = {}
    <3>1. Good(b \o q, d) = Good(b, d)
      BY <1>2, <1>5, <2>3, GoodConcat
    <3> QED BY <2>1, <2>4, <3>1, Zenon
  <2>6. Cardinality(Mine(w, d)) = Cardinality(Mine(b, d))
    <3>1. Cardinality(Mine(w, d)) = Cardinality(Mine(b, d)) + Cardinality(Mine(q, d))
      BY <1>2, <1>5, <2>1, MineConcat
    <3>2. Cardinality(Mine(b, d)) \in Nat /\ Cardinality(Mine(q, d)) = 0
      BY <1>2, <2>3, MineIs, EmptySize, ZenonT(40)
    <3> QED BY <3>1, <3>2
  <2>7. Ops(kernel, d)' = Ops(H, d)
    BY <1>9 DEF Ops
  <2>8. conn'[d] = conn[d]
    BY <1>1, <1>9
  <2> QED BY <2>2, <2>5, <2>6, <2>7, <2>8, EntersConn, Zenon
<1>10. (OneSend(c) /\ Owed(c) /\ Waiting(c) /\ Account(c))'
  <2>1. Waiting(c)' /\ Account(c)'
    BY <1>7 DEF Waiting, Account
  <2>2. PICK n \in Nat : n = Cardinality(targets)
    BY SingleSize, Zenon
  <2>3. Ops(kernel, c)' = Ops(H, c) \ K
    BY DEF Ops
  <2>4. conn'[c].owed = conn[c].owed + n
    BY <1>7, <2>2, Zenon
  <2>5. Cardinality(Mine(q, c)) = Cardinality(K) + n
    BY <1>5, <2>2, Zenon
  <2>6. OneSend(c)' /\ Owed(c)'
    BY <1>2, <1>3, <1>4, <1>5, <2>3, <2>4, <2>5, CancelSelf, Zenon
  <2> QED BY <2>1, <2>6, ZenonT(40)
<1> QED BY <1>8, <1>9, <1>10 DEF IInv

\* Closing a connection keeps the invariant: the cancel SQEs are counted.
LEMMA CloseOK == ASSUME Facts, IInv, NEW c \in Conns, Close(c) PROVE IInv'
<1> DEFINE r == conn[c]
<1> DEFINE targets == IF r.owed = 0 THEN {} ELSE { k \in r.armed : k = "Send" \/ r.up # None }
<1> DEFINE n == Cardinality(targets)
<1>1. TypeOK /\ conn \in [Conns -> ConnRecord] /\ r \in ConnRecord /\ r.owed \in Nat /\ r.open
  BY Zenon DEF IInv, TypeOK, ConnRecord, Close
<1>2. OneSend(c) /\ Owed(c) /\ Waiting(c)
  BY DEF IInv
<1>3. targets \in SUBSET SendKinds /\ Single(targets)
  BY <1>1, <1>2 DEF Single, Waiting, ConnRecord
<1>4. n \in Nat
  BY <1>3, SingleSize
<1>5. conn' = [conn EXCEPT ![c] = Closed(r.owed + n)]
  BY Zenon DEF Close
<1>6. UNCHANGED <<ss, events, want, got>> /\ owner' \in [Fds -> Conns \cup {None}]
  BY <1>1 DEF Close, TypeOK
<1>7. /\ Closed(r.owed + n) \in ConnRecord /\ Closed(r.owed + n).owed = r.owed + n
      /\ Closed(r.owed + n).armed = {}
      /\ Closed(r.owed + n).waits = "none" /\ ~Closed(r.owed + n).open
  <2> HIDE DEF n
  <2>1. r.owed + n \in Nat
    BY <1>1, <1>4
  <2> QED BY <2>1 DEF Closed, ConnRecord
<1>8. CASE r.owed = 0
  <2>1. targets = {}
    BY <1>8
  <2>2. n = 0
    BY <2>1, EmptySize
  <2>3. UNCHANGED <<sq, kernel, cq>>
    BY <1>8 DEF Close
  <2> HIDE DEF n, targets
  <2>4. PICK x : x = Closed(r.owed + n)
    OBVIOUS
  <2>5. /\ x \in ConnRecord /\ x.owed = conn[c].owed /\ x.armed \subseteq {x.waits} /\ ~x.open
        /\ conn' = [conn EXCEPT ![c] = x]
    BY <1>1, <1>5, <1>7, <2>2, <2>4
  <2> QED BY <1>6, <1>8, <2>3, <2>5, NewConnOK, Zenon DEF ConnRecord
<1>9. CASE r.owed # 0
  <2>1. PICK H : H = kernel \cup Issued(sq)
    BY Zenon
  <2>2. PICK K \in SUBSET { op \in H : op.c = c /\ op.type \in targets } :
          /\ kernel' = H \ K
          /\ \E b \in Refused(sq), q \in CancelCqes(c, targets, K) : cq' = cq \o b \o q
    <3> HIDE DEF targets
    <3>1. \E K \in SUBSET { op \in H : op.c = c /\ op.type \in targets } :
             /\ kernel' = IF r.owed = 0 THEN kernel ELSE H \ K
             /\ \E b \in Refused(sq), q \in CancelCqes(c, targets, K) :
                  cq' = IF r.owed = 0 THEN cq ELSE cq \o b \o q
      BY <2>1, Zenon DEF Close, targets
    <3> QED BY <1>9, <3>1, Zenon
  <2>3. PICK b \in Refused(sq), q \in CancelCqes(c, targets, K) : cq' = (cq \o b) \o q
    <3> HIDE DEF targets
    <3> QED BY <2>2, Zenon
  <2>4. sq' = <<>>
    BY <1>9 DEF Close
  <2> HIDE DEF n, targets
  <2>5. PICK x \in ConnRecord : x = Closed(r.owed + n)
    BY <1>7, Zenon
  <2>6. /\ x.owed = conn[c].owed + Cardinality(targets)
        /\ x.armed = {} /\ x.waits = "none" /\ ~x.open
        /\ conn' = [conn EXCEPT ![c] = x]
    BY <1>5, <1>7, <2>5, Zenon DEF n
  <2> QED BY <1>3, <1>6, <2>1, <2>2, <2>3, <2>4, <2>6, CancelOK, Zenon
<1> QED BY <1>8, <1>9

\* The harvest before the first CQE, and what makes g the harvest of n CQEs.
Start == [ss |-> ss, sq |-> sq, events |-> <<>>]
Unfolds(g, n) == g = [k \in 0..n |-> IF k = 0 THEN Start ELSE Harvested(g[k - 1], cq[k])]

\* The harvest loop is what its definition says: such a function exists.
LEMMA HarvestingIs ==
    ASSUME Facts, TypeOK
    PROVE  /\ Harvesting[0] = Start
           /\ \A k \in Nat : k + 1 <= Len(cq) =>
                Harvesting[k + 1] = Harvested(Harvesting[k], cq[k + 1])
<1> DEFINE T == { n \in Nat : \E g : Unfolds(g, n) }
<1>1. 0 \in T
  <2> DEFINE g == [k \in 0..0 |-> Start]
  <2>1. g = [k \in 0..0 |-> IF k = 0 THEN Start ELSE Harvested(g[k - 1], cq[k])]
    OBVIOUS
  <2>2. Unfolds(g, 0)
    BY <2>1, Zenon DEF Unfolds
  <2> QED BY <2>2
<1>2. ASSUME NEW n \in Nat, n \in T PROVE n + 1 \in T
  <2>1. PICK g : Unfolds(g, n)
    BY <1>2
  <2> DEFINE f == [k \in 0..(n + 1) |-> IF k = n + 1 THEN Harvested(g[n], cq[n + 1]) ELSE g[k]]
  <2>2. \A k \in 0..n : g[k] = IF k = 0 THEN Start ELSE Harvested(g[k - 1], cq[k])
    BY <2>1 DEF Unfolds
  <2>3. \A k \in 0..n : f[k] = g[k]
    OBVIOUS
  <2>4. f[n + 1] = Harvested(g[n], cq[n + 1]) /\ n \in 0..n
    OBVIOUS
  <2>5. ASSUME NEW k \in 0..(n + 1) PROVE f[k] = IF k = 0 THEN Start ELSE Harvested(f[k - 1], cq[k])
    <3> HIDE DEF f
    <3>1. CASE k = n + 1
      <4>1. k - 1 = n /\ k # 0
        BY <3>1
      <4> QED BY <2>3, <2>4, <3>1, <4>1
    <3>2. CASE k = 0
      BY <2>2, <2>3, <3>2
    <3>3. CASE k # n + 1 /\ k # 0
      <4>1. k \in 0..n /\ k - 1 \in 0..n
        BY <3>3
      <4> QED BY <2>2, <2>3, <3>3, <4>1
    <3> QED BY <3>1, <3>2, <3>3
  <2>6. f = [k \in 0..(n + 1) |-> f[k]]
    OBVIOUS
  <2> HIDE DEF f
  <2>7. f = [k \in 0..(n + 1) |-> IF k = 0 THEN Start ELSE Harvested(f[k - 1], cq[k])]
    BY <2>5, <2>6, Zenon
  <2>8. Unfolds(f, n + 1)
    BY <2>7, Zenon DEF Unfolds
  <2> QED BY <2>8
<1>3. \A n \in Nat : n \in T
  <2> HIDE DEF T
  <2> QED BY <1>1, <1>2, ByInduction
<1>4. Len(cq) \in Nat
  BY DEF TypeOK
<1>5. \E g : Unfolds(g, Len(cq))
  BY <1>3, <1>4
<1>6. Harvesting = CHOOSE g : Unfolds(g, Len(cq))
  BY Zenon DEF Harvesting, Unfolds, Start
<1>7. Unfolds(Harvesting, Len(cq))
  BY <1>5, <1>6, Zenon
<1>8. \A k \in 0..Len(cq) : Harvesting[k] = IF k = 0 THEN Start ELSE Harvested(Harvesting[k - 1], cq[k])
  BY <1>7 DEF Unfolds
<1>9. Harvesting[0] = Start
  BY <1>4, <1>8
<1>10. ASSUME NEW k \in Nat, k + 1 <= Len(cq)
       PROVE Harvesting[k + 1] = Harvested(Harvesting[k], cq[k + 1])
  <2>1. k + 1 \in 0..Len(cq) /\ k + 1 # 0 /\ (k + 1) - 1 = k
    BY <1>4, <1>10
  <2> QED BY <1>8, <2>1
<1> QED BY <1>9, <1>10

\* The types of a send_state entry and of the harvest's record.
SS == [fd : Fds \cup {None}, offset : Int, remaining : Int]
Hrec == [ss : [Conns -> SS], sq : Seq(Sqe), events : Seq(Cqe)]

\* A record of the harvest from its three parts.
LEMMA Updated ==
    ASSUME NEW g, NEW t \in [Conns -> SS], NEW q \in Seq(Sqe), NEW v \in Seq(Cqe),
           g = [ss |-> t, sq |-> q, events |-> v]
    PROVE  g \in Hrec /\ g.ss = t /\ g.sq = q /\ g.events = v
  BY DEF Hrec

\* The two outcomes of one CQE: the rest of the buffer is queued again, or an
\* event is returned, which reports bytes only for a finished buffer.
Continued(h, e, g, c) ==
    /\ e.res > 0 /\ h.ss[c].remaining - e.res > 0 /\ g.events = h.events
    /\ g.ss[c].offset = h.ss[c].offset + e.res
    /\ g.ss[c].remaining = h.ss[c].remaining - e.res
    /\ \E x \in Sqe : x.c = c /\ x.len = h.ss[c].remaining - e.res /\ g.sq = Append(h.sq, x)
Reported(h, e, g, c) ==
    /\ g.sq = h.sq
    /\ \E y \in Cqe : /\ y.c = c /\ g.events = Append(h.events, y)
                      /\ y.res > 0 => /\ e.res > 0
                                      /\ h.ss[c].remaining > 0 => /\ h.ss[c].remaining - e.res <= 0
                                                                  /\ y.res = h.ss[c].offset + e.res

\* One CQE has one of the two outcomes, and touches one send_state entry.
LEMMA HarvestedIs ==
    ASSUME NEW h \in Hrec, NEW e \in Cqe, NEW g, g = Harvested(h, e), NEW c \in Conns, c = e.c
    PROVE  /\ g \in Hrec /\ \A d \in Conns : d # c => g.ss[d] = h.ss[d]
           /\ Continued(h, e, g, c) \/ Reported(h, e, g, c)
<1> DEFINE s == h.ss[c]
<1> DEFINE left == s.remaining - e.res
<1> DEFINE at(n) == [fd |-> s.fd, offset |-> s.offset + e.res, remaining |-> n]
<1> DEFINE moved(n) == [h.ss EXCEPT ![c] = at(n)]
<1> DEFINE x == [c |-> c, type |-> e.type, fd |-> s.fd, len |-> left]
<1> DEFINE y(res) == [c |-> c, type |-> "Send", res |-> res]
<1>1. /\ h.ss \in [Conns -> SS] /\ h.sq \in Seq(Sqe) /\ h.events \in Seq(Cqe)
      /\ s.offset \in Int /\ s.remaining \in Int /\ s.fd \in Fds \cup {None}
  BY DEF Hrec, SS
<1>2. e.res \in Int /\ e.type \in SendKinds /\ "Send" \in SendKinds /\ left \in Int
  BY <1>1 DEF Cqe, SendKinds
<1>3. \A n \in Int : at(n) \in SS /\ at(n).offset = s.offset + e.res /\ at(n).remaining = n
  <2> HIDE DEF s
  <2> QED BY <1>1, <1>2 DEF SS
<1>4. x \in Sqe /\ x.c = c /\ x.len = left
  <2> HIDE DEF s, left
  <2> QED BY <1>1, <1>2 DEF Sqe
<1>5. \A res \in Int : y(res) \in Cqe /\ y(res).c = c /\ y(res).res = res
  BY <1>2 DEF Cqe
<1>6. g = IF e.res > 0 /\ s.remaining > 0
          THEN IF left > 0
               THEN IF Len(h.sq) < SqSize
                    THEN [ss |-> moved(left), sq |-> Append(h.sq, x), events |-> h.events]
                    ELSE [ss |-> moved(0), sq |-> h.sq, events |-> Append(h.events, y(ENOSPC))]
               ELSE [ss |-> moved(left), sq |-> h.sq, events |-> Append(h.events, y(s.offset + e.res))]
          ELSE [ss |-> h.ss, sq |-> h.sq, events |-> Append(h.events, e)]
  BY Zenon DEF Harvested
<1> HIDE DEF at
<1>7. \A n \in Int : /\ moved(n) \in [Conns -> SS] /\ moved(n)[c] = at(n)
                     /\ \A d \in Conns : d # c => moved(n)[d] = h.ss[d]
  BY <1>1, <1>3
<1> HIDE DEF moved, x, y, s, left
<1>8. CASE e.res > 0 /\ s.remaining > 0 /\ left > 0 /\ Len(h.sq) < SqSize
  <2>1. g = [ss |-> moved(left), sq |-> Append(h.sq, x), events |-> h.events]
    BY <1>6, <1>8, Zenon
  <2>2. Append(h.sq, x) \in Seq(Sqe) /\ moved(left) \in [Conns -> SS]
    BY <1>1, <1>2, <1>4, <1>7
  <2>3. g \in Hrec /\ g.ss = moved(left) /\ g.sq = Append(h.sq, x) /\ g.events = h.events
    <3>1. PICK t \in [Conns -> SS], q \in Seq(Sqe), v \in Seq(Cqe) :
            t = moved(left) /\ q = Append(h.sq, x) /\ v = h.events
      BY <1>1, <2>2, Zenon
    <3>2. g = [ss |-> t, sq |-> q, events |-> v]
      BY <2>1, <3>1, Zenon
    <3>3. g \in Hrec /\ g.ss = t /\ g.sq = q /\ g.events = v
      BY <3>2, Updated
    <3> QED BY <3>1, <3>3
  <2>4. /\ g.ss[c].offset = s.offset + e.res /\ g.ss[c].remaining = left
        /\ \A d \in Conns : d # c => g.ss[d] = h.ss[d]
    BY <1>2, <1>3, <1>7, <2>3
  <2> QED BY <1>4, <1>8, <2>3, <2>4, Zenon DEF s, left, Continued
<1>9. CASE e.res > 0 /\ s.remaining > 0 /\ left > 0 /\ ~(Len(h.sq) < SqSize)
  <2>1. g = [ss |-> moved(0), sq |-> h.sq, events |-> Append(h.events, y(ENOSPC))]
    BY <1>6, <1>9, Zenon
  <2>2. ENOSPC \in Int /\ ~(ENOSPC > 0) /\ 0 \in Int
    BY DEF ENOSPC
  <2>3. y(ENOSPC) \in Cqe /\ y(ENOSPC).c = c /\ y(ENOSPC).res = ENOSPC
    BY <1>5, <2>2
  <2>4. Append(h.events, y(ENOSPC)) \in Seq(Cqe) /\ moved(0) \in [Conns -> SS]
    BY <1>1, <1>7, <2>2, <2>3
  <2>5. g \in Hrec /\ g.ss = moved(0) /\ g.sq = h.sq /\ g.events = Append(h.events, y(ENOSPC))
    <3>1. PICK t \in [Conns -> SS], q \in Seq(Sqe), v \in Seq(Cqe) :
            t = moved(0) /\ q = h.sq /\ v = Append(h.events, y(ENOSPC))
      BY <1>1, <2>4, Zenon
    <3>2. g = [ss |-> t, sq |-> q, events |-> v]
      BY <2>1, <3>1, Zenon
    <3>3. g \in Hrec /\ g.ss = t /\ g.sq = q /\ g.events = v
      BY <3>2, Updated
    <3> QED BY <3>1, <3>3
  <2>6. \A d \in Conns : d # c => g.ss[d] = h.ss[d]
    BY <1>7, <2>2, <2>5
  <2> QED BY <2>2, <2>3, <2>5, <2>6 DEF Reported
<1>10. CASE e.res > 0 /\ s.remaining > 0 /\ ~(left > 0)
  <2>1. PICK n \in Int : n = s.offset + e.res
    BY <1>1, <1>2
  <2>2. g = [ss |-> moved(left), sq |-> h.sq, events |-> Append(h.events, y(n))]
    BY <1>6, <1>10, <2>1, Zenon
  <2>3. y(n) \in Cqe /\ y(n).c = c /\ y(n).res = n
    BY <1>5, <2>1
  <2>4. Append(h.events, y(n)) \in Seq(Cqe) /\ moved(left) \in [Conns -> SS]
    BY <1>1, <1>2, <1>7, <2>3
  <2>5. g \in Hrec /\ g.ss = moved(left) /\ g.sq = h.sq /\ g.events = Append(h.events, y(n))
    <3>1. PICK t \in [Conns -> SS], q \in Seq(Sqe), v \in Seq(Cqe) :
            t = moved(left) /\ q = h.sq /\ v = Append(h.events, y(n))
      BY <1>1, <2>4, Zenon
    <3>2. g = [ss |-> t, sq |-> q, events |-> v]
      BY <2>2, <3>1, Zenon
    <3>3. g \in Hrec /\ g.ss = t /\ g.sq = q /\ g.events = v
      BY <3>2, Updated
    <3> QED BY <3>1, <3>3
  <2>6. \A d \in Conns : d # c => g.ss[d] = h.ss[d]
    BY <1>2, <1>7, <2>5
  <2>7. left <= 0
    BY <1>2, <1>10
  <2> QED BY <1>10, <2>1, <2>3, <2>5, <2>6, <2>7, Zenon DEF s, left, Reported
<1>11. CASE ~(e.res > 0 /\ s.remaining > 0)
  <2>1. g = [ss |-> h.ss, sq |-> h.sq, events |-> Append(h.events, e)]
    BY <1>6, <1>11, Zenon
  <2>2. Append(h.events, e) \in Seq(Cqe)
    BY <1>1
  <2>3. g \in Hrec /\ g.ss = h.ss /\ g.sq = h.sq /\ g.events = Append(h.events, e)
    <3>1. PICK t \in [Conns -> SS], q \in Seq(Sqe), v \in Seq(Cqe) :
            t = h.ss /\ q = h.sq /\ v = Append(h.events, e)
      BY <1>1, <2>2, Zenon
    <3>2. g = [ss |-> t, sq |-> q, events |-> v]
      BY <2>1, <3>1, Zenon
    <3>3. g \in Hrec /\ g.ss = t /\ g.sq = q /\ g.events = v
      BY <3>2, Updated
    <3> QED BY <3>1, <3>3
  <2> QED BY <1>11, <2>3 DEF s, Reported
<1> QED BY <1>8, <1>9, <1>10, <1>11

\* The CQEs of c among the first k.
Up(k, c) == { i \in 1..k : cq[i].c = c }
\* What holds of c after k CQEs, h the harvest so far: nothing is lost or doubled,
\* at most one send is queued again, and for an open connection the accounts agree.
Halfway(h, k, c) ==
    /\ Cardinality(Mine(h.sq, c)) + Cardinality(Mine(h.events, c))
         = Cardinality(Mine(sq, c)) + Cardinality(Up(k, c))
    /\ Single(Mine(h.sq, c))
    /\ Mine(h.sq, c) = {} \/ Mine(sq, c) # {} \/ \E i \in Good(cq, c) : i <= k
    /\ conn[c].open =>
         /\ Up(k, c) = {} => h.ss[c] = ss[c]
         /\ \A i \in Mine(h.sq, c) : Rest(h.ss[c], c, h.sq[i].len)
         /\ \A i \in Good(h.events, c) : h.events[i].res = want[c] /\ got[c] = want[c]
J(h, k) == h \in Hrec /\ \A c \in Conns : Halfway(h, k, c)

\* The CQEs of c among the first k, step by step.
LEMMA UpIs ==
    ASSUME Facts, TypeOK, NEW k \in Nat, k <= Len(cq), NEW c
    PROVE  /\ Up(k, c) \subseteq Mine(cq, c)
           /\ IsFiniteSet(Up(k, c)) /\ Cardinality(Up(k, c)) \in Nat
           /\ Up(0, c) = {} /\ Cardinality(Up(0, c)) = 0 /\ Up(Len(cq), c) = Mine(cq, c)
           /\ k + 1 <= Len(cq) =>
                /\ Up(k + 1, c) = Up(k, c) \cup (IF cq[k + 1].c = c THEN {k + 1} ELSE {})
                /\ Cardinality(Up(k + 1, c)) = Cardinality(Up(k, c)) + IF cq[k + 1].c = c THEN 1 ELSE 0
<1>1. cq \in Seq(Cqe) /\ DOMAIN cq = 1..Len(cq) /\ Len(cq) \in Nat
  BY DEF TypeOK
<1>2. Up(k, c) \subseteq Mine(cq, c) /\ Up(0, c) = {} /\ Up(Len(cq), c) = Mine(cq, c)
  BY <1>1 DEF Up, Mine
<1>3. IsFiniteSet(Up(k, c)) /\ Cardinality(Up(k, c)) \in Nat
  <2>1. IsFiniteSet(Mine(cq, c))
    BY <1>1, MineIs
  <2> QED BY <1>2, <2>1, SubsetSize, SizeIsNat
<1>4. ASSUME k + 1 <= Len(cq)
      PROVE  /\ Up(k + 1, c) = Up(k, c) \cup (IF cq[k + 1].c = c THEN {k + 1} ELSE {})
             /\ Cardinality(Up(k + 1, c)) = Cardinality(Up(k, c)) + IF cq[k + 1].c = c THEN 1 ELSE 0
  <2>1. 1..(k + 1) = 1..k \cup {k + 1} /\ k + 1 \notin 1..k
    OBVIOUS
  <2>2. k + 1 \notin Up(k, c)
    BY <2>1 DEF Up
  <2>3. CASE cq[k + 1].c = c
    <3>1. Up(k + 1, c) = Up(k, c) \cup {k + 1}
      BY <2>1, <2>3 DEF Up
    <3>2. Cardinality(Up(k, c) \cup {k + 1}) = Cardinality(Up(k, c)) + 1
      BY <1>3, <2>2, AddedSize
    <3> QED BY <2>3, <3>1, <3>2, Zenon
  <2>4. CASE cq[k + 1].c # c
    <3>1. Up(k + 1, c) = Up(k, c)
      BY <2>1, <2>4 DEF Up
    <3> QED BY <1>3, <2>4, <3>1
  <2> QED BY <2>3, <2>4
<1>5. Cardinality(Up(0, c)) = 0
  BY <1>2, EmptySize
<1> QED BY <1>2, <1>3, <1>4, <1>5

\* The harvest starts from the invariant.
LEMMA StartsHalfway == ASSUME Facts, IInv PROVE J(Start, 0)
<1>1. TypeOK /\ ss \in [Conns -> SS] /\ sq \in Seq(Sqe)
  BY DEF IInv, TypeOK, SS
<1>2. Start \in Hrec /\ Start.ss = ss /\ Start.sq = sq /\ Start.events = <<>>
  BY <1>1 DEF Start, Hrec
<1>3. ASSUME NEW c \in Conns PROVE Halfway(Start, 0, c)
  <2>1. OneSend(c) /\ Account(c)
    BY DEF IInv
  <2>2. Mine(Start.events, c) = {} /\ Good(Start.events, c) = {}
    BY <1>2 DEF Mine, Good
  <2>3. Cardinality(Mine(Start.events, c)) = 0 /\ Cardinality(Mine(Start.sq, c)) \in Nat
    BY <1>1, <1>2, <2>2, MineIs, EmptySize, Zenon
  <2>4. Up(0, c) = {} /\ Cardinality(Up(0, c)) = 0
    <3>1. 0 \in Nat /\ 0 <= Len(cq)
      BY <1>1 DEF TypeOK
    <3> QED BY <1>1, <3>1, UpIs
  <2>5. Cardinality(Mine(Start.sq, c)) + Cardinality(Mine(Start.events, c))
          = Cardinality(Mine(sq, c)) + Cardinality(Up(0, c))
    BY <1>2, <2>3, <2>4
  <2>6. Single(Mine(Start.sq, c)) /\ (Mine(Start.sq, c) = {} \/ Mine(sq, c) # {})
    BY <1>2, <2>1 DEF OneSend
  <2>7. conn[c].open => /\ Start.ss[c] = ss[c]
                        /\ \A i \in Mine(Start.sq, c) : Rest(Start.ss[c], c, Start.sq[i].len)
    BY <1>2, <2>1 DEF Account
  <2> QED BY <2>2, <2>5, <2>6, <2>7, Zenon DEF Halfway
<1> QED BY <1>2, <1>3 DEF J

\* A CQE of another connection leaves what holds of d.
LEMMA HalfwayOther ==
    ASSUME Facts, NEW k \in Nat, k + 1 <= Len(cq), TypeOK, NEW h \in Hrec, NEW g \in Hrec, NEW d \in Conns,
           Halfway(h, k, d), cq[k + 1].c # d, g.ss[d] = h.ss[d],
           g.sq = h.sq \/ \E x \in Sqe : x.c # d /\ g.sq = Append(h.sq, x),
           g.events = h.events \/ \E y \in Cqe : y.c # d /\ g.events = Append(h.events, y)
    PROVE  Halfway(g, k + 1, d)
<1>1. h.sq \in Seq(Sqe) /\ h.events \in Seq(Cqe)
  BY Zenon DEF Hrec
<1>2. Up(k + 1, d) = Up(k, d)
  <2>1. k <= Len(cq)
    BY DEF TypeOK
  <2>2. Up(k + 1, d) = Up(k, d) \cup (IF cq[k + 1].c = d THEN {k + 1} ELSE {})
    BY <2>1, UpIs, Zenon
  <2> QED BY <2>2, Zenon
<1>3. Mine(g.sq, d) = Mine(h.sq, d) /\ \A i \in Mine(h.sq, d) : g.sq[i] = h.sq[i]
  <2>1. CASE g.sq = h.sq
    BY <2>1
  <2>2. CASE \E x \in Sqe : x.c # d /\ g.sq = Append(h.sq, x)
    <3>1. PICK x \in Sqe : x.c # d /\ g.sq = Append(h.sq, x)
      BY <2>2
    <3>2. Mine(Append(h.sq, x), d) = Mine(h.sq, d)
      BY <1>1, <3>1, MineAppend
    <3>3. \A i \in Mine(h.sq, d) : Append(h.sq, x)[i] = h.sq[i]
      BY <1>1 DEF Mine
    <3> QED BY <3>1, <3>2, <3>3, Zenon
  <2> QED BY <2>1, <2>2
<1>4. Mine(g.events, d) = Mine(h.events, d) /\ \A i \in Mine(h.events, d) : g.events[i] = h.events[i]
  <2>1. CASE g.events = h.events
    BY <2>1
  <2>2. CASE \E y \in Cqe : y.c # d /\ g.events = Append(h.events, y)
    <3>1. PICK y \in Cqe : y.c # d /\ g.events = Append(h.events, y)
      BY <2>2
    <3>2. Mine(Append(h.events, y), d) = Mine(h.events, d)
      BY <1>1, <3>1, MineAppend
    <3>3. \A i \in Mine(h.events, d) : Append(h.events, y)[i] = h.events[i]
      BY <1>1 DEF Mine
    <3> QED BY <3>1, <3>2, <3>3, Zenon
  <2> QED BY <2>1, <2>2
<1>5. Good(g.events, d) = Good(h.events, d) /\ \A i \in Good(h.events, d) : g.events[i] = h.events[i]
  <2>1. /\ Good(g.events, d) = { i \in Mine(g.events, d) : g.events[i].res > 0 }
        /\ Good(h.events, d) = { i \in Mine(h.events, d) : h.events[i].res > 0 }
    BY DEF Good, Mine
  <2> QED BY <1>4, <2>1
<1>6. /\ Cardinality(Mine(g.sq, d)) + Cardinality(Mine(g.events, d))
           = Cardinality(Mine(sq, d)) + Cardinality(Up(k + 1, d))
      /\ Single(Mine(g.sq, d))
  BY <1>2, <1>3, <1>4, Zenon DEF Halfway
<1>7. Mine(g.sq, d) = {} \/ Mine(sq, d) # {} \/ \E i \in Good(cq, d) : i <= k + 1
  <2>1. Mine(h.sq, d) = {} \/ Mine(sq, d) # {} \/ \E i \in Good(cq, d) : i <= k
    BY DEF Halfway
  <2>2. \A i \in Good(cq, d) : i <= k => i <= k + 1
    BY DEF Good, TypeOK
  <2> QED BY <1>3, <2>1, <2>2, ZenonT(60)
<1>8. ASSUME conn[d].open
      PROVE  /\ Up(k + 1, d) = {} => g.ss[d] = ss[d]
             /\ \A i \in Mine(g.sq, d) : Rest(g.ss[d], d, g.sq[i].len)
             /\ \A i \in Good(g.events, d) : g.events[i].res = want[d] /\ got[d] = want[d]
  <2>1. /\ Up(k, d) = {} => h.ss[d] = ss[d]
        /\ \A i \in Mine(h.sq, d) : Rest(h.ss[d], d, h.sq[i].len)
        /\ \A i \in Good(h.events, d) : h.events[i].res = want[d] /\ got[d] = want[d]
    BY <1>8 DEF Halfway
  <2>2. Up(k + 1, d) = {} => g.ss[d] = ss[d]
    BY <1>2, <2>1, Zenon
  <2>3. \A i \in Mine(g.sq, d) : Rest(g.ss[d], d, g.sq[i].len)
    BY <1>3, <2>1, Zenon
  <2>4. \A i \in Good(g.events, d) : g.events[i].res = want[d] /\ got[d] = want[d]
    BY <1>5, <2>1, Zenon
  <2> QED BY <2>2, <2>3, <2>4, Zenon
<1> QED BY <1>6, <1>7, <1>8, Zenon DEF Halfway

\* What holds of c just before its CQE e, the one after the first k, is harvested.
Before(h, e, k, c) ==
    /\ e.res \in Int /\ \A i \in Good(cq, c) : i \in Int
    /\ Cardinality(Up(k + 1, c)) = Cardinality(Up(k, c)) + 1 /\ Cardinality(Up(k, c)) \in Nat
    /\ Up(k + 1, c) # {}
    /\ Cardinality(Mine(h.sq, c)) \in Nat /\ Cardinality(Mine(h.events, c)) \in Nat
    /\ Cardinality(Mine(sq, c)) \in Nat
    /\ e.res > 0 => k + 1 \in Good(cq, c) /\ Mine(h.sq, c) = {}
    /\ conn[c].open => h.ss[c] = ss[c] /\ Mine(h.sq, c) = {} /\ Mine(h.events, c) = {}
    /\ conn[c].open /\ e.res > 0 =>
         /\ e.res <= ss[c].remaining /\ got[c] = ss[c].offset + e.res
         /\ ss[c].offset + ss[c].remaining = want[c]
         /\ ss[c].remaining \in Int /\ ss[c].offset \in Int

\* Of an open connection no CQE came before this one.
LEMMA BeforeIs ==
    ASSUME Facts, IInv, NEW k \in Nat, k + 1 <= Len(cq), NEW h \in Hrec, NEW c \in Conns,
           NEW e, e = cq[k + 1], e.c = c, Halfway(h, k, c)
    PROVE  Before(h, e, k, c)
<1>1. /\ TypeOK /\ cq \in Seq(Cqe) /\ k + 1 \in DOMAIN cq
      /\ e \in Cqe /\ k <= Len(cq) /\ e.res \in Int
      /\ h.sq \in Seq(Sqe) /\ h.events \in Seq(Cqe) /\ DOMAIN cq \subseteq Int
  <2>1. TypeOK /\ cq \in Seq(Cqe) /\ h.sq \in Seq(Sqe) /\ h.events \in Seq(Cqe)
    BY DEF IInv, TypeOK, Hrec
  <2>2. k + 1 \in DOMAIN cq /\ k <= Len(cq) /\ DOMAIN cq \subseteq Int /\ e \in Cqe
    BY <2>1
  <2> QED BY <2>1, <2>2 DEF Cqe
<1>2. OneSend(c) /\ Owed(c) /\ Waiting(c) /\ Account(c)
  BY DEF IInv
<1>3. /\ Cardinality(Up(k + 1, c)) = Cardinality(Up(k, c)) + 1 /\ Cardinality(Up(k, c)) \in Nat
      /\ Up(k, c) \subseteq Mine(cq, c)
  <2>1. /\ Cardinality(Up(k + 1, c)) = Cardinality(Up(k, c)) + IF cq[k + 1].c = c THEN 1 ELSE 0
        /\ Cardinality(Up(k, c)) \in Nat /\ Up(k, c) \subseteq Mine(cq, c)
    BY <1>1, UpIs, Zenon
  <2> QED BY <2>1
<1>4. Up(k + 1, c) # {}
  <2>1. k + 1 \in 1..(k + 1)
    OBVIOUS
  <2> QED BY <2>1 DEF Up
<1>5. /\ Cardinality(Mine(h.sq, c)) \in Nat /\ Cardinality(Mine(h.events, c)) \in Nat
      /\ IsFiniteSet(Mine(h.sq, c)) /\ IsFiniteSet(Mine(h.events, c))
      /\ Cardinality(Mine(sq, c)) \in Nat /\ Cardinality(Mine(cq, c)) \in Nat
      /\ Cardinality(Mine(events, c)) \in Nat
      /\ Cardinality(Ops(kernel, c)) \in Nat /\ IsFiniteSet(Mine(cq, c)) /\ IsFiniteSet(Mine(sq, c))
  BY <1>1, <1>2, MineIs, Finite, Zenon
<1>6. Cardinality(Mine(h.sq, c)) + Cardinality(Mine(h.events, c))
        = Cardinality(Mine(sq, c)) + Cardinality(Up(k, c))
  BY Zenon DEF Halfway
<1>7. e.res > 0 => k + 1 \in Good(cq, c) /\ Mine(h.sq, c) = {}
  <2> SUFFICES ASSUME e.res > 0 PROVE k + 1 \in Good(cq, c) /\ Mine(h.sq, c) = {}
    OBVIOUS
  <2>1. k + 1 \in Good(cq, c)
    BY <1>1 DEF Good
  <2>2. Mine(sq, c) = {}
    BY <1>2, <2>1 DEF OneSend
  <2>3. \A i \in Good(cq, c) : i = k + 1 /\ ~(k + 1 <= k)
    BY <1>2, <2>1 DEF OneSend, Single
  <2>4. Mine(h.sq, c) = {} \/ Mine(sq, c) # {} \/ \E i \in Good(cq, c) : i <= k
    BY Zenon DEF Halfway
  <2> QED BY <2>1, <2>2, <2>3, <2>4
<1>8. ASSUME conn[c].open
      PROVE  h.ss[c] = ss[c] /\ Mine(h.sq, c) = {} /\ Mine(h.events, c) = {}
  <2>1. k + 1 \in Mine(cq, c) /\ k + 1 \notin Up(k, c)
    BY <1>1 DEF Mine, Up
  <2>2. Mine(cq, c) # {} /\ Cardinality(Mine(cq, c)) # 0
    BY <1>5, <2>1, EmptySize
  <2>3. Cardinality(Mine(cq, c)) = 1 /\ Cardinality(Mine(sq, c)) = 0
    BY <1>2, <1>5, <1>8, <2>2 DEF Owed, Waiting
  <2>4. PICK x : Mine(cq, c) = {x}
    BY <1>5, <2>3, OneElement, Zenon
  <2>5. Up(k, c) = {}
    BY <1>3, <2>1, <2>4
  <2>6. Cardinality(Up(k, c)) = 0
    BY <2>5, EmptySize
  <2>7. Cardinality(Mine(h.sq, c)) = 0 /\ Cardinality(Mine(h.events, c)) = 0
    BY <1>5, <1>6, <2>3, <2>6
  <2>8. Mine(h.sq, c) = {} /\ Mine(h.events, c) = {}
    BY <1>5, <2>7, EmptySize
  <2> QED BY <1>8, <2>5, <2>8, Zenon DEF Halfway
<1>9. conn[c].open /\ e.res > 0 =>
        /\ e.res <= ss[c].remaining /\ got[c] = ss[c].offset + e.res
        /\ ss[c].offset + ss[c].remaining = want[c]
        /\ ss[c].remaining \in Int /\ ss[c].offset \in Int
  <2>1. ss[c].remaining \in Int /\ ss[c].offset \in Int
    BY <1>1, ZenonT(60) DEF TypeOK
  <2> QED BY <1>2, <1>7, <2>1, Zenon DEF Account
<1>10. \A i \in Good(cq, c) : i \in Int
  BY <1>1 DEF Good
<1> QED BY <1>1, <1>3, <1>4, <1>5, <1>7, <1>8, <1>9, <1>10, ZenonT(60) DEF Before

\* The send goes on with the rest of the buffer.
LEMMA AfterContinued ==
    ASSUME Facts, NEW k \in Nat, NEW h \in Hrec, NEW c \in Conns, NEW e, NEW g,
           Halfway(h, k, c), Before(h, e, k, c), Continued(h, e, g, c)
    PROVE  Halfway(g, k + 1, c)
<1>1. h.sq \in Seq(Sqe) /\ h.events \in Seq(Cqe)
  BY DEF Hrec
<1>2. e.res \in Int /\ \A i \in Good(cq, c) : i \in Int
  BY Zenon DEF Before
<1>3. Cardinality(Up(k + 1, c)) = Cardinality(Up(k, c)) + 1 /\ Cardinality(Up(k, c)) \in Nat
  BY Zenon DEF Before
<1>4. Up(k + 1, c) # {}
  BY Zenon DEF Before
<1>5. /\ Cardinality(Mine(h.sq, c)) \in Nat /\ Cardinality(Mine(h.events, c)) \in Nat
      /\ Cardinality(Mine(sq, c)) \in Nat
  BY Zenon DEF Before
<1>6. Cardinality(Mine(h.sq, c)) + Cardinality(Mine(h.events, c))
        = Cardinality(Mine(sq, c)) + Cardinality(Up(k, c))
  BY Zenon DEF Halfway
<1>7. e.res > 0 => k + 1 \in Good(cq, c) /\ Mine(h.sq, c) = {}
  BY Zenon DEF Before
<1>8. conn[c].open => h.ss[c] = ss[c] /\ Mine(h.sq, c) = {} /\ Mine(h.events, c) = {}
  BY Zenon DEF Before
<1>9. conn[c].open /\ e.res > 0 =>
        /\ e.res <= ss[c].remaining /\ got[c] = ss[c].offset + e.res
        /\ ss[c].offset + ss[c].remaining = want[c]
        /\ ss[c].remaining \in Int /\ ss[c].offset \in Int
  BY Zenon DEF Before
<1>10. /\ e.res > 0 /\ h.ss[c].remaining - e.res > 0 /\ g.events = h.events
       /\ g.ss[c].offset = h.ss[c].offset + e.res
       /\ g.ss[c].remaining = h.ss[c].remaining - e.res
  BY ZenonT(40) DEF Continued
<1>11. PICK x \in Sqe : x.c = c /\ x.len = h.ss[c].remaining - e.res /\ g.sq = Append(h.sq, x)
  BY DEF Continued
<1>12. k + 1 \in Good(cq, c) /\ Mine(h.sq, c) = {}
  BY <1>7, <1>10
<1>13. PICK m : m = Len(h.sq) + 1
  OBVIOUS
<1>14. Mine(g.sq, c) = {m} /\ g.sq[m] = x
  <2>1. x.c = c => Mine(Append(h.sq, x), c) = Mine(h.sq, c) \cup {Len(h.sq) + 1}
    <3>1. PICK q \in Seq(Sqe) : q = h.sq
      BY <1>1
    <3>2. x.c = c => Mine(Append(q, x), c) = Mine(q, c) \cup {Len(q) + 1}
      BY MineLonger
    <3> QED BY <3>1, <3>2
  <2>2. Append(h.sq, x)[Len(h.sq) + 1] = x
    BY <1>1
  <2> QED BY <1>11, <1>12, <1>13, <2>1, <2>2
<1>15. /\ Cardinality(Mine(g.sq, c)) = 1 /\ Cardinality(Mine(h.sq, c)) = 0
       /\ Mine(g.events, c) = Mine(h.events, c)
  BY <1>10, <1>12, <1>14, OneElement, EmptySize, ZenonT(40)
<1>16. Cardinality(Mine(g.sq, c)) + Cardinality(Mine(g.events, c))
         = Cardinality(Mine(sq, c)) + Cardinality(Up(k + 1, c))
  BY <1>3, <1>5, <1>6, <1>15
<1>17. Single(Mine(g.sq, c)) /\ \E i \in Good(cq, c) : i <= k + 1
  BY <1>12, <1>14 DEF Single
<1>18. ASSUME conn[c].open
       PROVE  /\ \A i \in Mine(g.sq, c) : Rest(g.ss[c], c, g.sq[i].len)
              /\ \A i \in Good(g.events, c) : g.events[i].res = want[c] /\ got[c] = want[c]
  <2>1. Good(g.events, c) = {}
    BY <1>8, <1>10, <1>18, ZenonT(40) DEF Good, Mine
  <2>2. Rest(g.ss[c], c, x.len)
    <3>1. /\ e.res <= ss[c].remaining /\ got[c] = ss[c].offset + e.res
          /\ ss[c].offset + ss[c].remaining = want[c]
          /\ ss[c].remaining \in Int /\ ss[c].offset \in Int /\ e.res \in Int /\ h.ss[c] = ss[c]
      BY <1>2, <1>8, <1>9, <1>18, <1>10, Zenon
    <3>2. /\ x.len = ss[c].remaining - e.res /\ x.len > 0
          /\ g.ss[c].offset = ss[c].offset + e.res /\ g.ss[c].remaining = ss[c].remaining - e.res
      BY <1>11, <1>10, <3>1, Zenon
    <3> QED BY <3>1, <3>2 DEF Rest
  <2> QED BY <1>14, <2>1, <2>2
<1> QED BY <1>4, <1>16, <1>17, <1>18, Zenon DEF Halfway

\* The send ends with an event.
LEMMA AfterReported ==
    ASSUME Facts, NEW k \in Nat, NEW h \in Hrec, NEW c \in Conns, NEW e, NEW g,
           Halfway(h, k, c), Before(h, e, k, c), Reported(h, e, g, c)
    PROVE  Halfway(g, k + 1, c)
<1>1. h.sq \in Seq(Sqe) /\ h.events \in Seq(Cqe)
  BY DEF Hrec
<1>2. e.res \in Int /\ \A i \in Good(cq, c) : i \in Int
  BY Zenon DEF Before
<1>3. Cardinality(Up(k + 1, c)) = Cardinality(Up(k, c)) + 1 /\ Cardinality(Up(k, c)) \in Nat
  BY Zenon DEF Before
<1>4. Up(k + 1, c) # {}
  BY Zenon DEF Before
<1>5. /\ Cardinality(Mine(h.sq, c)) \in Nat /\ Cardinality(Mine(h.events, c)) \in Nat
      /\ Cardinality(Mine(sq, c)) \in Nat
  BY Zenon DEF Before
<1>6. Cardinality(Mine(h.sq, c)) + Cardinality(Mine(h.events, c))
        = Cardinality(Mine(sq, c)) + Cardinality(Up(k, c))
  BY Zenon DEF Halfway
<1>7. e.res > 0 => k + 1 \in Good(cq, c) /\ Mine(h.sq, c) = {}
  BY Zenon DEF Before
<1>8. conn[c].open => h.ss[c] = ss[c] /\ Mine(h.sq, c) = {} /\ Mine(h.events, c) = {}
  BY Zenon DEF Before
<1>9. conn[c].open /\ e.res > 0 =>
        /\ e.res <= ss[c].remaining /\ got[c] = ss[c].offset + e.res
        /\ ss[c].offset + ss[c].remaining = want[c]
        /\ ss[c].remaining \in Int /\ ss[c].offset \in Int
  BY Zenon DEF Before
<1>10. g.sq = h.sq
  BY ZenonT(40) DEF Reported
<1>11. PICK y \in Cqe : /\ y.c = c /\ g.events = Append(h.events, y)
                        /\ y.res > 0 => /\ e.res > 0
                                        /\ h.ss[c].remaining > 0 =>
                                             /\ h.ss[c].remaining - e.res <= 0
                                             /\ y.res = h.ss[c].offset + e.res
  BY DEF Reported
<1>12. Cardinality(Mine(g.events, c)) = Cardinality(Mine(h.events, c)) + 1
  <2>1. Cardinality(Mine(Append(h.events, y), c)) = Cardinality(Mine(h.events, c)) + IF y.c = c THEN 1 ELSE 0
    <3>1. PICK q \in Seq(Cqe) : q = h.events
      BY <1>1
    <3>2. Cardinality(Mine(Append(q, y), c)) = Cardinality(Mine(q, c)) + IF y.c = c THEN 1 ELSE 0
      BY MineAppend
    <3> QED BY <3>1, <3>2
  <2> QED BY <1>11, <2>1, Zenon
<1>13. Cardinality(Mine(g.sq, c)) + Cardinality(Mine(g.events, c))
         = Cardinality(Mine(sq, c)) + Cardinality(Up(k + 1, c))
  <2>1. Cardinality(Mine(g.sq, c)) = Cardinality(Mine(h.sq, c))
    BY <1>10
  <2>2. PICK a \in Nat, b \in Nat, m \in Nat, n \in Nat :
          /\ a = Cardinality(Mine(h.sq, c)) /\ b = Cardinality(Mine(h.events, c))
          /\ m = Cardinality(Mine(sq, c)) /\ n = Cardinality(Up(k, c))
    BY <1>3, <1>5, Zenon
  <2>3. a + b = m + n
    BY <1>6, <2>2, Zenon
  <2>4. a + (b + 1) = m + (n + 1)
    BY <2>3
  <2> QED BY <1>3, <1>12, <2>1, <2>2, <2>4
<1>14. /\ Single(Mine(g.sq, c))
       /\ Mine(g.sq, c) = {} \/ Mine(sq, c) # {} \/ \E i \in Good(cq, c) : i <= k + 1
  <2>1. /\ Single(Mine(h.sq, c))
        /\ Mine(h.sq, c) = {} \/ Mine(sq, c) # {} \/ \E i \in Good(cq, c) : i <= k
    BY Zenon DEF Halfway
  <2>2. \A i \in Good(cq, c) : i <= k => i <= k + 1
    BY <1>2
  <2> QED BY <1>10, <2>1, <2>2, Zenon
<1>15. ASSUME conn[c].open
       PROVE  /\ \A i \in Mine(g.sq, c) : Rest(g.ss[c], c, g.sq[i].len)
              /\ \A i \in Good(g.events, c) : g.events[i].res = want[c] /\ got[c] = want[c]
  <2>1. Mine(g.sq, c) = {}
    BY <1>8, <1>10, <1>15, Zenon
  <2>2. PICK m : m = Len(h.events) + 1
    OBVIOUS
  <2>3. Mine(g.events, c) = {m} /\ g.events[m] = y
    <3>1. y.c = c => Mine(Append(h.events, y), c) = Mine(h.events, c) \cup {Len(h.events) + 1}
      <4>1. PICK q \in Seq(Cqe) : q = h.events
        BY <1>1
      <4>2. y.c = c => Mine(Append(q, y), c) = Mine(q, c) \cup {Len(q) + 1}
        BY MineLonger
      <4> QED BY <4>1, <4>2
    <3>2. Append(h.events, y)[Len(h.events) + 1] = y
      BY <1>1
    <3> QED BY <1>8, <1>11, <1>15, <2>2, <3>1, <3>2
  <2>4. y.res > 0 => y.res = want[c] /\ got[c] = want[c]
    <3> SUFFICES ASSUME y.res > 0 PROVE y.res = want[c] /\ got[c] = want[c]
      OBVIOUS
    <3>1. /\ e.res > 0 /\ e.res \in Int /\ h.ss[c] = ss[c]
      BY <1>2, <1>8, <1>11, <1>15
    <3>2. /\ e.res <= ss[c].remaining /\ got[c] = ss[c].offset + e.res
          /\ ss[c].offset + ss[c].remaining = want[c]
          /\ ss[c].remaining \in Int /\ ss[c].offset \in Int
      BY <1>9, <1>15, <3>1
    <3>3. ss[c].remaining - e.res <= 0 /\ y.res = ss[c].offset + e.res
      BY <1>11, <3>1, <3>2
    <3> QED BY <3>1, <3>2, <3>3
  <2>5. \A i \in Good(g.events, c) : i = m
    BY <2>3 DEF Good, Mine
  <2> QED BY <2>1, <2>3, <2>4, <2>5, ZenonT(60) DEF Good
<1> QED BY <1>4, <1>13, <1>14, <1>15, ZenonT(60) DEF Halfway

\* A CQE of c itself: continued, reported, or reported as failed.
LEMMA HalfwaySelf ==
    ASSUME Facts, IInv, NEW k \in Nat, k + 1 <= Len(cq), NEW h \in Hrec, NEW c \in Conns,
           c = cq[k + 1].c, Halfway(h, k, c), NEW g, g = Harvested(h, cq[k + 1])
    PROVE  Halfway(g, k + 1, c)
<1>1. PICK e \in Cqe : e = cq[k + 1]
  <2>1. cq \in Seq(Cqe)
    BY DEF IInv, TypeOK
  <2> QED BY <2>1
<1>2. e.c = c /\ g = Harvested(h, e)
  BY <1>1
<1>3. Before(h, e, k, c)
  BY <1>1, <1>2, BeforeIs, ZenonT(60)
<1>4. Continued(h, e, g, c) \/ Reported(h, e, g, c)
  BY <1>2, HarvestedIs
<1>5. CASE Continued(h, e, g, c)
  BY <1>3, <1>5, AfterContinued, Zenon
<1>6. CASE Reported(h, e, g, c)
  BY <1>3, <1>6, AfterReported, ZenonT(60)
<1> QED BY <1>4, <1>5, <1>6, Zenon

\* One more CQE.
LEMMA HarvestStep ==
    ASSUME Facts, IInv, NEW k \in Nat, k + 1 <= Len(cq), NEW h, J(h, k), NEW g, g = Harvested(h, cq[k + 1])
    PROVE  J(g, k + 1)
<1>1. TypeOK /\ cq[k + 1] \in Cqe /\ h \in Hrec
  BY DEF IInv, TypeOK, J
<1>2. PICK e \in Cqe : e = cq[k + 1]
  BY <1>1
<1>3. PICK c \in Conns : c = e.c
  BY DEF Cqe
<1>4. g = Harvested(h, e)
  BY <1>2
<1>5. /\ g \in Hrec /\ \A d \in Conns : d # c => g.ss[d] = h.ss[d]
      /\ \/ /\ g.events = h.events
            /\ \E x \in Sqe : x.c = c /\ g.sq = Append(h.sq, x)
         \/ /\ g.sq = h.sq
            /\ \E y \in Cqe : y.c = c /\ g.events = Append(h.events, y)
  <2>1. /\ g \in Hrec /\ \A d \in Conns : d # c => g.ss[d] = h.ss[d]
        /\ Continued(h, e, g, c) \/ Reported(h, e, g, c)
    BY <1>1, <1>3, <1>4, HarvestedIs
  <2>2. Continued(h, e, g, c) => /\ g.events = h.events
                                 /\ \E x \in Sqe : x.c = c /\ g.sq = Append(h.sq, x)
    BY Zenon DEF Continued
  <2>3. Reported(h, e, g, c) => /\ g.sq = h.sq
                                /\ \E y \in Cqe : y.c = c /\ g.events = Append(h.events, y)
    BY Zenon DEF Reported
  <2> QED BY <2>1, <2>2, <2>3, ZenonT(60)
<1>6. ASSUME NEW d \in Conns PROVE Halfway(g, k + 1, d)
  <2>1. Halfway(h, k, d)
    BY DEF J
  <2>2. CASE d = c
    BY <1>1, <1>2, <1>3, <2>1, <2>2, HalfwaySelf
  <2>3. CASE d # c
    <3>1. g.ss[d] = h.ss[d] /\ cq[k + 1].c # d
      BY <1>2, <1>3, <1>5, <2>3
    <3>2. /\ g.sq = h.sq \/ \E x \in Sqe : x.c # d /\ g.sq = Append(h.sq, x)
          /\ g.events = h.events \/ \E y \in Cqe : y.c # d /\ g.events = Append(h.events, y)
      BY <1>5, <2>3, Zenon
    <3> QED BY <1>1, <1>5, <2>1, <3>1, <3>2, HalfwayOther, ZenonT(60)
  <2> QED BY <2>2, <2>3
<1> QED BY <1>5, <1>6 DEF J

\* The first k CQEs, by induction.
LEMMA HarvestedAll == ASSUME Facts, IInv, NEW n \in Nat, n <= Len(cq) PROVE J(Harvesting[n], n)
<1> DEFINE T == { k \in Nat : k <= Len(cq) => J(Harvesting[k], k) }
<1>1. TypeOK /\ Len(cq) \in Nat
  BY DEF IInv, TypeOK
<1>2. 0 \in T
  BY <1>1, HarvestingIs, StartsHalfway
<1>3. ASSUME NEW k \in Nat, k \in T PROVE k + 1 \in T
  <2> SUFFICES ASSUME k + 1 <= Len(cq) PROVE J(Harvesting[k + 1], k + 1)
    OBVIOUS
  <2>1. J(Harvesting[k], k)
    BY <1>1, <1>3
  <2>2. Harvesting[k + 1] = Harvested(Harvesting[k], cq[k + 1])
    BY <1>1, HarvestingIs
  <2> QED BY <2>1, <2>2, HarvestStep
<1>4. \A k \in Nat : k \in T
  <2> HIDE DEF T
  <2> QED BY <1>2, <1>3, ByInduction
<1> QED BY <1>1, <1>4

\* The CQEs that a wait() of k of them leaves in the CQ are the ones after those.
LeftOver(r, k, c) ==
    /\ r \in Seq(Cqe)
    /\ Cardinality(Mine(cq, c)) = Cardinality(Up(k, c)) + Cardinality(Mine(r, c))
    /\ \A i \in Good(r, c) :
         i \in Nat /\ i + k \in Good(cq, c) /\ i + k > k /\ r[i] = cq[i + k]

\* The size of Mine of two pieces of the CQ.
LEMMA JoinedSize == ASSUME Facts PROVE
    \A a, b \in Seq(Cqe) : \A c :
        Cardinality(Mine(a \o b, c)) = Cardinality(Mine(a, c)) + Cardinality(Mine(b, c))
  BY MineConcat

\* A sequence is what comes before and what comes after.
LEMMA Joins ==
    ASSUME NEW X, NEW p \in Seq(X), NEW r \in Seq(X), NEW q \in Seq(X), NEW k \in Nat,
           k <= Len(q), Len(p) = k, Len(r) = Len(q) - k,
           \A i \in 1..k : p[i] = q[i], \A i \in 1..Len(r) : r[i] = q[i + k]
    PROVE  p \o r = q
<1>1. Len(q) \in Nat /\ Len(r) \in Nat
  OBVIOUS
<1>2. p \o r \in Seq(X) /\ Len(p \o r) = Len(q)
  BY <1>1
<1>3. ASSUME NEW i \in 1..Len(q) PROVE (p \o r)[i] = q[i]
  <2>1. CASE i <= k
    BY <1>1, <2>1
  <2>2. CASE i > k
    <3>1. i - k \in 1..Len(r) /\ (i - k) + k = i
      BY <1>1, <2>2
    <3>2. (p \o r)[i] = r[i - k]
      BY <1>1, <2>2
    <3> QED BY <3>1, <3>2
  <2> QED BY <2>1, <2>2, <1>1
<1> DEFINE s == p \o r
<1>4. s \in Seq(X) /\ Len(s) = Len(q) /\ \A i \in 1..Len(q) : s[i] = q[i]
  BY <1>2, <1>3
<1> HIDE DEF s
<1>5. s = q
  BY <1>4
<1> QED BY <1>5 DEF s

\* SubSeq gives just those.
LEMMA Leaves ==
    ASSUME Facts, TypeOK, NEW k \in Nat, k <= Len(cq), NEW c, NEW r, r = SubSeq(cq, k + 1, Len(cq))
    PROVE  LeftOver(r, k, c)
<1>1. cq \in Seq(Cqe) /\ Len(cq) \in Nat
  BY DEF TypeOK
<1>2. r \in Seq(Cqe) /\ Len(r) = Len(cq) - k /\ \A i \in 1..Len(r) : r[i] = cq[i + k]
  BY <1>1
<1>3. PICK p \in Seq(Cqe) : Len(p) = k /\ \A i \in 1..k : p[i] = cq[i]
  <2>1. /\ SubSeq(cq, 1, k) \in Seq(Cqe) /\ Len(SubSeq(cq, 1, k)) = k
        /\ \A i \in 1..k : SubSeq(cq, 1, k)[i] = cq[i]
    BY <1>1
  <2> QED BY <2>1, Zenon
<1>4. p \o r = cq
  BY <1>1, <1>2, <1>3, Joins, ZenonT(60)
<1>5. Mine(p, c) = Up(k, c)
  BY <1>3 DEF Mine, Up
<1>6. Cardinality(Mine(p \o r, c)) = Cardinality(Mine(p, c)) + Cardinality(Mine(r, c))
  BY <1>2, <1>3, JoinedSize, ZenonT(60)
<1>7. ASSUME NEW i \in Good(r, c) PROVE i \in Nat /\ i + k \in Good(cq, c) /\ i + k > k /\ r[i] = cq[i + k]
  <2>1. i \in 1..Len(r) /\ r[i].c = c /\ r[i].res > 0
    BY <1>2 DEF Good
  <2>2. i \in Nat /\ i + k > k /\ i + k \in 1..Len(cq) /\ r[i] = cq[i + k]
    BY <1>1, <1>2, <2>1
  <2> QED BY <1>1, <2>1, <2>2 DEF Good
<1> QED BY <1>2, <1>4, <1>5, <1>6, <1>7, Zenon DEF LeftOver

\* wait() blocks only after every event is dispatched.
Idle == phase = "wait" => events = <<>>

\* The arithmetic of a harvest: u of the CQEs become a queued sends and b events.
LEMMA HarvestBalance ==
    \A a, b, s, u, r, k \in Nat : a + b = s + u => s + (u + r) + 0 + k = a + r + b + k
  OBVIOUS

\* What a harvest of k CQEs that leaves r in the CQ means for connection c.
LEMMA HarvestedConn ==
    ASSUME Facts, IInv, NEW k \in Nat, k <= Len(cq), NEW h \in Hrec, NEW c \in Conns, Halfway(h, k, c),
           events = <<>>, NEW r, r = SubSeq(cq, k + 1, Len(cq)),
           ss' = h.ss, sq' = h.sq, events' = h.events, cq' = r,
           UNCHANGED <<conn, owner, kernel, want, got>>
    PROVE  (OneSend(c) /\ Owed(c) /\ Waiting(c) /\ Account(c))'
<1>1. TypeOK /\ OneSend(c) /\ Owed(c) /\ Waiting(c) /\ Account(c)
  BY Zenon DEF IInv
<1>2. /\ r \in Seq(Cqe)
      /\ Cardinality(Mine(cq, c)) = Cardinality(Up(k, c)) + Cardinality(Mine(r, c))
      /\ \A i \in Good(r, c) : i \in Nat /\ i + k \in Good(cq, c) /\ i + k > k /\ r[i] = cq[i + k]
  <2>1. LeftOver(r, k, c)
    BY <1>1, Leaves, ZenonT(60)
  <2> QED BY <2>1, Zenon DEF LeftOver
<1>3. /\ Mine(cq, c)' = Mine(r, c) /\ Good(cq, c)' = Good(r, c)
      /\ Mine(sq, c)' = Mine(h.sq, c) /\ Mine(events, c)' = Mine(h.events, c)
      /\ Good(events, c)' = Good(h.events, c) /\ Ops(kernel, c)' = Ops(kernel, c)
  OBVIOUS
<1>4. Mine(events, c) = {} /\ Cardinality(Mine(events, c)) = 0
  <2>1. Mine(events, c) = {}
    BY DEF Mine
  <2> QED BY <2>1, EmptySize, Zenon
<1>5. h.sq \in Seq(Sqe) /\ h.events \in Seq(Cqe)
  BY DEF Hrec
<1>6. PICK a \in Nat, b \in Nat, s \in Nat, u \in Nat, m \in Nat, o \in Nat :
        /\ a = Cardinality(Mine(h.sq, c)) /\ b = Cardinality(Mine(h.events, c))
        /\ s = Cardinality(Mine(sq, c)) /\ u = Cardinality(Up(k, c))
        /\ m = Cardinality(Mine(r, c)) /\ o = Cardinality(Ops(kernel, c))
  BY <1>1, <1>2, <1>5, MineIs, Finite, UpIs, ZenonT(60)
<1>7. conn[c].owed = s + (u + m) + 0 + o
  BY <1>1, <1>2, <1>4, <1>6, ZenonT(60) DEF Owed
<1>8. OneSend(c)'
  <2>1. Single(Good(r, c))
    BY <1>1, <1>2 DEF OneSend, Single
  <2>2. Mine(h.sq, c) = {} \/ (Ops(kernel, c) = {} /\ Good(r, c) = {})
    <3>1. CASE Mine(sq, c) # {}
      BY <1>1, <1>2, <3>1, ZenonT(60) DEF OneSend
    <3>2. CASE \E i \in Good(cq, c) : i <= k
      <4>1. PICK i \in Good(cq, c) : i <= k
        BY <3>2, Zenon
      <4>2. Ops(kernel, c) = {}
        BY <1>1, <4>1, ZenonT(60) DEF OneSend
      <4>3. ASSUME NEW j \in Good(r, c) PROVE FALSE
        <5>1. j + k = i /\ j + k > k /\ j \in Nat
          BY <1>1, <1>2, <4>1, Zenon DEF OneSend, Single
        <5> QED BY <4>1, <5>1
      <4> QED BY <4>2, <4>3
    <3> QED BY <3>1, <3>2, Zenon DEF Halfway
  <2>3. Single(Mine(h.sq, c)) /\ Single(Ops(kernel, c))
    BY <1>1, Zenon DEF Halfway, OneSend
  <2>4. Ops(kernel, c) = {} \/ Good(r, c) = {}
    BY <1>1, <1>2, Zenon DEF OneSend
  <2> QED BY <1>3, <2>1, <2>2, <2>3, <2>4, ZenonT(60) DEF OneSend, Single
<1>9. Owed(c)'
  <2>1. a + b = s + u
    BY <1>6, Zenon DEF Halfway
  <2>2. s + (u + m) + 0 + o = a + m + b + o
    BY <2>1, HarvestBalance
  <2>3. conn'[c].owed = conn[c].owed
    OBVIOUS
  <2> QED BY <1>3, <1>6, <1>7, <2>2, <2>3, Zenon DEF Owed
<1>10. Waiting(c)'
  BY <1>1 DEF Waiting
<1>11. Account(c)'
  <2> SUFFICES ASSUME conn[c].open
               PROVE  /\ \A i \in Mine(h.sq, c) : Rest(h.ss[c], c, h.sq[i].len)
                      /\ \A op \in Ops(kernel, c) : Rest(h.ss[c], c, op.len)
                      /\ \A i \in Good(r, c) :
                           /\ r[i].res <= h.ss[c].remaining /\ got[c] = h.ss[c].offset + r[i].res
                           /\ h.ss[c].offset + h.ss[c].remaining = want[c]
                      /\ \A i \in Good(h.events, c) : h.events[i].res = want[c] /\ got[c] = want[c]
    BY <1>3, Zenon DEF Account, Rest
  <2>1. /\ \A i \in Mine(h.sq, c) : Rest(h.ss[c], c, h.sq[i].len)
        /\ \A i \in Good(h.events, c) : h.events[i].res = want[c] /\ got[c] = want[c]
        /\ Up(k, c) = {} => h.ss[c] = ss[c]
    BY ZenonT(60) DEF Halfway
  <2>2. s + (u + m) + 0 + o <= 1
    BY <1>1, <1>7 DEF Waiting
  <2>3. ASSUME m + o > 0 PROVE h.ss[c] = ss[c]
    <3>1. u = 0
      BY <2>2, <2>3
    <3>2. IsFiniteSet(Up(k, c))
      BY <1>1, UpIs, Zenon
    <3>3. Up(k, c) = {}
      BY <1>6, <3>1, <3>2, EmptySize, Zenon
    <3> QED BY <2>1, <3>3, Zenon
  <2>4. ASSUME NEW op \in Ops(kernel, c) PROVE Rest(h.ss[c], c, op.len)
    <3>1. o > 0
      <4>1. Cardinality(Ops(kernel, c)) = 1
        BY <1>1, <2>4, SingleSize, ZenonT(60) DEF OneSend
      <4> QED BY <1>6, <4>1
    <3>2. h.ss[c] = ss[c]
      BY <2>3, <3>1
    <3> QED BY <1>1, <3>2, ZenonT(60) DEF Account
  <2>5. ASSUME NEW i \in Good(r, c)
        PROVE  /\ r[i].res <= h.ss[c].remaining /\ got[c] = h.ss[c].offset + r[i].res
               /\ h.ss[c].offset + h.ss[c].remaining = want[c]
    <3>1. m > 0
      <4>1. i \in Mine(r, c)
        BY DEF Good, Mine
      <4>2. IsFiniteSet(Mine(r, c))
        BY <1>2, MineIs, Zenon
      <4>3. m # 0
        BY <1>6, <4>1, <4>2, EmptySize, ZenonT(60)
      <4> QED BY <4>3
    <3>2. h.ss[c] = ss[c]
      BY <2>3, <3>1
    <3> QED BY <1>1, <1>2, <3>2, ZenonT(60) DEF Account
  <2> QED BY <2>1, <2>4, <2>5, Zenon
<1> QED BY <1>8, <1>9, <1>10, <1>11

\* Harvesting keeps the invariant.
LEMMA HarvestOK == ASSUME Facts, IInv, Idle, Harvest PROVE IInv'
<1>1. PICK k \in 1 .. Len(cq) :
        /\ ss' = Harvesting[k].ss /\ sq' = Harvesting[k].sq /\ events' = Harvesting[k].events
        /\ cq' = SubSeq(cq, k + 1, Len(cq))
  BY Zenon DEF Harvest
<1>2. UNCHANGED <<conn, owner, kernel, want, got>> /\ events = <<>>
  BY DEF Harvest, Idle
<1>3. TypeOK /\ Len(cq) \in Nat /\ k \in Nat /\ k <= Len(cq)
  BY DEF IInv, TypeOK
<1>4. PICK h : h = Harvesting[k]
  BY Zenon
<1>5. J(h, k) /\ h \in Hrec
  <2>1. J(Harvesting[k], k)
    BY <1>3, HarvestedAll, Zenon
  <2> QED BY <1>4, <2>1, Zenon DEF J
<1>6. ss' = h.ss /\ sq' = h.sq /\ events' = h.events
  BY <1>1, <1>4, Zenon
<1>7. PICK r : r = SubSeq(cq, k + 1, Len(cq)) /\ cq' = r
  BY <1>1, Zenon
<1>8. TypeOK'
  <2>1. ss' \in [Conns -> SS] /\ sq' \in Seq(Sqe) /\ events' \in Seq(Cqe)
    BY <1>5, <1>6 DEF Hrec
  <2>2. cq' \in Seq(Cqe)
    BY <1>3, <1>7, Leaves, Zenon DEF LeftOver
  <2> QED BY <1>2, <1>3, <2>1, <2>2 DEF TypeOK, SS
<1>9. ASSUME NEW c \in Conns PROVE (OneSend(c) /\ Owed(c) /\ Waiting(c) /\ Account(c))'
  <2>1. Halfway(h, k, c)
    BY <1>5, Zenon DEF J
  <2> QED BY <1>2, <1>3, <1>5, <1>6, <1>7, <2>1, HarvestedConn, Zenon
<1> QED BY <1>8, <1>9 DEF IInv

-----------------------------------------------------------------------------
(* The theorems.                                                           *)

\* The order on the natural numbers, as a relation.
Less == { p \in Nat \X Nat : p[1] < p[2] }

\* A non-empty set of natural numbers has a least element.
LEMMA LeastNatural ==
    ASSUME NEW T, T \subseteq Nat, T # {}
    PROVE  \E x \in T : \A y \in T : x <= y
<1>1. IsWellFoundedOn(Less, Nat)
  BY NatLessThanWellFounded, Zenon DEF OpToRel, Less
<1>2. PICK x \in T : \A y \in T : ~ (<<y, x>> \in Less)
  BY <1>1, WFMin, Zenon
<1>3. \A y \in T : <<y, x>> \in Less <=> y < x
  BY DEF Less
<1>4. \A y \in T : ~ (y < x)
  BY <1>2, <1>3, Zenon
<1>5. \A y \in T : x \in Nat /\ y \in Nat
  OBVIOUS
<1>6. \A y \in T : x <= y
  BY <1>4, <1>5
<1> QED BY <1>6

\* Induction over the natural numbers, for a set.
LEMMA Induct ==
    ASSUME NEW T, 0 \in T, \A n \in Nat : n \in T => n + 1 \in T
    PROVE  \A n \in Nat : n \in T
<1> DEFINE R == Nat \ T
<1>1. CASE R = {}
  BY <1>1
<1>2. CASE R # {}
  <2>1. PICK x \in R : \A y \in R : x <= y
    BY <1>2, LeastNatural, Zenon
  <2>2. x \in Nat /\ x # 0 /\ x - 1 \in Nat /\ ~(x <= x - 1)
    BY <2>1
  <2>3. x - 1 \in T
    BY <2>1, <2>2
  <2>4. (x - 1) + 1 \in T /\ (x - 1) + 1 = x
    BY <2>2, <2>3
  <2> QED BY <2>1, <2>4
<1> QED BY <1>1, <1>2

\* The facts of IoUringSendProofs hold.
LEMMA FactsHold == Facts
<1>1. IsFiniteSet({}) /\ Cardinality({}) = 0
  BY FS_EmptySet
<1>2. \A S : IsFiniteSet(S) => Cardinality(S) \in Nat /\ (Cardinality(S) = 0 <=> S = {})
  BY FS_EmptySet, FS_CardinalityType, Zenon
<1>3. /\ \A x : IsFiniteSet({x}) /\ Cardinality({x}) = 1
      /\ \A S : IsFiniteSet(S) => (Cardinality(S) = 1 <=> \E x : S = {x})
  BY FS_Singleton, Zenon
<1>4. \A S : \A T \in SUBSET S : IsFiniteSet(S) => IsFiniteSet(T) /\ Cardinality(T) <= Cardinality(S)
  BY FS_Subset
<1>5. \A S, x : IsFiniteSet(S) =>
         IsFiniteSet(S \cup {x})
         /\ Cardinality(S \cup {x}) = IF x \in S THEN Cardinality(S) ELSE Cardinality(S) + 1
  BY FS_AddElement, Zenon
<1>6. \A S, T : IsFiniteSet(S) /\ IsFiniteSet(T) =>
         IsFiniteSet(S \cup T)
         /\ Cardinality(S \cup T) = Cardinality(S) + Cardinality(T) - Cardinality(S \cap T)
  BY FS_Union, Zenon
<1>7. \A a, b \in Int :
         IsFiniteSet(a .. b) /\ Cardinality(a .. b) = IF a > b THEN 0 ELSE b - a + 1
  BY FS_Interval, Zenon
<1>8. \A S, T : IsFiniteSet(S) /\ ExistsBijection(S, T) =>
         IsFiniteSet(T) /\ Cardinality(T) = Cardinality(S)
  BY FS_Bijection, Zenon
<1>9. \A T : 0 \in T /\ (\A n \in Nat : n \in T => n + 1 \in T) => \A n \in Nat : n \in T
  BY Induct, Zenon
<1> QED BY <1>1, <1>2, <1>3, <1>4, <1>5, <1>6, <1>7, <1>8, <1>9, ZenonT(60) DEF Facts

\* A step that changes nothing keeps the invariant.
LEMMA StutterOK == ASSUME IInv, UNCHANGED vars PROVE IInv'
<1>1. TypeOK'
  BY DEF IInv, vars, TypeOK
<1>2. ASSUME NEW c \in Conns PROVE (OneSend(c) /\ Owed(c) /\ Waiting(c) /\ Account(c))'
  BY Zenon DEF IInv, vars, OneSend, Owed, Waiting, Account, Rest
<1> QED BY <1>1, <1>2 DEF IInv

\* Every step keeps the invariant.
LEMMA NextOK == IInv /\ Idle /\ [Next]_vars => IInv' /\ Idle'
<1> SUFFICES ASSUME IInv, Idle, [Next]_vars PROVE IInv' /\ Idle'
  OBVIOUS
<1> USE FactsHold
<1>1. CASE \E c \in Conns, f \in Fds : Accept(c, f) \/ OpenUpstream(c, f)
  <2>1. PICK c \in Conns, f \in Fds : Accept(c, f) \/ OpenUpstream(c, f)
    BY <1>1
  <2>2. CASE Accept(c, f)
    BY <2>2, AcceptOK, Zenon DEF Accept, Idle
  <2>3. CASE OpenUpstream(c, f)
    BY <2>3, OpenUpstreamOK, Zenon DEF OpenUpstream, Idle
  <2> QED BY <2>1, <2>2, <2>3
<1>2. CASE \E c \in Conns, k \in SendKinds, n \in 1 .. MaxLen : Send(c, k, n)
  <2>1. PICK c \in Conns, k \in SendKinds, n \in 1 .. MaxLen : Send(c, k, n)
    BY <1>2
  <2> QED BY <2>1, SendOK, ZenonT(60) DEF Send, Idle
<1>3. CASE \E c \in Conns : Close(c)
  <2>1. PICK c \in Conns : Close(c)
    BY <1>3
  <2>2. UNCHANGED <<events, phase>>
    BY <2>1, ZenonT(40) DEF Close
  <2> QED BY <2>1, <2>2, CloseOK DEF Idle
<1>4. CASE Dispatch
  BY <1>4, DispatchOK DEF Dispatch, Idle
<1>5. CASE Enter
  <2>1. events' = <<>>
    BY <1>5 DEF Enter
  <2> QED BY <1>5, <2>1, EnterOK DEF Idle
<1>6. CASE Harvest
  <2>1. phase' = "dispatch"
    BY <1>6 DEF Harvest
  <2> QED BY <1>6, <2>1, HarvestOK DEF Idle
<1>7. CASE \E op \in kernel, n \in 1 .. MaxLen : KernelWrites(op, n)
  <2>1. PICK op \in kernel, n \in 1 .. MaxLen : KernelWrites(op, n)
    BY <1>7
  <2>2. UNCHANGED <<events, phase>>
    BY <2>1 DEF KernelWrites
  <2> QED BY <2>1, <2>2, KernelWritesOK DEF Idle
<1>8. CASE UNCHANGED vars
  <2>1. Idle'
    BY <1>8 DEF vars, Idle
  <2> QED BY <1>8, <2>1, StutterOK
<1> QED BY <1>1, <1>2, <1>3, <1>4, <1>5, <1>6, <1>7, <1>8 DEF Next

\* The invariant implies what the runs check.
LEMMA Means == IInv => SentInFull /\ OwedInQueues
<1> SUFFICES ASSUME IInv PROVE SentInFull /\ OwedInQueues
  OBVIOUS
<1>1. SentInFull
  <2> SUFFICES ASSUME NEW i \in DOMAIN events, conn[events[i].c].open, events[i].res > 0
               PROVE  events[i].res = want[events[i].c] /\ got[events[i].c] = want[events[i].c]
    BY Zenon DEF SentInFull
  <2>1. events[i].c \in Conns
    <3>1. events \in Seq(Cqe)
      BY DEF IInv, TypeOK
    <3>2. events[i] \in Cqe
      BY <3>1
    <3> QED BY <3>2 DEF Cqe
  <2>2. PICK c \in Conns : c = events[i].c
    BY <2>1
  <2>3. i \in Good(events, c)
    BY <2>2 DEF Good
  <2>4. Account(c)
    BY DEF IInv
  <2> QED BY <2>2, <2>3, <2>4, Zenon DEF Account
<1>2. OwedInQueues
  BY Zenon DEF IInv, Owed, OwedInQueues, Mine, Ops
<1> QED BY <1>1, <1>2

\* Every state of every execution satisfies the invariant of the send path.
THEOREM SendInvariant == Spec => [](IInv /\ Idle)
<1>1. Init => IInv /\ Idle
  <2>1. Init => Idle
    BY DEF Init, Idle
  <2> QED BY <2>1, InitOK, FactsHold
<1> QED BY <1>1, NextOK, PTL DEF Spec

\* A success event of a live connection carries the length handed to add_send, and
\* the kernel has written exactly that many bytes, whatever the number of partial
\* writes, continuations, closes and reuses (wait(): "Only emits Send completion when
\* all bytes are sent (or error)").
THEOREM SentInFullHolds == Spec => []SentInFull
  BY SendInvariant, Means, PTL

\* The sends' share of pending_ops is the number of completions still to come or to
\* be dispatched: continuations, cancels and refusals neither lose nor add one.
THEOREM OwedInQueuesHolds == Spec => []OwedInQueues
  BY SendInvariant, Means, PTL
=============================================================================
