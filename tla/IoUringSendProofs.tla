------------------------- MODULE IoUringSendProofs --------------------------
(***************************************************************************)
(* The inductive invariant of IoUringSend, and the steps of the program    *)
(* and of the kernel, for every number of connections, descriptors, buffer *)
(* lengths and SQ entries.  IoUringSendTheorems has the steps that end a   *)
(* send, the close and the harvest, and the theorems.                      *)
(*                                                                         *)
(* The invariant IInv follows a connection's send through the SQ, the      *)
(* kernel and the CQ: it is in at most one of them (OneSend); pending_ops  *)
(* counts what is still to come (Owed); send_state says what has been      *)
(* written and what has not (Account); an open connection has at most one  *)
(* completion coming, and none between two sends (Waiting).                *)
(***************************************************************************)
EXTENDS IoUringSend, TLAPS

USE SMTT(30)

\* A queued send, a completion, and a send the kernel holds.
Sqe == [c : Conns, type : SendKinds, fd : Fds \cup {None}, len : Int]
Cqe == [c : Conns, type : SendKinds, res : Int]
Op(x) == x.c \in Conns /\ x.type \in SendKinds /\ x.len \in Int

\* The entries of connection c in a queue, those of them that report written
\* bytes, and its operations among K.
Mine(q, c) == { i \in DOMAIN q : q[i].c = c }
Good(q, c) == { i \in DOMAIN q : q[i].c = c /\ q[i].res > 0 }
Ops(K, c) == { op \in K : op.c = c }
Single(S) == \A x, y \in S : x = y

\* Every variable has its type; lengths and results are integers of any size.
TypeOK ==
    /\ conn \in [Conns -> [open : BOOLEAN, fd : Fds \cup {None}, up : Fds \cup {None},
                           armed : SUBSET SendKinds, waits : SendKinds \cup {"none"},
                           owed : Nat]]
    /\ ss \in [Conns -> [fd : Fds \cup {None}, offset : Int, remaining : Int]]
    /\ owner \in [Fds -> Conns \cup {None}]
    /\ sq \in Seq(Sqe) /\ cq \in Seq(Cqe) /\ events \in Seq(Cqe)
    /\ \A op \in kernel : Op(op)
    /\ want \in [Conns -> Int] /\ got \in [Conns -> Int]

\* Of each connection at most one send is queued, in the kernel or completed with bytes.
OneSend(c) ==
    /\ Single(Mine(sq, c)) /\ Single(Ops(kernel, c)) /\ Single(Good(cq, c))
    /\ Mine(sq, c) = {} \/ Ops(kernel, c) = {}
    /\ Mine(sq, c) = {} \/ Good(cq, c) = {}
    /\ Ops(kernel, c) = {} \/ Good(cq, c) = {}

\* pending_ops counts what is queued, held, completed or to be dispatched.
Owed(c) ==
    conn[c].owed = Cardinality(Mine(sq, c)) + Cardinality(Mine(cq, c))
                    + Cardinality(Mine(events, c)) + Cardinality(Ops(kernel, c))

\* An open connection waits for one completion, and its callback is the one that
\* the armed flag names; between two sends nothing is coming.
Waiting(c) ==
    /\ conn[c].open => conn[c].owed <= 1 /\ (conn[c].waits = "none" => conn[c].owed = 0)
    /\ conn[c].armed \subseteq {conn[c].waits}

\* A send of len bytes is the rest of the buffer that send_state s describes.
Rest(s, c, len) ==
    /\ len = s.remaining /\ len > 0 /\ got[c] = s.offset
    /\ s.offset + s.remaining = want[c]

\* For an open connection: a send on its way is the rest of the buffer, a
\* completed one is not yet in send_state, a reported one is the whole buffer.
Account(c) ==
    conn[c].open =>
        /\ \A i \in Mine(sq, c) : Rest(ss[c], c, sq[i].len)
        /\ \A op \in Ops(kernel, c) : Rest(ss[c], c, op.len)
        /\ \A i \in Good(cq, c) :
             /\ cq[i].res <= ss[c].remaining /\ got[c] = ss[c].offset + cq[i].res
             /\ ss[c].offset + ss[c].remaining = want[c]
        /\ \A i \in Good(events, c) : events[i].res = want[c] /\ got[c] = want[c]

\* The inductive invariant, with Idle below.
IInv ==
    /\ TypeOK
    /\ \A c \in Conns : OneSend(c) /\ Owed(c) /\ Waiting(c) /\ Account(c)

-----------------------------------------------------------------------------
(* Counting.                                                               *)

\* What the proofs use of finite sets and of the natural numbers.  It is a
\* hypothesis here, so that no proof carries the libraries of these facts, and
\* is proved from them in IoUringSendTheorems.
Facts ==
    /\ IsFiniteSet({}) /\ Cardinality({}) = 0
    /\ \A S : IsFiniteSet(S) => Cardinality(S) \in Nat /\ (Cardinality(S) = 0 <=> S = {})
    /\ \A x : IsFiniteSet({x}) /\ Cardinality({x}) = 1
    /\ \A S : IsFiniteSet(S) => (Cardinality(S) = 1 <=> \E x : S = {x})
    /\ \A S : \A T \in SUBSET S : IsFiniteSet(S) => IsFiniteSet(T) /\ Cardinality(T) <= Cardinality(S)
    /\ \A S, x : IsFiniteSet(S) =>
         IsFiniteSet(S \cup {x})
         /\ Cardinality(S \cup {x}) = IF x \in S THEN Cardinality(S) ELSE Cardinality(S) + 1
    /\ \A S, T : IsFiniteSet(S) /\ IsFiniteSet(T) =>
         IsFiniteSet(S \cup T)
         /\ Cardinality(S \cup T) = Cardinality(S) + Cardinality(T) - Cardinality(S \cap T)
    /\ \A a, b \in Int :
         IsFiniteSet(a .. b) /\ Cardinality(a .. b) = IF a > b THEN 0 ELSE b - a + 1
    /\ \A S, T : IsFiniteSet(S) /\ ExistsBijection(S, T) =>
         IsFiniteSet(T) /\ Cardinality(T) = Cardinality(S)
    /\ \A T : 0 \in T /\ (\A n \in Nat : n \in T => n + 1 \in T) => \A n \in Nat : n \in T

\* The facts, one by one.
LEMMA EmptySize ==
    ASSUME Facts
    PROVE  /\ IsFiniteSet({}) /\ Cardinality({}) = 0
           /\ \A S : IsFiniteSet(S) => (Cardinality(S) = 0 <=> S = {})
  BY Zenon DEF Facts

\* A set of one element.
LEMMA OneElement ==
    ASSUME Facts
    PROVE  /\ \A x : IsFiniteSet({x}) /\ Cardinality({x}) = 1
           /\ \A S : IsFiniteSet(S) => (Cardinality(S) = 1 <=> \E x : S = {x})
  BY Zenon DEF Facts

\* A size is a natural number.
LEMMA SizeIsNat == ASSUME Facts, NEW S, IsFiniteSet(S) PROVE Cardinality(S) \in Nat
  BY Zenon DEF Facts

\* A part is no larger than the whole.
LEMMA SubsetSize ==
    ASSUME Facts, NEW S, IsFiniteSet(S), NEW T \in SUBSET S
    PROVE  IsFiniteSet(T) /\ Cardinality(T) <= Cardinality(S)
  BY Zenon DEF Facts

\* One more element.
LEMMA AddedSize ==
    ASSUME Facts, NEW S, NEW x, IsFiniteSet(S)
    PROVE  /\ IsFiniteSet(S \cup {x})
           /\ Cardinality(S \cup {x}) = IF x \in S THEN Cardinality(S) ELSE Cardinality(S) + 1
  BY Zenon DEF Facts

\* The union of two sets.
LEMMA UnionSize ==
    ASSUME Facts, NEW S, IsFiniteSet(S), NEW T, IsFiniteSet(T)
    PROVE  /\ IsFiniteSet(S \cup T)
           /\ Cardinality(S \cup T) = Cardinality(S) + Cardinality(T) - Cardinality(S \cap T)
  BY Zenon DEF Facts

\* An interval.
LEMMA IntervalSize ==
    ASSUME Facts, NEW a \in Int, NEW b \in Int
    PROVE  IsFiniteSet(a .. b) /\ Cardinality(a .. b) = IF a > b THEN 0 ELSE b - a + 1
  BY Zenon DEF Facts

\* A bijection keeps the size.
LEMMA SameSize ==
    ASSUME Facts, NEW S, NEW T, IsFiniteSet(S), ExistsBijection(S, T)
    PROVE  IsFiniteSet(T) /\ Cardinality(T) = Cardinality(S)
  BY Zenon DEF Facts

\* Induction over the natural numbers, for a set.
LEMMA ByInduction ==
    ASSUME Facts, NEW T, 0 \in T, \A n \in Nat : n \in T => n + 1 \in T
    PROVE  \A n \in Nat : n \in T
  BY Zenon DEF Facts

\* Moving a set of integers keeps its size: queue positions after a concatenation.
LEMMA Shift ==
    ASSUME Facts, NEW S, S \subseteq Int, IsFiniteSet(S), NEW n \in Int, NEW T, T = { i + n : i \in S }
    PROVE  IsFiniteSet(T) /\ Cardinality(T) = Cardinality(S)
<1> DEFINE f == [i \in S |-> i + n]
<1>1. f \in [S -> T]
  OBVIOUS
<1>2. \A x, y \in DOMAIN f : f[x] = f[y] => x = y
  OBVIOUS
<1>3. \A t \in T : \E x \in S : f[x] = t
  OBVIOUS
<1> HIDE DEF f
<1>4. f \in Injection(S, T) /\ f \in Surjection(S, T)
  BY <1>1, <1>2, <1>3, Zenon DEF Injection, IsInjective, Surjection
<1>5. ExistsBijection(S, T)
  BY <1>4, Zenon DEF ExistsBijection, Bijection
<1> QED BY <1>5, SameSize

\* A finite set has at most one element exactly when its cardinality is at most 1.
LEMMA Singles ==
    ASSUME Facts, NEW S, IsFiniteSet(S)
    PROVE  /\ Cardinality(S) \in Nat
           /\ Cardinality(S) = 0 <=> S = {}
           /\ Single(S) <=> Cardinality(S) <= 1
           /\ S # {} /\ Single(S) => Cardinality(S) = 1
<1>1. Cardinality(S) \in Nat
  BY SizeIsNat
<1>2. Cardinality(S) = 0 <=> S = {}
  BY EmptySize
<1>3. Cardinality(S) = 1 <=> \E x : S = {x}
  BY OneElement, Zenon
<1>4. Single(S) <=> S = {} \/ \E x : S = {x}
  BY DEF Single
<1> QED BY <1>1, <1>2, <1>3, <1>4

\* The entries of a connection in a queue are finitely many positions.
LEMMA MineIs ==
    ASSUME Facts, NEW X, NEW q \in Seq(X), NEW c
    PROVE  /\ IsFiniteSet(Mine(q, c)) /\ Mine(q, c) \subseteq Int
           /\ Cardinality(Mine(q, c)) \in Nat
<1>1. DOMAIN q = 1..Len(q) /\ Len(q) \in Int
  OBVIOUS
<1>2. IsFiniteSet(1..Len(q))
  BY <1>1, IntervalSize
<1>3. Mine(q, c) \in SUBSET (1..Len(q))
  BY <1>1 DEF Mine
<1> QED BY <1>2, <1>3, SubsetSize, SizeIsNat

\* The empty queue has no entry of any connection.
LEMMA MineNone ==
    ASSUME Facts, NEW c
    PROVE  Mine(<<>>, c) = {} /\ Cardinality(Mine(<<>>, c)) = 0
BY EmptySize DEF Mine

\* Entries of a connection add up when a queue is appended to another.
LEMMA MineConcat ==
    ASSUME Facts, NEW X, NEW a \in Seq(X), NEW b \in Seq(X), NEW c
    PROVE  Cardinality(Mine(a \o b, c)) = Cardinality(Mine(a, c)) + Cardinality(Mine(b, c))
<1> DEFINE T == { i + Len(a) : i \in Mine(b, c) }
<1>1. Mine(a \o b, c) = Mine(a, c) \cup T
  <2>1. ASSUME NEW i \in Mine(a \o b, c) PROVE i \in Mine(a, c) \cup T
    <3>1. i \in 1..(Len(a) + Len(b)) /\ (a \o b)[i].c = c
      BY <2>1 DEF Mine
    <3>2. CASE i <= Len(a)
      BY <3>1, <3>2 DEF Mine
    <3>3. CASE i > Len(a)
      <4>1. i - Len(a) \in DOMAIN b /\ b[i - Len(a)] = (a \o b)[i] /\ i = (i - Len(a)) + Len(a)
        BY <3>1, <3>3
      <4>2. i - Len(a) \in Mine(b, c)
        BY <4>1, <3>1 DEF Mine
      <4> QED BY <4>1, <4>2
    <3> QED BY <3>1, <3>2, <3>3
  <2>2. ASSUME NEW i \in Mine(a, c) PROVE i \in Mine(a \o b, c)
    BY <2>2 DEF Mine
  <2>3. ASSUME NEW i \in Mine(b, c) PROVE i + Len(a) \in Mine(a \o b, c)
    BY <2>3 DEF Mine
  <2> QED BY <2>1, <2>2, <2>3
<1>2. Mine(a, c) \cap T = {}
  BY DEF Mine
<1>3. /\ IsFiniteSet(Mine(a, c)) /\ IsFiniteSet(Mine(b, c)) /\ Mine(b, c) \subseteq Int
      /\ Cardinality(Mine(a, c)) \in Nat /\ Cardinality(Mine(b, c)) \in Nat
  BY MineIs
<1>4. Len(a) \in Int
  OBVIOUS
<1>5. IsFiniteSet(T) /\ Cardinality(T) = Cardinality(Mine(b, c))
  BY <1>3, <1>4, Shift
<1> HIDE DEF T
<1>6. Cardinality(Mine(a, c) \cup T)
        = Cardinality(Mine(a, c)) + Cardinality(T) - Cardinality(Mine(a, c) \cap T)
  BY <1>3, <1>5, UnionSize
<1>7. Cardinality(Mine(a, c) \cap T) = 0
  BY <1>2, EmptySize, Zenon
<1> QED BY <1>1, <1>3, <1>5, <1>6, <1>7

\* The entries of a connection in a queue of one element.
LEMMA MineOne ==
    ASSUME Facts, NEW e, NEW c
    PROVE  /\ Mine(<<e>>, c) = IF e.c = c THEN {1} ELSE {}
           /\ Cardinality(Mine(<<e>>, c)) = IF e.c = c THEN 1 ELSE 0
<1>1. Mine(<<e>>, c) = IF e.c = c THEN {1} ELSE {}
  BY DEF Mine
<1> QED BY <1>1, EmptySize, OneElement, Zenon

\* An entry of the connection takes the next position.
LEMMA MineLonger ==
    ASSUME NEW X, NEW q \in Seq(X), NEW e \in X, NEW c, e.c = c
    PROVE  Mine(Append(q, e), c) = Mine(q, c) \cup {Len(q) + 1}
  BY DEF Mine

\* What submitting one SQE, or posting one CQE, does to a connection's entries.
LEMMA MineAppend ==
    ASSUME Facts, NEW X, NEW q \in Seq(X), NEW e \in X, NEW c
    PROVE  /\ Cardinality(Mine(Append(q, e), c)) = Cardinality(Mine(q, c)) + IF e.c = c THEN 1 ELSE 0
           /\ e.c # c => Mine(Append(q, e), c) = Mine(q, c)
           /\ \A i \in Mine(q, c) : Append(q, e)[i] = q[i]
           /\ Append(q, e)[Len(q) + 1] = e
<1>1. <<e>> \in Seq(X) /\ Append(q, e) = q \o <<e>>
  OBVIOUS
<1>2. Cardinality(Mine(q \o <<e>>, c)) = Cardinality(Mine(q, c)) + Cardinality(Mine(<<e>>, c))
  BY <1>1, MineConcat, ZenonT(60)
<1>3. Cardinality(Mine(<<e>>, c)) = IF e.c = c THEN 1 ELSE 0
  BY MineOne
<1>4. \A i \in Mine(q, c) : Append(q, e)[i] = q[i]
  BY DEF Mine
<1>5. Append(q, e)[Len(q) + 1] = e
  OBVIOUS
<1>6. e.c # c => Mine(Append(q, e), c) = Mine(q, c)
  BY DEF Mine
<1> QED BY <1>1, <1>2, <1>3, <1>4, <1>5, <1>6, Zenon

\* What dispatching the first event does to a connection's entries.
LEMMA MineTail ==
    ASSUME Facts, NEW X, NEW q \in Seq(X), q # <<>>, NEW c
    PROVE  Cardinality(Mine(q, c)) = Cardinality(Mine(Tail(q), c)) + IF Head(q).c = c THEN 1 ELSE 0
<1>1. <<Head(q)>> \in Seq(X) /\ Tail(q) \in Seq(X) /\ q = <<Head(q)>> \o Tail(q)
  OBVIOUS
<1>2. Cardinality(Mine(<<Head(q)>> \o Tail(q), c))
        = Cardinality(Mine(<<Head(q)>>, c)) + Cardinality(Mine(Tail(q), c))
  BY <1>1, MineConcat, Zenon
<1>3. Cardinality(Mine(<<Head(q)>>, c)) = IF Head(q).c = c THEN 1 ELSE 0
  BY MineOne
<1>4. Cardinality(Mine(Tail(q), c)) \in Nat
  BY <1>1, MineIs, Zenon
<1>5. Cardinality(Mine(q, c)) = Cardinality(Mine(<<Head(q)>> \o Tail(q), c))
  BY <1>1, Zenon
<1> QED BY <1>2, <1>3, <1>4, <1>5

-----------------------------------------------------------------------------
(* The steps.                                                              *)

\* The loop starts with nothing owed.
LEMMA InitOK == ASSUME Facts, Init PROVE IInv
<1>1. TypeOK
  BY DEF Init, TypeOK, Closed
<1>2. ASSUME NEW c \in Conns PROVE OneSend(c) /\ Owed(c) /\ Waiting(c) /\ Account(c)
  <2>1. /\ conn[c].owed = 0 /\ conn[c].open = FALSE /\ conn[c].armed = {}
        /\ sq = <<>> /\ kernel = {} /\ cq = <<>> /\ events = <<>>
    BY DEF Init, Closed
  <2>2. /\ Mine(sq, c) = {} /\ Mine(cq, c) = {} /\ Mine(events, c) = {}
        /\ Ops(kernel, c) = {} /\ Good(cq, c) = {}
    BY <2>1 DEF Mine, Ops, Good
  <2>3. /\ Cardinality(Mine(sq, c)) = 0 /\ Cardinality(Mine(cq, c)) = 0
        /\ Cardinality(Mine(events, c)) = 0 /\ Cardinality(Ops(kernel, c)) = 0
    BY <2>2, EmptySize
  <2>4. OneSend(c)
    BY <2>2 DEF OneSend, Single
  <2>5. Owed(c)
    BY <2>1, <2>3 DEF Owed
  <2>6. Waiting(c) /\ Account(c)
    BY <2>1 DEF Waiting, Account
  <2> QED BY <2>4, <2>5, <2>6
<1> QED BY <1>1, <1>2 DEF IInv

\* A set of at most one element is empty or a singleton.
LEMMA NoneOrOne == ASSUME NEW S, Single(S) PROVE S = {} \/ \E x : S = {x}
<1> SUFFICES ASSUME S # {} PROVE \E x : S = {x}
  OBVIOUS
<1>1. PICK x : x \in S
  OBVIOUS
<1>2. S = {x}
  BY <1>1 DEF Single
<1> QED BY <1>2, Zenon

\* It is finite.
LEMMA SingleSize ==
    ASSUME Facts, NEW S, Single(S)
    PROVE  IsFiniteSet(S) /\ Cardinality(S) \in Nat /\ (S # {} => Cardinality(S) = 1)
<1>1. S = {} \/ \E x : S = {x}
  BY NoneOrOne, Zenon
<1>2. CASE S = {}
  BY <1>2, EmptySize
<1>3. CASE \E x : S = {x}
  <2>1. PICK x : S = {x}
    BY <1>3
  <2>2. IsFiniteSet(S) /\ Cardinality(S) = 1
    BY <2>1, OneElement, Zenon
  <2> QED BY <2>2
<1> QED BY <1>1, <1>2, <1>3

\* The four places where a connection's sends are hold finitely many.
LEMMA Finite ==
    ASSUME Facts, TypeOK, NEW c \in Conns, OneSend(c)
    PROVE  /\ IsFiniteSet(Mine(sq, c)) /\ IsFiniteSet(Mine(cq, c)) /\ IsFiniteSet(Mine(events, c))
           /\ IsFiniteSet(Ops(kernel, c))
           /\ Cardinality(Mine(sq, c)) \in Nat /\ Cardinality(Mine(cq, c)) \in Nat
           /\ Cardinality(Mine(events, c)) \in Nat /\ Cardinality(Ops(kernel, c)) \in Nat
<1>1. Single(Ops(kernel, c))
  BY Zenon DEF OneSend
<1>2. IsFiniteSet(Ops(kernel, c)) /\ Cardinality(Ops(kernel, c)) \in Nat
  BY <1>1, SingleSize, Zenon
<1>3. sq \in Seq(Sqe) /\ cq \in Seq(Cqe) /\ events \in Seq(Cqe)
  BY DEF TypeOK
<1> QED BY <1>2, <1>3, MineIs

\* With pending_ops at 0, no queue and no kernel operation names the connection.
LEMMA NothingOwed ==
    ASSUME Facts, TypeOK, NEW c \in Conns, OneSend(c), Owed(c), conn[c].owed = 0
    PROVE  /\ Mine(sq, c) = {} /\ Mine(cq, c) = {} /\ Mine(events, c) = {} /\ Ops(kernel, c) = {}
           /\ Good(cq, c) = {} /\ Good(events, c) = {}
<1>1. /\ Cardinality(Mine(sq, c)) = 0 /\ Cardinality(Mine(cq, c)) = 0
      /\ Cardinality(Mine(events, c)) = 0 /\ Cardinality(Ops(kernel, c)) = 0
  <2>1. /\ Cardinality(Mine(sq, c)) \in Nat /\ Cardinality(Mine(cq, c)) \in Nat
        /\ Cardinality(Mine(events, c)) \in Nat /\ Cardinality(Ops(kernel, c)) \in Nat
    BY Finite
  <2> QED BY <2>1 DEF Owed
<1>2. Mine(sq, c) = {} /\ Mine(cq, c) = {} /\ Mine(events, c) = {} /\ Ops(kernel, c) = {}
  BY <1>1, Finite, Singles
<1>3. Good(cq, c) \subseteq Mine(cq, c) /\ Good(events, c) \subseteq Mine(events, c)
  BY DEF Good, Mine
<1> QED BY <1>2, <1>3

\* A step that only changes one connection's record, and keeps what it owes,
\* keeps the invariant.
LEMMA NewConnOK ==
    ASSUME Facts, IInv, NEW c \in Conns, NEW r,
           conn' = [conn EXCEPT ![c] = r],
           r \in [open : BOOLEAN, fd : Fds \cup {None}, up : Fds \cup {None},
                  armed : SUBSET SendKinds, waits : SendKinds \cup {"none"}, owed : Nat],
           r.owed = conn[c].owed, r.armed \subseteq {r.waits},
           r.open => conn[c].open \/ conn[c].owed = 0,
           r.waits = "none" => conn[c].waits = "none" \/ conn[c].owed = 0,
           owner' \in [Fds -> Conns \cup {None}],
           UNCHANGED <<ss, sq, kernel, cq, events, want, got>>
    PROVE  IInv'
<1>1. TypeOK /\ TypeOK'
  BY DEF IInv, TypeOK
<1>2. ASSUME NEW d \in Conns PROVE (OneSend(d) /\ Owed(d) /\ Waiting(d) /\ Account(d))'
  <2>1. OneSend(d) /\ Owed(d) /\ Waiting(d) /\ Account(d)
    BY DEF IInv
  <2>2. OneSend(d)'
    BY <2>1 DEF OneSend
  <2>3. conn'[d].owed = conn[d].owed
        /\ (conn[d].armed \subseteq {conn[d].waits} => conn'[d].armed \subseteq {conn'[d].waits})
        /\ (conn'[d].open => conn[d].open \/ conn[d].owed = 0)
        /\ (conn'[d].waits = "none" => conn[d].waits = "none" \/ conn[d].owed = 0)
    BY <1>1 DEF TypeOK
  <2>4. Owed(d)' /\ Waiting(d)'
    BY <2>1, <2>3 DEF Owed, Waiting
  <2>5. Account(d)'
    <3>1. CASE conn[d].open
      BY <3>1, <2>1, <2>3 DEF Account, Rest
    <3>2. CASE conn[d].owed = 0
      <4>1. Mine(sq, d) = {} /\ Good(cq, d) = {} /\ Good(events, d) = {} /\ Ops(kernel, d) = {}
        BY <3>2, <2>1, <1>1, NothingOwed
      <4> QED BY <4>1 DEF Account
    <3> QED BY <3>1, <3>2, <2>3 DEF Account
  <2> QED BY <2>2, <2>4, <2>5
<1> QED BY <1>1, <1>2 DEF IInv

\* The type of a connection's record.
ConnRecord ==
    [open : BOOLEAN, fd : Fds \cup {None}, up : Fds \cup {None},
     armed : SUBSET SendKinds, waits : SendKinds \cup {"none"}, owed : Nat]

\* Accepting a socket into a free slot keeps the invariant.
LEMMA AcceptOK == ASSUME Facts, IInv, NEW c \in Conns, NEW f \in Fds, Accept(c, f) PROVE IInv'
<1> DEFINE r == [conn[c] EXCEPT !.open = TRUE, !.fd = f]
<1>1. /\ conn[c] \in ConnRecord /\ conn \in [Conns -> ConnRecord]
      /\ owner \in [Fds -> Conns \cup {None}]
  BY DEF IInv, TypeOK, ConnRecord
<1>2. conn' = [conn EXCEPT ![c] = r]
  BY <1>1, Zenon DEF Accept, ConnRecord
<1>3. /\ r \in ConnRecord /\ r.owed = conn[c].owed
      /\ r.armed = conn[c].armed /\ r.waits = conn[c].waits
  BY <1>1, Zenon DEF ConnRecord
<1>4. conn[c].owed = 0 /\ UNCHANGED <<ss, sq, kernel, cq, events, want, got>>
  BY DEF Accept
<1>5. owner' \in [Fds -> Conns \cup {None}]
  BY <1>1 DEF Accept
<1>6. conn[c].armed \subseteq {conn[c].waits}
  BY DEF IInv, Waiting
<1> HIDE DEF r
<1> QED BY <1>2, <1>3, <1>4, <1>5, <1>6, NewConnOK, Zenon DEF ConnRecord

\* Opening the upstream socket keeps the invariant.
LEMMA OpenUpstreamOK == ASSUME Facts, IInv, NEW c \in Conns, NEW f \in Fds, OpenUpstream(c, f) PROVE IInv'
<1> DEFINE r == [conn[c] EXCEPT !.up = f]
<1>1. /\ conn[c] \in ConnRecord /\ conn \in [Conns -> ConnRecord]
      /\ owner \in [Fds -> Conns \cup {None}]
  BY DEF IInv, TypeOK, ConnRecord
<1>2. conn' = [conn EXCEPT ![c] = r]
  BY <1>1 DEF OpenUpstream, ConnRecord
<1>3. /\ r \in ConnRecord /\ r.owed = conn[c].owed /\ r.armed = conn[c].armed
      /\ r.waits = conn[c].waits /\ r.open = conn[c].open
  BY <1>1 DEF ConnRecord
<1>4. UNCHANGED <<ss, sq, kernel, cq, events, want, got>>
  BY DEF OpenUpstream
<1>5. owner' \in [Fds -> Conns \cup {None}]
  BY <1>1 DEF OpenUpstream
<1>6. conn[c].armed \subseteq {conn[c].waits}
  BY DEF IInv, Waiting
<1> HIDE DEF r
<1> QED BY <1>2, <1>3, <1>4, <1>5, <1>6, NewConnOK, Zenon DEF ConnRecord

\* What a step leaves of a connection it is not about.
LEMMA Untouched ==
    ASSUME IInv, NEW d \in Conns,
           conn'[d] = conn[d], ss'[d] = ss[d], want'[d] = want[d], got'[d] = got[d],
           Mine(sq, d)' = Mine(sq, d), \A i \in Mine(sq, d) : sq'[i] = sq[i],
           Mine(cq, d)' = Mine(cq, d), \A i \in Mine(cq, d) : cq'[i] = cq[i],
           Cardinality(Mine(events, d))' = Cardinality(Mine(events, d)),
           \A i \in Good(events, d)' : \E j \in Good(events, d) : events'[i] = events[j],
           Ops(kernel, d)' = Ops(kernel, d)
    PROVE  (OneSend(d) /\ Owed(d) /\ Waiting(d) /\ Account(d))'
<1>1. OneSend(d) /\ Owed(d) /\ Waiting(d) /\ Account(d)
  BY DEF IInv
<1>2. Good(cq, d)' = Good(cq, d) /\ Good(cq, d) \subseteq Mine(cq, d)
  BY DEF Good, Mine
<1>3. OneSend(d)'
  BY <1>1, <1>2 DEF OneSend
<1>4. Owed(d)' /\ Waiting(d)'
  BY <1>1 DEF Owed, Waiting
<1>5. Account(d)'
  <2> SUFFICES ASSUME conn[d].open
      PROVE /\ \A i \in Mine(sq, d)' : Rest(ss[d], d, sq[i].len)'
            /\ \A op \in Ops(kernel, d)' : Rest(ss[d], d, op.len)'
            /\ \A i \in Good(cq, d)' :
                 /\ cq'[i].res <= ss'[d].remaining /\ got'[d] = ss'[d].offset + cq'[i].res
                 /\ ss'[d].offset + ss'[d].remaining = want'[d]
            /\ \A i \in Good(events, d)' : events'[i].res = want'[d] /\ got'[d] = want'[d]
    BY DEF Account
  <2>1. \A i \in Mine(sq, d)' : Rest(ss[d], d, sq[i].len)'
    BY <1>1 DEF Account, Rest
  <2>2. \A op \in Ops(kernel, d)' : Rest(ss[d], d, op.len)'
    BY <1>1 DEF Account, Rest
  <2>3. \A i \in Good(cq, d)' :
                 /\ cq'[i].res <= ss'[d].remaining /\ got'[d] = ss'[d].offset + cq'[i].res
                 /\ ss'[d].offset + ss'[d].remaining = want'[d]
    BY <1>1, <1>2 DEF Account
  <2>4. \A i \in Good(events, d)' : events'[i].res = want'[d] /\ got'[d] = want'[d]
    BY <1>1 DEF Account
  <2> QED BY <2>1, <2>2, <2>3, <2>4
<1> QED BY <1>3, <1>4, <1>5

\* Appending completions without written bytes keeps those with written bytes.
LEMMA GoodConcat ==
    ASSUME NEW a \in Seq(Cqe), NEW b \in Seq(Cqe), NEW c, Good(b, c) = {}
    PROVE  Good(a \o b, c) = Good(a, c) /\ \A i \in Good(a, c) : (a \o b)[i] = a[i]
<1>1. ASSUME NEW i \in Good(a \o b, c) PROVE i \in Good(a, c)
  <2>1. i \in 1..(Len(a) + Len(b)) /\ (a \o b)[i].c = c /\ (a \o b)[i].res > 0
    BY <1>1 DEF Good
  <2>2. CASE i <= Len(a)
    BY <2>1, <2>2 DEF Good
  <2>3. CASE i > Len(a)
    <3>1. i - Len(a) \in DOMAIN b /\ b[i - Len(a)] = (a \o b)[i]
      BY <2>1, <2>3
    <3>2. i - Len(a) \in Good(b, c)
      BY <3>1, <2>1 DEF Good
    <3> QED BY <3>2
  <2> QED BY <2>1, <2>2, <2>3
<1>2. ASSUME NEW i \in Good(a, c) PROVE i \in Good(a \o b, c) /\ (a \o b)[i] = a[i]
  BY <1>2 DEF Good
<1> QED BY <1>1, <1>2, Zenon

\* add_send and add_send_upstream keep the invariant, with a full SQ too.
LEMMA SendOK ==
    ASSUME Facts, IInv, NEW c \in Conns, NEW k \in SendKinds, NEW n \in 1..MaxLen, Send(c, k, n)
    PROVE  IInv'
<1> DEFINE fd == IF k = "Send" THEN conn[c].fd ELSE conn[c].up
<1>1. conn \in [Conns -> ConnRecord] /\ TypeOK /\ conn[c] \in ConnRecord
  BY DEF IInv, TypeOK, ConnRecord
<1>2. conn[c].open /\ conn[c].waits = "none" /\ UNCHANGED <<owner, kernel, cq, events>>
  BY DEF Send
<1>3. OneSend(c) /\ Owed(c) /\ Waiting(c)
  BY DEF IInv
<1>4. conn[c].owed = 0 /\ conn[c].armed = {}
  <2>1. "none" \notin SendKinds
    BY DEF SendKinds
  <2> QED BY <1>1, <1>2, <1>3, <2>1 DEF Waiting, ConnRecord
<1>5. CASE ~(Len(sq) < SqSize)
  <2> DEFINE r == [conn[c] EXCEPT !.waits = k]
  <2>1. conn' = [conn EXCEPT ![c] = r] /\ UNCHANGED <<ss, sq, want, got>>
    BY <1>1, <1>5 DEF Send, ConnRecord
  <2>2. /\ r \in ConnRecord /\ r.owed = conn[c].owed /\ r.armed = conn[c].armed
        /\ r.waits = k /\ r.open = conn[c].open
    BY <1>1 DEF ConnRecord
  <2>3. owner' \in [Fds -> Conns \cup {None}]
    BY <1>1, <1>2 DEF TypeOK
  <2>4. r.armed \subseteq {r.waits}
    BY <2>2, <1>4
  <2> HIDE DEF r
  <2> QED BY <1>2, <1>4, <2>1, <2>2, <2>3, <2>4, NewConnOK, Zenon DEF ConnRecord
<1>6. CASE Len(sq) < SqSize
  <2> DEFINE e == [c |-> c, type |-> k, fd |-> fd, len |-> n]
  <2> DEFINE s == [fd |-> fd, offset |-> 0, remaining |-> n]
  <2>1. /\ ss' = [ss EXCEPT ![c] = s] /\ sq' = Append(sq, e)
        /\ conn' = [conn EXCEPT ![c].waits = k, ![c].owed = @ + 1, ![c].armed = @ \cup {k}]
        /\ want' = [want EXCEPT ![c] = n] /\ got' = [got EXCEPT ![c] = 0]
    BY <1>6 DEF Send
  <2>2. fd \in Fds \cup {None} /\ n \in Int /\ n > 0 /\ e.c = c /\ e.len = n
    BY <1>1, SendAssumption DEF ConnRecord
  <2>3. /\ e \in Sqe /\ s \in [fd : Fds \cup {None}, offset : Int, remaining : Int]
        /\ s.offset = 0 /\ s.remaining = n
    BY <2>2 DEF Sqe
  <2> HIDE DEF e, s, fd
  <2>4. /\ conn' \in [Conns -> ConnRecord]
        /\ conn'[c].owed = 1 /\ conn'[c].armed = {k}
        /\ conn'[c].waits = k /\ conn'[c].open = conn[c].open
        /\ \A d \in Conns \ {c} : conn'[d] = conn[d]
    BY <1>1, <1>4, <2>1 DEF ConnRecord
  <2>5. /\ ss'[c] = s /\ want'[c] = n /\ got'[c] = 0
        /\ \A d \in Conns \ {c} : ss'[d] = ss[d] /\ want'[d] = want[d] /\ got'[d] = got[d]
        /\ ss' \in [Conns -> [fd : Fds \cup {None}, offset : Int, remaining : Int]]
        /\ want' \in [Conns -> Int] /\ got' \in [Conns -> Int]
    BY <1>1, <2>1, <2>2, <2>3 DEF TypeOK
  <2>6. sq \in Seq(Sqe) /\ sq' \in Seq(Sqe)
    BY <1>1, <2>1, <2>3 DEF TypeOK
  <2>7. TypeOK'
    BY <1>1, <1>2, <2>4, <2>5, <2>6 DEF TypeOK, ConnRecord
  <2>8. ASSUME NEW d \in Conns, d # c PROVE (OneSend(d) /\ Owed(d) /\ Waiting(d) /\ Account(d))'
    <3>1. Mine(sq, d)' = Mine(sq, d) /\ \A i \in Mine(sq, d) : sq'[i] = sq[i]
      <4>1. /\ e.c # d => Mine(Append(sq, e), d) = Mine(sq, d)
            /\ \A i \in Mine(sq, d) : Append(sq, e)[i] = sq[i]
        <5>1. e.c # d => Mine(Append(sq, e), d) = Mine(sq, d)
          BY <2>3, <2>6, MineAppend
        <5>2. \A i \in Mine(sq, d) : Append(sq, e)[i] = sq[i]
          BY <2>3, <2>6 DEF Mine
        <5> QED BY <5>1, <5>2, Zenon
      <4> QED BY <2>1, <2>2, <2>8, <4>1, Zenon
    <3>2. /\ conn'[d] = conn[d] /\ ss'[d] = ss[d] /\ want'[d] = want[d] /\ got'[d] = got[d]
      BY <2>4, <2>5, <2>8
    <3> QED BY <1>2, <3>1, <3>2, Untouched
  <2>9. (OneSend(c) /\ Owed(c) /\ Waiting(c) /\ Account(c))'
    <3>1. /\ Mine(sq, c) = {} /\ Mine(cq, c) = {} /\ Mine(events, c) = {} /\ Ops(kernel, c) = {}
          /\ Good(cq, c) = {} /\ Good(events, c) = {}
      BY <1>1, <1>3, <1>4, NothingOwed
    <3>2. Mine(sq, c)' = {Len(sq) + 1} /\ sq'[Len(sq) + 1] = e
      <4>1. /\ e.c = c => Mine(Append(sq, e), c) = Mine(sq, c) \cup {Len(sq) + 1}
            /\ Append(sq, e)[Len(sq) + 1] = e
        <5>1. e.c = c => Mine(Append(sq, e), c) = Mine(sq, c) \cup {Len(sq) + 1}
          BY <2>3, <2>6, MineLonger
        <5>2. Append(sq, e)[Len(sq) + 1] = e
          BY <2>6
        <5> QED BY <5>1, <5>2
      <4>2. Mine(sq, c)' = Mine(sq, c) \cup {Len(sq) + 1} /\ sq'[Len(sq) + 1] = e
        BY <2>1, <2>2, <4>1, Zenon
      <4> QED BY <3>1, <4>2
    <3>3. /\ Mine(cq, c)' = {} /\ Mine(events, c)' = {} /\ Ops(kernel, c)' = {}
          /\ Good(cq, c)' = {} /\ Good(events, c)' = {}
      BY <1>2, <3>1
    <3>4. OneSend(c)'
      BY <3>2, <3>3 DEF OneSend, Single
    <3>5. /\ Cardinality(Mine(sq, c)') = 1 /\ Cardinality(Mine(cq, c)') = 0
          /\ Cardinality(Mine(events, c)') = 0 /\ Cardinality(Ops(kernel, c)') = 0
      BY <3>2, <3>3, EmptySize, OneElement, Zenon
    <3>6. Owed(c)'
      BY <2>4, <3>5 DEF Owed
    <3>7. Waiting(c)'
      <4>1. "none" \notin SendKinds
        BY DEF SendKinds
      <4> QED BY <2>4, <4>1 DEF Waiting
    <3>8. \A i \in Mine(sq, c)' : Rest(ss[c], c, sq[i].len)'
      BY <2>2, <2>3, <2>5, <3>2 DEF Rest
    <3>9. Account(c)'
      BY <3>3, <3>8 DEF Account
    <3> QED BY <3>4, <3>6, <3>7, <3>9
  <2> QED BY <2>7, <2>8, <2>9 DEF IInv
<1> QED BY <1>5, <1>6

\* Dispatching an event keeps the invariant.
LEMMA DispatchOK == ASSUME Facts, IInv, Dispatch PROVE IInv'
<1> DEFINE e == Head(events)
<1>1. TypeOK /\ conn \in [Conns -> ConnRecord]
  BY DEF IInv, TypeOK, ConnRecord
<1>2. /\ events # <<>> /\ events \in Seq(Cqe) /\ events' = Tail(events)
      /\ events' \in Seq(Cqe) /\ e \in Cqe
      /\ UNCHANGED <<ss, owner, sq, kernel, cq, want, got>>
  BY <1>1 DEF Dispatch, TypeOK
<1>3. PICK c \in Conns : c = e.c /\ e.type \in SendKinds
  BY <1>2 DEF Cqe
<1>4. /\ conn' \in [Conns -> ConnRecord]
      /\ \A d \in Conns \ {c} : conn'[d] = conn[d]
      /\ conn'[c].owed = (IF conn[c].owed > 0 THEN conn[c].owed - 1 ELSE 0)
      /\ conn'[c].armed = conn[c].armed \ {e.type} /\ conn'[c].open = conn[c].open
      /\ conn'[c].waits = IF conn[c].waits = e.type THEN "none" ELSE conn[c].waits
  <2> HIDE DEF e
  <2>1. conn' = [conn EXCEPT ![e.c].owed = IF @ > 0 THEN @ - 1 ELSE 0,
                             ![e.c].armed = @ \ {e.type},
                             ![e.c].waits = IF conn[e.c].waits = e.type THEN "none" ELSE @]
    BY DEF Dispatch, e
  <2> QED BY <1>1, <1>3, <2>1 DEF ConnRecord
<1>5. TypeOK'
  BY <1>1, <1>2, <1>4 DEF TypeOK, ConnRecord
<1> HIDE DEF e
<1>6. \A d \in Conns :
        Cardinality(Mine(events, d)) = Cardinality(Mine(events, d)') + IF e.c = d THEN 1 ELSE 0
  BY <1>2, MineTail DEF e
<1>7. \A d \in Conns : \A i \in Good(events, d)' : \E j \in Good(events, d) : events'[i] = events[j]
  <2> SUFFICES ASSUME NEW d \in Conns, NEW i \in Good(events, d)'
               PROVE  i + 1 \in Good(events, d) /\ events'[i] = events[i + 1]
    OBVIOUS
  <2>1. i \in DOMAIN Tail(events) /\ Tail(events)[i].c = d /\ Tail(events)[i].res > 0
    BY <1>2 DEF Good
  <2>2. i + 1 \in DOMAIN events /\ Tail(events)[i] = events[i + 1]
    BY <1>2, <2>1
  <2> QED BY <1>2, <2>1, <2>2 DEF Good
<1>8. ASSUME NEW d \in Conns PROVE (OneSend(d) /\ Owed(d) /\ Waiting(d) /\ Account(d))'
  <2>0. OneSend(d) /\ Owed(d) /\ Waiting(d) /\ Account(d)
    BY DEF IInv
  <2>1. CASE d # c
    <3>1. Cardinality(Mine(events, d)') \in Nat
      BY <1>2, MineIs, Zenon
    <3>2. Cardinality(Mine(events, d)') = Cardinality(Mine(events, d))
      <4>1. Cardinality(Mine(events, d)) = Cardinality(Mine(events, d)') + IF e.c = d THEN 1 ELSE 0
        BY <1>6, Zenon
      <4> QED BY <1>3, <2>1, <3>1, <4>1
    <3>3. conn'[d] = conn[d]
      BY <1>4, <2>1
    <3> QED BY <1>2, <1>7, <3>2, <3>3, Untouched, Zenon
  <2>2. CASE d = c
    <3>1. /\ Cardinality(Mine(events, c)') \in Nat
          /\ Cardinality(Mine(events, c)) = Cardinality(Mine(events, c)') + 1
      BY <1>2, <1>3, <1>6, MineIs, Zenon
    <3>2. /\ Cardinality(Mine(sq, c)) \in Nat /\ Cardinality(Mine(cq, c)) \in Nat
          /\ Cardinality(Mine(events, c)) \in Nat /\ Cardinality(Ops(kernel, c)) \in Nat
      BY <1>1, <2>0, <2>2, Finite
    <3>3. conn[c].owed > 0 /\ conn'[c].owed = conn[c].owed - 1 /\ conn[c].owed \in Nat
      <4>1. conn[c].owed > 0
        BY <2>0, <2>2, <3>1, <3>2 DEF Owed
      <4> QED BY <1>1, <1>3, <1>4, <4>1 DEF ConnRecord
    <3>4. Owed(c)'
      <4>1. /\ Mine(sq, c)' = Mine(sq, c) /\ Mine(cq, c)' = Mine(cq, c)
            /\ Ops(kernel, c)' = Ops(kernel, c)
        BY <1>2
      <4> QED BY <2>0, <2>2, <3>1, <3>2, <3>3, <4>1 DEF Owed
    <3>5. OneSend(c)'
      BY <1>2, <2>0, <2>2 DEF OneSend
    <3>6. Waiting(c)'
      BY <1>4, <2>0, <2>2, <3>3 DEF Waiting
    <3>7. Account(c)'
      <4>1. /\ Mine(sq, c)' = Mine(sq, c) /\ Good(cq, c)' = Good(cq, c)
            /\ Ops(kernel, c)' = Ops(kernel, c)
        BY <1>2
      <4>2. /\ conn'[c].open = conn[c].open /\ ss' = ss /\ sq' = sq
            /\ cq' = cq /\ want' = want /\ got' = got
        BY <1>2, <1>4
      <4> SUFFICES ASSUME conn[c].open
                   PROVE  /\ \A i \in Mine(sq, c) : Rest(ss[c], c, sq[i].len)'
                          /\ \A op \in Ops(kernel, c) : Rest(ss[c], c, op.len)'
                          /\ \A i \in Good(cq, c) : /\ cq[i].res <= ss[c].remaining
                                                  /\ got[c] = ss[c].offset + cq[i].res
                                                  /\ ss[c].offset + ss[c].remaining = want[c]
                          /\ \A i \in Good(events, c)' : events'[i].res = want[c] /\ got[c] = want[c]
        BY <4>1, <4>2 DEF Account
      <4>3. \A i \in Good(events, c)' : events'[i].res = want[c] /\ got[c] = want[c]
        BY <1>7, <2>0, <2>2 DEF Account
      <4> QED BY <2>0, <2>2, <4>2, <4>3, ZenonT(60) DEF Account, Rest
    <3> QED BY <2>2, <3>4, <3>5, <3>6, <3>7
  <2> QED BY <2>1, <2>2
<1> QED BY <1>5, <1>8 DEF IInv

-----------------------------------------------------------------------------
(* io_uring_enter.                                                         *)

\* The completions of the SQEs whose descriptor is closed: one for each, all EBADF.
LEMMA RefusedIs ==
    ASSUME Facts, TypeOK, NEW b \in Refused(sq)
    PROVE  /\ b \in Seq(Cqe)
           /\ \A k \in DOMAIN b : b[k].res = EBADF
           /\ \E f : /\ DOMAIN f = DOMAIN b
                     /\ \A k \in DOMAIN b : /\ f[k] \in DOMAIN sq /\ owner[sq[f[k]].fd] = None
                                            /\ b[k].c = sq[f[k]].c
                     /\ \A j, k \in DOMAIN b : f[j] = f[k] => j = k
                     /\ \A i \in DOMAIN sq : owner[sq[i].fd] = None => \E k \in DOMAIN b : f[k] = i
<1> DEFINE bad == { j \in DOMAIN sq : owner[sq[j].fd] = None }
<1> DEFINE n == Cardinality(bad)
<1>1. PICK f \in Bijection(1..n, bad) :
           b = [i \in DOMAIN f |-> [c |-> sq[f[i]].c, type |-> sq[f[i]].type, res |-> EBADF]]
  BY DEF Refused
<1>2. sq \in Seq(Sqe) /\ DOMAIN sq = 1..Len(sq) /\ Len(sq) \in Int
  BY DEF TypeOK
<1>3. IsFiniteSet(bad) /\ n \in Nat
  <2>1. IsFiniteSet(1..Len(sq))
    BY <1>2, IntervalSize
  <2>2. bad \in SUBSET (1..Len(sq))
    BY <1>2
  <2> HIDE DEF bad
  <2> QED BY <2>1, <2>2, SubsetSize, SizeIsNat, Zenon
<1>4. /\ f \in [1..n -> bad] /\ (\A j, k \in DOMAIN f : f[j] = f[k] => j = k)
      /\ \A t \in bad : \E k \in 1..n : f[k] = t
  BY <1>1, Zenon DEF Bijection, Injection, Surjection, IsInjective
<1> HIDE DEF n
<1>5. DOMAIN b = 1..n /\ DOMAIN f = 1..n
  BY <1>1, <1>4
<1>6. \A k \in 1..n : f[k] \in DOMAIN sq /\ owner[sq[f[k]].fd] = None /\ sq[f[k]] \in Sqe
  BY <1>2, <1>4
<1>7. \A k \in 1..n : b[k] = [c |-> sq[f[k]].c, type |-> sq[f[k]].type, res |-> EBADF]
  BY <1>1, <1>5
<1>8. \A k \in 1..n : b[k] \in Cqe /\ b[k].res = EBADF /\ b[k].c = sq[f[k]].c
  <2> TAKE k \in 1..n
  <2>1. sq[f[k]].c \in Conns /\ sq[f[k]].type \in SendKinds /\ EBADF \in Int
    BY <1>6 DEF Sqe, EBADF
  <2>2. b[k] = [c |-> sq[f[k]].c, type |-> sq[f[k]].type, res |-> EBADF]
    BY <1>7, Zenon
  <2>3. [c |-> sq[f[k]].c, type |-> sq[f[k]].type, res |-> EBADF] \in Cqe
    BY <2>1 DEF Cqe
  <2> QED BY <2>2, <2>3
<1>9. b \in Seq(Cqe)
  <2>1. b = [k \in 1..n |-> b[k]]
    BY <1>1, <1>5
  <2> QED BY <2>1, <1>3, <1>8
<1>10. \A i \in DOMAIN sq : owner[sq[i].fd] = None => \E k \in DOMAIN b : f[k] = i
  BY <1>4, <1>5
<1> QED BY <1>4, <1>5, <1>6, <1>8, <1>9, <1>10, ZenonT(60)

\* The queued sends of c are among the operations H or the completions b: none is
\* lost or doubled, and none reports written bytes.
Taken(b, H, c) ==
    /\ Good(b, c) = {} /\ Single(Ops(H, c))
    /\ Ops(H, c) = {} \/ Good(cq, c) = {}
    /\ Cardinality(Mine(b, c)) + Cardinality(Ops(H, c))
         = Cardinality(Mine(sq, c)) + Cardinality(Ops(kernel, c))
    /\ \A op \in Ops(H, c) :
         op \in Ops(kernel, c) \/ \E i \in Mine(sq, c) : op.len = sq[i].len

\* io_uring_enter moves the queued sends to the kernel, or to the CQ as failures.
LEMMA Enters ==
    ASSUME Facts, TypeOK, NEW b \in Refused(sq), NEW c \in Conns, OneSend(c),
           NEW H, H = kernel \cup Issued(sq)
    PROVE  b \in Seq(Cqe) /\ (\A op \in H : Op(op)) /\ Taken(b, H, c)
<1> USE DEF Taken
<1>1. /\ b \in Seq(Cqe) /\ \A k \in DOMAIN b : b[k].res = EBADF
  BY RefusedIs
<1>2. PICK f : /\ DOMAIN f = DOMAIN b
               /\ \A k \in DOMAIN b : /\ f[k] \in DOMAIN sq /\ owner[sq[f[k]].fd] = None
                                      /\ b[k].c = sq[f[k]].c
               /\ \A j, k \in DOMAIN b : f[j] = f[k] => j = k
               /\ \A i \in DOMAIN sq : owner[sq[i].fd] = None => \E k \in DOMAIN b : f[k] = i
  BY RefusedIs
<1>3. Good(b, c) = {}
  BY <1>1 DEF Good, EBADF
<1>4. sq \in Seq(Sqe) /\ \A i \in DOMAIN sq : sq[i] \in Sqe
  BY DEF TypeOK
<1>5. \A op \in Issued(sq) : \E i \in DOMAIN sq :
        /\ owner[sq[i].fd] # None
        /\ op = [c |-> sq[i].c, type |-> sq[i].type, to |-> owner[sq[i].fd], len |-> sq[i].len]
  BY DEF Issued
<1>6. \A i \in DOMAIN sq : owner[sq[i].fd] # None =>
        [c |-> sq[i].c, type |-> sq[i].type, to |-> owner[sq[i].fd], len |-> sq[i].len] \in Issued(sq)
  BY DEF Issued
<1>7. \A op \in H : Op(op)
  <2>1. \A op \in Issued(sq) : Op(op)
    BY <1>4, <1>5 DEF Op, Sqe
  <2> QED BY <2>1 DEF TypeOK
<1>8. Ops(H, c) = Ops(kernel, c) \cup Ops(Issued(sq), c)
  BY DEF Ops
<1>9. \A op \in Ops(Issued(sq), c) : \E i \in Mine(sq, c) :
        /\ owner[sq[i].fd] # None
        /\ op = [c |-> sq[i].c, type |-> sq[i].type, to |-> owner[sq[i].fd], len |-> sq[i].len]
        /\ op.len = sq[i].len
  BY <1>5 DEF Ops, Mine
<1>10. CASE Mine(sq, c) = {}
  <2>1. Ops(Issued(sq), c) = {}
    BY <1>9, <1>10
  <2>2. Mine(b, c) = {}
    BY <1>2, <1>10 DEF Mine
  <2>3. Ops(H, c) = Ops(kernel, c)
    BY <1>8, <2>1
  <2>4. Cardinality(Mine(b, c)) = 0 /\ Cardinality(Mine(sq, c)) = 0
    BY <1>10, <2>2, EmptySize
  <2>5. Cardinality(Ops(kernel, c)) \in Nat
    BY SingleSize, Zenon DEF OneSend
  <2> QED BY <1>1, <1>3, <1>7, <2>3, <2>4, <2>5, Zenon DEF OneSend
<1>11. CASE Mine(sq, c) # {}
  <2>1. PICK i : Mine(sq, c) = {i}
    BY <1>11, Zenon DEF OneSend, Single
  <2>2. Ops(kernel, c) = {} /\ Good(cq, c) = {}
    BY <1>11 DEF OneSend
  <2>3. i \in DOMAIN sq /\ sq[i].c = c
    BY <2>1 DEF Mine
  <2>4. Cardinality(Mine(sq, c)) = 1 /\ Cardinality(Ops(kernel, c)) = 0
    BY <2>1, <2>2, EmptySize, OneElement, Zenon
  <2>5. CASE owner[sq[i].fd] # None
    <3> DEFINE op == [c |-> sq[i].c, type |-> sq[i].type, to |-> owner[sq[i].fd], len |-> sq[i].len]
    <3>1. op \in Issued(sq) /\ op.c = c
      BY <1>6, <2>3, <2>5
    <3>2. \A x \in Ops(Issued(sq), c) : x = op
      BY <1>9, <2>1
    <3> HIDE DEF op
    <3>3. Ops(Issued(sq), c) = {op}
      BY <3>1, <3>2 DEF Ops
    <3>4. Ops(H, c) = {op}
      BY <1>8, <2>2, <3>3
    <3>5. Mine(b, c) = {}
      <4>1. \A k \in Mine(b, c) : f[k] \in Mine(sq, c) /\ owner[sq[f[k]].fd] = None
        BY <1>2 DEF Mine
      <4> QED BY <2>1, <2>5, <4>1
    <3>6. Cardinality(Mine(b, c)) = 0 /\ Cardinality(Ops(H, c)) = 1
      BY <3>4, <3>5, EmptySize, OneElement, Zenon
    <3>7. Single(Ops(H, c))
      BY <3>4 DEF Single
    <3>8. \A x \in Ops(H, c) : \E k \in Mine(sq, c) : x.len = sq[k].len
      BY <1>9, <3>3, <3>4
    <3>9. Cardinality(Mine(b, c)) + Cardinality(Ops(H, c))
            = Cardinality(Mine(sq, c)) + Cardinality(Ops(kernel, c))
      BY <2>4, <3>6
    <3> QED BY <1>1, <1>3, <1>7, <2>2, <3>7, <3>8, <3>9, ZenonT(60)
  <2>6. CASE owner[sq[i].fd] = None
    <3>1. Ops(Issued(sq), c) = {}
      BY <1>9, <2>1, <2>6, ZenonT(60)
    <3>2. Ops(H, c) = {}
      BY <1>8, <2>2, <3>1
    <3>3. PICK k \in DOMAIN b : f[k] = i
      BY <1>2, <2>3, <2>6
    <3>4. \A j \in Mine(b, c) : f[j] \in Mine(sq, c) /\ j \in DOMAIN b
      BY <1>2 DEF Mine
    <3>5. \A j \in Mine(b, c) : j = k
      BY <1>2, <2>1, <3>3, <3>4
    <3>6. k \in Mine(b, c)
      BY <1>2, <2>3, <3>3 DEF Mine
    <3>7. Mine(b, c) = {k}
      BY <3>5, <3>6
    <3>8. Cardinality(Mine(b, c)) = 1 /\ Cardinality(Ops(H, c)) = 0
      BY <3>2, <3>7, EmptySize, OneElement, Zenon
    <3>9. Single(Ops(H, c))
      BY <3>2 DEF Single
    <3> QED BY <1>1, <1>3, <1>7, <2>2, <2>4, <3>2, <3>8, <3>9, ZenonT(60)
  <2> QED BY <2>5, <2>6, Zenon
<1> QED BY <1>10, <1>11, Zenon

\* What io_uring_enter takes and posts has its type.
LEMMA Issues ==
    ASSUME Facts, IInv, NEW b \in Refused(sq), NEW H, H = kernel \cup Issued(sq)
    PROVE  b \in Seq(Cqe) /\ \A op \in H : Op(op)
<1>1. TypeOK
  BY DEF IInv
<1>2. CASE Conns = {}
  <2>1. sq = <<>>
    BY <1>1, <1>2 DEF TypeOK, Sqe
  <2> QED BY <1>1, <2>1, RefusedIs DEF Issued, TypeOK
<1>3. CASE Conns # {}
  <2>1. PICK c \in Conns : TRUE
    BY <1>3
  <2>2. OneSend(c)
    BY DEF IInv
  <2> QED BY <1>1, <2>2, Enters, Zenon
<1> QED BY <1>2, <1>3

\* The arithmetic of moving x + h = s + k between the queues.
LEMMA Balance ==
    \A s, q, e, k, x, h \in Nat : x + h = s + k => s + q + e + k = 0 + (q + x) + e + h
  OBVIOUS

\* A connection whose queued sends the kernel takes, while the CQ grows by its
\* failures, keeps the invariant: Enter, and Close of another connection.
LEMMA EntersConn ==
    ASSUME Facts, IInv, NEW b \in Refused(sq), NEW H, H = kernel \cup Issued(sq), NEW c \in Conns,
           NEW w \in Seq(Cqe), Good(w, c) = {}, Cardinality(Mine(w, c)) = Cardinality(Mine(b, c)),
           Ops(kernel, c)' = Ops(H, c), cq' = cq \o w, sq' = <<>>,
           conn'[c] = conn[c], UNCHANGED <<ss, events, want, got>>
    PROVE  (OneSend(c) /\ Owed(c) /\ Waiting(c) /\ Account(c))'
<1>1. TypeOK /\ cq \in Seq(Cqe)
  BY ZenonT(60) DEF IInv, TypeOK
<1>4. b \in Seq(Cqe)
  BY Issues
<1>0. OneSend(c) /\ Owed(c) /\ Waiting(c) /\ Account(c)
  BY DEF IInv
<1>5. Taken(b, H, c)
  BY <1>1, <1>0, Enters, Zenon
<1>2. Good(cq, c)' = Good(cq, c) /\ \A i \in Good(cq, c) : cq'[i] = cq[i]
  <2>1. Good(cq \o w, c) = Good(cq, c) /\ \A i \in Good(cq, c) : (cq \o w)[i] = cq[i]
    BY <1>1, GoodConcat, ZenonT(60)
  <2> QED BY <2>1, Zenon
<1>3. /\ Mine(sq, c)' = {} /\ Mine(events, c)' = Mine(events, c)
      /\ Good(events, c)' = Good(events, c)
  BY DEF Mine
<1>6. Cardinality(Mine(cq, c)') = Cardinality(Mine(cq, c)) + Cardinality(Mine(b, c))
  BY <1>1, MineConcat
<1>7. OneSend(c)'
  BY <1>0, <1>5, <1>2, <1>3, Zenon DEF OneSend, Single, Taken
<1>8. Owed(c)'
  <2>1. /\ Cardinality(Mine(sq, c)) \in Nat /\ Cardinality(Mine(cq, c)) \in Nat
        /\ Cardinality(Mine(events, c)) \in Nat /\ Cardinality(Ops(kernel, c)) \in Nat
    BY <1>1, <1>0, Finite, ZenonT(60)
  <2>2. Cardinality(Mine(b, c)) \in Nat
    BY <1>4, MineIs
  <2>3. Cardinality(Ops(H, c)) \in Nat
    BY <1>5, SingleSize DEF Taken
  <2>4. Cardinality(Mine(sq, c)') = 0
    BY <1>3, EmptySize, ZenonT(60)
  <2>5. /\ Cardinality(Ops(kernel, c)') = Cardinality(Ops(H, c)) /\ conn'[c].owed = conn[c].owed
        /\ Cardinality(Mine(events, c)') = Cardinality(Mine(events, c))
    BY <1>3, ZenonT(60)
  <2>6. Cardinality(Mine(b, c)) + Cardinality(Ops(H, c))
          = Cardinality(Mine(sq, c)) + Cardinality(Ops(kernel, c))
    BY <1>5, ZenonT(60) DEF Taken
  <2>7. conn[c].owed = Cardinality(Mine(sq, c)) + Cardinality(Mine(cq, c))
                         + Cardinality(Mine(events, c)) + Cardinality(Ops(kernel, c))
    BY <1>0, ZenonT(60) DEF Owed
  <2>8. conn'[c].owed = Cardinality(Mine(sq, c)') + Cardinality(Mine(cq, c)')
                          + Cardinality(Mine(events, c)') + Cardinality(Ops(kernel, c)')
    <3>1. PICK s \in Nat, q \in Nat, e \in Nat, k \in Nat, x \in Nat, h \in Nat :
            /\ s = Cardinality(Mine(sq, c)) /\ q = Cardinality(Mine(cq, c))
            /\ e = Cardinality(Mine(events, c))
            /\ k = Cardinality(Ops(kernel, c))
            /\ x = Cardinality(Mine(b, c)) /\ h = Cardinality(Ops(H, c))
      BY <2>1, <2>2, <2>3, ZenonT(60)
    <3>2. x + h = s + k
      BY <2>6, <3>1
    <3>3. s + q + e + k = 0 + (q + x) + e + h
      BY <3>2, Balance
    <3> QED BY <1>6, <2>4, <2>5, <2>7, <3>1, <3>3, ZenonT(60)
  <2> QED BY <2>8 DEF Owed
<1>9. Waiting(c)'
  BY <1>0 DEF Waiting
<1>10. Account(c)'
  <2> SUFFICES ASSUME conn[c].open
               PROVE  /\ \A op \in Ops(H, c) : Rest(ss[c], c, op.len)
                      /\ \A i \in Good(cq, c) : /\ cq[i].res <= ss[c].remaining
                                                /\ got[c] = ss[c].offset + cq[i].res
                                                /\ ss[c].offset + ss[c].remaining = want[c]
                      /\ \A i \in Good(events, c) : events[i].res = want[c] /\ got[c] = want[c]
    BY <1>2, <1>3, ZenonT(60) DEF Account, Rest
  <2>1. \A op \in Ops(H, c) : Rest(ss[c], c, op.len)
    <3>1. \A op \in Ops(H, c) :
            op \in Ops(kernel, c) \/ \E i \in Mine(sq, c) : op.len = sq[i].len
      BY <1>5, Zenon DEF Taken
    <3>2. /\ \A i \in Mine(sq, c) : Rest(ss[c], c, sq[i].len)
          /\ \A op \in Ops(kernel, c) : Rest(ss[c], c, op.len)
      BY <1>0, ZenonT(60) DEF Account
    <3> QED BY <3>1, <3>2, Zenon
  <2> QED BY <1>0, <2>1, Zenon DEF Account
<1> QED BY <1>7, <1>8, <1>9, <1>10

\* Entering the kernel keeps the invariant.
LEMMA EnterOK == ASSUME Facts, IInv, Enter PROVE IInv'
<1>1. TypeOK /\ cq \in Seq(Cqe)
  BY DEF IInv, TypeOK
<1>2. PICK b \in Refused(sq) : cq' = cq \o b
  BY Zenon DEF Enter
<1>3. PICK H : H = kernel \cup Issued(sq)
  BY Zenon
<1>4. kernel' = H /\ sq' = <<>> /\ UNCHANGED <<conn, ss, owner, events, want, got>>
  BY <1>3 DEF Enter
<1>5. /\ b \in Seq(Cqe) /\ \A op \in H : Op(op)
  BY <1>3, Issues
<1>6. TypeOK'
  BY <1>1, <1>2, <1>4, <1>5 DEF TypeOK
<1>7. ASSUME NEW c \in Conns PROVE (OneSend(c) /\ Owed(c) /\ Waiting(c) /\ Account(c))'
  <2>1. OneSend(c)
    BY DEF IInv
  <2>2. Taken(b, H, c)
    BY <1>1, <1>3, <2>1, Enters, Zenon
  <2>3. Ops(kernel, c)' = Ops(H, c) /\ conn'[c] = conn[c]
    BY <1>4
  <2> QED BY <1>2, <1>3, <1>4, <1>5, <2>2, <2>3, EntersConn, Zenon DEF Taken
<1> QED BY <1>6, <1>7 DEF IInv

\* The kernel's write of some or all of a send keeps the invariant.
LEMMA KernelWritesOK ==
    ASSUME Facts, IInv, NEW op \in kernel, NEW n \in 1..MaxLen, KernelWrites(op, n)
    PROVE  IInv'
<1> DEFINE e == [c |-> op.c, type |-> op.type, res |-> n]
<1>1. TypeOK /\ cq \in Seq(Cqe) /\ Op(op) /\ n \in Int /\ n > 0 /\ n <= op.len
  BY SendAssumption DEF IInv, TypeOK, KernelWrites, Op
<1>2. PICK c \in Conns : c = op.c
  BY <1>1 DEF Op
<1>3. e \in Cqe /\ e.c = c /\ e.res = n
  BY <1>1, <1>2 DEF Op, Cqe
<1>4. /\ kernel' = kernel \ {op} /\ cq' = Append(cq, e)
      /\ got' = [got EXCEPT ![c] = IF conn[c].open THEN got[c] + n ELSE got[c]]
      /\ UNCHANGED <<conn, ss, owner, sq, events, want>>
  BY <1>2 DEF KernelWrites
<1> HIDE DEF e
<1>5. /\ got' \in [Conns -> Int] /\ \A d \in Conns \ {c} : got'[d] = got[d]
      /\ got'[c] = IF conn[c].open THEN got[c] + n ELSE got[c]
  BY <1>1, <1>4 DEF TypeOK
<1>6. TypeOK'
  <2>1. cq' \in Seq(Cqe)
    BY <1>1, <1>3, <1>4
  <2> QED BY <1>1, <1>4, <1>5, <2>1 DEF TypeOK
<1>7. ASSUME NEW d \in Conns, d # c PROVE (OneSend(d) /\ Owed(d) /\ Waiting(d) /\ Account(d))'
  <2>1. /\ e.c # d => Mine(Append(cq, e), d) = Mine(cq, d)
        /\ \A i \in Mine(cq, d) : Append(cq, e)[i] = cq[i]
    <3>1. e.c # d => Mine(Append(cq, e), d) = Mine(cq, d)
      BY <1>1, <1>3, MineAppend
    <3>2. \A i \in Mine(cq, d) : Append(cq, e)[i] = cq[i]
      BY <1>1, <1>3 DEF Mine
    <3> QED BY <3>1, <3>2, Zenon
  <2>2. Mine(cq, d)' = Mine(cq, d) /\ \A i \in Mine(cq, d) : cq'[i] = cq[i]
    BY <1>3, <1>4, <1>7, <2>1, Zenon
  <2>3. Ops(kernel, d)' = Ops(kernel, d)
    BY <1>2, <1>4, <1>7 DEF Ops
  <2>4. got'[d] = got[d]
    BY <1>5, <1>7
  <2> QED BY <1>4, <2>2, <2>3, <2>4, Untouched, Zenon
<1>8. (OneSend(c) /\ Owed(c) /\ Waiting(c) /\ Account(c))'
  <2>0. OneSend(c) /\ Owed(c) /\ Waiting(c) /\ Account(c)
    BY DEF IInv
  <2>1. Ops(kernel, c) = {op} /\ Ops(kernel, c)' = {}
    BY <1>2, <1>4, <2>0, ZenonT(60) DEF Ops, OneSend, Single
  <2>2. Mine(sq, c) = {} /\ Good(cq, c) = {}
    BY <2>0, <2>1 DEF OneSend
  <2>3. /\ e.c = c => Mine(Append(cq, e), c) = Mine(cq, c) \cup {Len(cq) + 1}
        /\ \A i \in Mine(cq, c) : Append(cq, e)[i] = cq[i]
        /\ Append(cq, e)[Len(cq) + 1] = e
        /\ Cardinality(Mine(Append(cq, e), c)) = Cardinality(Mine(cq, c)) + IF e.c = c THEN 1 ELSE 0
    <3>1. /\ e.c = c => Mine(Append(cq, e), c) = Mine(cq, c) \cup {Len(cq) + 1}
          /\ Append(cq, e)[Len(cq) + 1] = e
          /\ Cardinality(Mine(Append(cq, e), c)) = Cardinality(Mine(cq, c)) + IF e.c = c THEN 1 ELSE 0
      <4>1. e.c = c => Mine(Append(cq, e), c) = Mine(cq, c) \cup {Len(cq) + 1}
        BY <1>1, <1>3, MineLonger
      <4>2. Cardinality(Mine(Append(cq, e), c)) = Cardinality(Mine(cq, c)) + IF e.c = c THEN 1 ELSE 0
        BY <1>1, <1>3, MineAppend
      <4>3. Append(cq, e)[Len(cq) + 1] = e
        BY <1>1, <1>3
      <4> QED BY <4>1, <4>2, <4>3, Zenon
    <3>2. \A i \in Mine(cq, c) : Append(cq, e)[i] = cq[i]
      BY <1>1, <1>3 DEF Mine
    <3> QED BY <3>1, <3>2, Zenon
  <2>4. Good(cq, c)' = {Len(cq) + 1} /\ cq'[Len(cq) + 1] = e
    <3>1. /\ Mine(cq, c)' = Mine(cq, c) \cup {Len(cq) + 1} /\ cq'[Len(cq) + 1] = e
          /\ \A i \in Mine(cq, c) : cq'[i] = cq[i]
      BY <1>3, <1>4, <2>3, Zenon
    <3>2. /\ Good(cq, c)' = { i \in Mine(cq, c)' : cq'[i].res > 0 }
          /\ Good(cq, c) = { i \in Mine(cq, c) : cq[i].res > 0 }
      BY DEF Good, Mine
    <3> QED BY <1>1, <1>3, <2>2, <3>1, <3>2
  <2>5. OneSend(c)'
    BY <1>4, <2>1, <2>2, <2>4, ZenonT(60) DEF OneSend, Single
  <2>6. Owed(c)'
    <3>1. /\ Cardinality(Mine(sq, c)) \in Nat /\ Cardinality(Mine(cq, c)) \in Nat
          /\ Cardinality(Mine(events, c)) \in Nat
      BY <1>1, <2>0, Finite
    <3>2. Cardinality(Ops(kernel, c)) = 1 /\ Cardinality(Ops(kernel, c)') = 0
      BY <2>1, EmptySize, OneElement, Zenon
    <3>3. Cardinality(Mine(cq, c)') = Cardinality(Mine(cq, c)) + 1
      BY <1>3, <1>4, <2>3
    <3>4. Mine(sq, c)' = Mine(sq, c) /\ Mine(events, c)' = Mine(events, c) /\ conn' = conn
      BY <1>4
    <3> QED BY <2>0, <3>1, <3>2, <3>3, <3>4 DEF Owed
  <2>7. Waiting(c)'
    BY <1>4, <2>0 DEF Waiting
  <2>8. Account(c)'
    <3>1. CASE ~conn[c].open
      BY <1>4, <3>1, ZenonT(60) DEF Account
    <3>2. CASE conn[c].open
      <4>1. Rest(ss[c], c, op.len)
        BY <2>0, <2>1, <3>2, ZenonT(60) DEF Account
      <4>2. Mine(events, c) = {}
        <5>1. /\ Cardinality(Mine(sq, c)) \in Nat /\ Cardinality(Mine(cq, c)) \in Nat
              /\ Cardinality(Mine(events, c)) \in Nat /\ IsFiniteSet(Mine(events, c))
          BY <1>1, <2>0, Finite
        <5>2. Cardinality(Ops(kernel, c)) = 1
          BY <2>1, OneElement
        <5>3. Cardinality(Mine(events, c)) = 0
          BY <2>0, <3>2, <5>1, <5>2 DEF Owed, Waiting
        <5> QED BY <5>1, <5>3, EmptySize
      <4>3. Mine(sq, c)' = {} /\ Good(events, c)' = {}
        BY <1>4, <2>2, <4>2 DEF Good, Mine
      <4>4. cq'[Len(cq) + 1].res <= ss[c].remaining /\ got'[c] = ss[c].offset + cq'[Len(cq) + 1].res
            /\ ss[c].offset + ss[c].remaining = want[c]
        BY <1>1, <1>3, <1>5, <2>4, <3>2, <4>1 DEF Rest
      <4> QED BY <1>4, <2>1, <2>4, <4>3, <4>4, ZenonT(60) DEF Account
    <3> QED BY <3>1, <3>2
  <2> QED BY <2>5, <2>6, <2>7, <2>8
<1> QED BY <1>6, <1>7, <1>8 DEF IInv

=============================================================================
