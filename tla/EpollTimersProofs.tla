------------------------- MODULE EpollTimersProofs --------------------------
(***************************************************************************)
(* Proofs about the timers of the epoll loop: YieldHeap for every number   *)
(* of entries and every deadline, and EpollTimers for every number of      *)
(* connections, every size of the wheel and of the heap and every length   *)
(* of a stall.                                                             *)
(***************************************************************************)
EXTENDS EpollTimers, MCYieldHeap, NaturalsInduction, WellFoundedInduction, TLAPS

-----------------------------------------------------------------------------
(* Induction.                                                              *)

USE SMTT(20)

\* The order on the natural numbers, as a relation.
Less == { p \in Nat \X Nat : p[1] < p[2] }

\* A non-empty set of natural numbers has a least element.
LEMMA LeastNatural ==
    ASSUME NEW T, T \subseteq Nat, T # {}
    PROVE  \E x \in T : \A y \in T : x <= y
<1>1. IsWellFoundedOn(Less, Nat)
  BY NatLessThanWellFounded, Zenon DEF OpToRel, Less
<1>2. PICK x \in T : \A y \in T : ~ (<<y, x>> \in Less)
  BY <1>1, WFMin, Zenon
<1>3. \A y \in T : <<y, x>> \in Less <=> y < x
  BY DEF Less
<1>4. \A y \in T : ~ (y < x)
  BY <1>2, <1>3, Zenon
<1>5. \A y \in T : x \in Nat /\ y \in Nat
  OBVIOUS
<1>6. \A y \in T : x <= y
  BY <1>4, <1>5
<1> QED BY <1>6

\* Induction over the natural numbers, for a set.
LEMMA Induct ==
    ASSUME NEW T, 0 \in T, \A n \in Nat : n \in T => n + 1 \in T
    PROVE  \A n \in Nat : n \in T
<1> DEFINE R == Nat \ T
<1>1. CASE R = {}
  BY <1>1
<1>2. CASE R # {}
  <2>1. PICK x \in R : \A y \in R : x <= y
    BY <1>2, LeastNatural, Zenon
  <2>2. x \in Nat /\ x # 0 /\ x - 1 \in Nat /\ ~(x <= x - 1)
    BY <2>1
  <2>3. x - 1 \in T
    BY <2>1, <2>2
  <2>4. (x - 1) + 1 \in T /\ (x - 1) + 1 = x
    BY <2>2, <2>3
  <2> QED BY <2>1, <2>4
<1> QED BY <1>1, <1>2

-----------------------------------------------------------------------------
(* The loops of YieldHeap.                                                 *)

\* g has the first m turns of the loop F from s.
Turns(g, m, S, F, s) == g \in [0 .. m -> S] /\ g[0] = s /\ \A n \in 1 .. m : g[n] = F[g[n - 1]]
Follows(g, m, S, F, s) == g[0] = s /\ \A n \in 1 .. m : g[n - 1] \in S => g[n] = F[g[n - 1]]

\* The loop has m turns, and has ended after them in a state of S.
Ends(m, S, F, s) ==
    /\ \E g : Turns(g, m, S, F, s)
    /\ \A g : Follows(g, m, S, F, s) => g[m] \in S /\ F[g[m]] = g[m]

\* A loop that starts in s, stays in S and whose turns, F, decrease the measure M until
\* nothing changes has ended after M[s] turns.
LEMMA LoopEnds ==
    ASSUME NEW S, NEW F \in [S -> S], NEW M \in [S -> Nat], NEW s \in S, NEW N \in Nat, M[s] <= N,
           \A x \in S : F[x] = x \/ M[F[x]] < M[x]
    PROVE  Ends(N, S, F, s)
<1>1. ASSUME NEW g, Follows(g, N, S, F, s)
      PROVE  g[N] \in S /\ F[g[N]] = g[N]
  <2>0. g[0] = s /\ \A n \in 1 .. N : g[n - 1] \in S => g[n] = F[g[n - 1]]
    BY <1>1, Zenon DEF Follows
  <2> DEFINE T == { n \in Nat : n <= N => g[n] \in S /\ (F[g[n]] = g[n] \/ M[g[n]] <= N - n) }
  <2>1. 0 \in T
    BY <2>0
  <2>2. ASSUME NEW n \in Nat, n \in T PROVE n + 1 \in T
    <3> SUFFICES ASSUME n + 1 <= N
                 PROVE  g[n + 1] \in S /\ (F[g[n + 1]] = g[n + 1] \/ M[g[n + 1]] <= N - (n + 1))
      OBVIOUS
    <3>1. g[n] \in S /\ (F[g[n]] = g[n] \/ M[g[n]] <= N - n)
      BY <2>2
    <3>2. g[n + 1] = F[g[n]]
      <4>1. n + 1 \in 1 .. N /\ (n + 1) - 1 = n
        OBVIOUS
      <4> QED BY <2>0, <3>1, <4>1
    <3>3. PICK x \in S : x = g[n]
      BY <3>1
    <3>4. M[x] \in Nat /\ F[x] \in S /\ M[F[x]] \in Nat /\ (F[x] = x \/ M[F[x]] < M[x])
      OBVIOUS
    <3> QED BY <3>1, <3>2, <3>3, <3>4
  <2> HIDE DEF T
  <2>3. N \in T
    BY <2>1, <2>2, Induct
  <2>4. g[N] \in S /\ (F[g[N]] = g[N] \/ M[g[N]] <= 0)
    BY <2>3 DEF T
  <2>5. PICK x \in S : x = g[N]
    BY <2>4
  <2>6. M[x] \in Nat /\ M[F[x]] \in Nat
    OBVIOUS
  <2> QED BY <2>4, <2>5, <2>6
<1>2. \E g : Turns(g, N, S, F, s)
  <2> DEFINE T == { m \in Nat : \E g : Turns(g, m, S, F, s) }
  <2>1. 0 \in T
    <3> DEFINE g == [n \in 0 .. 0 |-> s]
    <3>1. Turns(g, 0, S, F, s)
      BY DEF Turns
    <3> QED BY <3>1
  <2>2. ASSUME NEW m \in Nat, m \in T PROVE m + 1 \in T
    <3>0. PICK g : Turns(g, m, S, F, s)
      BY <2>2
    <3>1. g \in [0 .. m -> S] /\ g[0] = s /\ \A n \in 1 .. m : g[n] = F[g[n - 1]]
      BY <3>0 DEF Turns
    <3> DEFINE f == [n \in 0 .. (m + 1) |-> IF n = m + 1 THEN F[g[m]] ELSE g[n]]
    <3>2. g[m] \in S /\ F[g[m]] \in S
      BY <3>1
    <3>3. f \in [0 .. (m + 1) -> S] /\ f[0] = s
      BY <3>1, <3>2
    <3>4. \A n \in 0 .. m : f[n] = g[n]
      OBVIOUS
    <3>5. f[m + 1] = F[g[m]]
      OBVIOUS
    <3> HIDE DEF f
    <3>6. ASSUME NEW n \in 1 .. (m + 1) PROVE f[n] = F[f[n - 1]]
      <4>1. CASE n = m + 1
        <5>1. n - 1 = m /\ m \in 0 .. m
          BY <4>1
        <5> QED BY <3>4, <3>5, <4>1, <5>1
      <4>2. CASE n # m + 1
        <5>1. n \in 1 .. m /\ n \in 0 .. m /\ n - 1 \in 0 .. m
          BY <4>2
        <5> QED BY <3>1, <3>4, <5>1
      <4> QED BY <4>1, <4>2
    <3>7. Turns(f, m + 1, S, F, s)
      BY <3>3, <3>6, Zenon DEF Turns
    <3> QED BY <3>7
  <2> HIDE DEF T
  <2>3. N \in T
    BY <2>1, <2>2, Induct
  <2> QED BY <2>3 DEF T
<1> QED BY <1>1, <1>2, Zenon DEF Ends

\* g is h with the entries at i and j exchanged.
Swapped(g, h, i, j) ==
    /\ Len(g) = Len(h)
    /\ \A k \in 1 .. Len(h) : g[k] = IF k = j THEN h[i] ELSE IF k = i THEN h[j] ELSE h[k]

LEMMA SwapIs ==
    ASSUME NEW X, NEW h \in Seq(X), NEW i \in 1 .. Len(h), NEW j \in 1 .. Len(h), NEW g, g = Swap(h, i, j)
    PROVE  g \in Seq(X) /\ Swapped(g, h, i, j)
<1>0. PICK n \in Nat : n = Len(h) /\ DOMAIN h = 1 .. n
  OBVIOUS
<1>1. g = [k \in 1 .. n |-> IF k = j THEN h[i] ELSE IF k = i THEN h[j] ELSE h[k]]
  BY <1>0, Zenon DEF Swap
<1>2. \A k \in 1 .. n : g[k] \in X
  BY <1>0, <1>1
<1>3. g \in Seq(X) /\ Len(g) = n
  BY <1>1, <1>2
<1> QED BY <1>0, <1>1, <1>3 DEF Swapped

LEMMA FrontIs ==
    ASSUME NEW X, NEW h \in Seq(X), h # <<>>, NEW g, g = Front(h)
    PROVE  /\ g \in Seq(X) /\ Len(g) = Len(h) - 1 /\ Len(g) \in Nat /\ Len(h) \in Nat
           /\ \A k \in 1 .. Len(g) : g[k] = h[k]
           /\ Last(h) = h[Len(h)] /\ Last(h) \in X
<1>1. PICK n \in Nat : Len(h) = n + 1
  <2>1. Len(h) \in Nat /\ Len(h) # 0
    OBVIOUS
  <2>2. Len(h) - 1 \in Nat /\ Len(h) = (Len(h) - 1) + 1
    BY <2>1
  <2> QED BY <2>2, Zenon
<1>2. Last(h) = h[Len(h)] /\ Last(h) \in X
  BY <1>1 DEF Last
<1>3. Len(h) - 1 = n
  BY <1>1
<1>4. g = SubSeq(h, 1, n)
  BY <1>3, Zenon DEF Front
<1>5. n <= Len(h)
  BY <1>1
<1>6. SubSeq(h, 1, n) \in Seq(X)
  BY <1>5
<1>7. Len(SubSeq(h, 1, n)) = n
  BY <1>5
<1>8. \A k \in 1 .. n : SubSeq(h, 1, n)[k] = h[k]
  BY <1>5
<1>9. g \in Seq(X) /\ Len(g) = n /\ \A k \in 1 .. n : g[k] = h[k]
  BY <1>4, <1>6, <1>7, <1>8, Zenon
<1>10. Len(h) \in Nat
  OBVIOUS
<1> QED BY <1>2, <1>3, <1>9, <1>10, Zenon

\* The same entries, perhaps in another order.
Distinct(h) == \A i, j \in 1 .. Len(h) : h[i] = h[j] => i = j
Same(g, h) ==
    /\ Len(g) = Len(h) /\ (Distinct(h) => Distinct(g))
    /\ \A i \in 1 .. Len(g) : \E j \in 1 .. Len(h) : g[i] = h[j]
    /\ \A j \in 1 .. Len(h) : \E i \in 1 .. Len(g) : g[i] = h[j]

LEMMA SameRefl == \A h : Same(h, h)
  BY Zenon DEF Same

LEMMA SameTrans ==
    ASSUME NEW f, NEW g, NEW h, Same(f, g), Same(g, h)
    PROVE  Same(f, h)
<1>1. ASSUME NEW i \in 1 .. Len(f) PROVE \E j \in 1 .. Len(h) : f[i] = h[j]
  <2>1. PICK k \in 1 .. Len(g) : f[i] = g[k]
    BY Zenon DEF Same
  <2>2. PICK j \in 1 .. Len(h) : g[k] = h[j]
    BY Zenon DEF Same
  <2> QED BY <2>1, <2>2
<1>2. ASSUME NEW j \in 1 .. Len(h) PROVE \E i \in 1 .. Len(f) : f[i] = h[j]
  <2>1. PICK k \in 1 .. Len(g) : g[k] = h[j]
    BY Zenon DEF Same
  <2>2. PICK i \in 1 .. Len(f) : f[i] = g[k]
    BY Zenon DEF Same
  <2> QED BY <2>1, <2>2
<1> QED BY <1>1, <1>2, Zenon DEF Same

LEMMA SwapSame ==
    ASSUME NEW X, NEW h \in Seq(X), NEW i \in 1 .. Len(h), NEW j \in 1 .. Len(h), NEW g, g = Swap(h, i, j)
    PROVE  Same(g, h)
<1> DEFINE pi(k) == IF k = j THEN i ELSE IF k = i THEN j ELSE k
<1>0. Swapped(g, h, i, j)
  BY SwapIs, Zenon
<1>1. Len(g) = Len(h) /\ \A k \in 1 .. Len(h) : g[k] = IF k = j THEN h[i] ELSE IF k = i THEN h[j] ELSE h[k]
  BY <1>0 DEF Swapped
<1>2. \A k \in 1 .. Len(h) : pi(k) \in 1 .. Len(h) /\ g[k] = h[pi(k)] /\ pi(pi(k)) = k
  BY <1>1
<1> HIDE DEF pi
<1>3. \A k \in 1 .. Len(h) : g[pi(k)] = h[k]
  BY <1>2
<1>4. Distinct(h) => Distinct(g)
  <2> SUFFICES ASSUME Distinct(h), NEW k \in 1 .. Len(h), NEW l \in 1 .. Len(h), g[k] = g[l] PROVE k = l
    BY <1>1, Zenon DEF Distinct
  <2>1. pi(k) = pi(l)
    BY <1>2 DEF Distinct
  <2> QED BY <1>2, <2>1, Zenon
<1> QED BY <1>1, <1>2, <1>3, <1>4, Zenon DEF Same

\* Every entry but perhaps the one at i is due no earlier than its parent, and the
\* children of i no earlier than the parent of i.
UpOrder(h, i) ==
    /\ \A k \in 2 .. Len(h) : k # i => h[k \div 2].deadline <= h[k].deadline
    /\ \A k \in 2 .. Len(h) : k \div 2 = i /\ i > 1 => h[i \div 2].deadline <= h[k].deadline

\* The same with the children of i in place of i.
DownOrder(h, i) ==
    /\ \A k \in 2 .. Len(h) : k \div 2 # i => h[k \div 2].deadline <= h[k].deadline
    /\ \A k \in 2 .. Len(h) : k \div 2 = i /\ i > 1 => h[i \div 2].deadline <= h[k].deadline

Ordered(h) == \A k \in 2 .. Len(h) : h[k \div 2].deadline <= h[k].deadline

LEMMA Parent ==
    \A k \in Nat : k >= 2 =>
        /\ k \div 2 \in Nat /\ k \div 2 >= 1 /\ k \div 2 < k
        /\ k = 2 * (k \div 2) \/ k = 2 * (k \div 2) + 1
  OBVIOUS

Timed(X) == \A x \in X : x.deadline \in Int

\* A turn of sift_up keeps the order up to the entry that moves.
LEMMA UpStep ==
    ASSUME NEW X, Timed(X), NEW h \in Seq(X), NEW i \in 1 .. Len(h), UpOrder(h, i),
           i > 1, h[i].deadline < h[i \div 2].deadline, NEW g, g = Swap(h, i, i \div 2)
    PROVE  UpOrder(g, i \div 2)
<1>1. PICK p \in Nat : p = i \div 2 /\ p >= 1 /\ p < i /\ p \in 1 .. Len(h)
  BY Parent
<1>0. Swapped(g, h, i, p)
  BY <1>1, SwapIs, Zenon
<1>2. Len(g) = Len(h) /\ \A k \in 1 .. Len(h) : g[k] = IF k = p THEN h[i] ELSE IF k = i THEN h[p] ELSE h[k]
  BY <1>0 DEF Swapped
<1>3. \A k \in 1 .. Len(h) : h[k].deadline \in Int
  BY DEF Timed
<1> DEFINE d(k) == h[k].deadline
           e(k) == g[k].deadline
<1>4. \A k \in 1 .. Len(h) : d(k) \in Int /\ e(k) = IF k = p THEN d(i) ELSE IF k = i THEN d(p) ELSE d(k)
  BY <1>2, <1>3
<1>5. \A k \in 2 .. Len(h) : /\ k # i => d(k \div 2) <= d(k)
                             /\ k \div 2 = i => d(p) <= d(k)
  BY <1>1 DEF UpOrder
<1>6. d(i) < d(p)
  BY <1>1
<1> HIDE DEF d, e
<1>7. ASSUME NEW k \in 2 .. Len(h), k # p PROVE e(k \div 2) <= e(k)
  <2>1. PICK q \in Nat : q = k \div 2 /\ q >= 1 /\ q < k /\ q \in 1 .. Len(h) /\ k \in 1 .. Len(h)
    BY Parent
  <2> QED BY <1>1, <1>4, <1>5, <1>6, <1>7, <2>1
<1>8. ASSUME NEW k \in 2 .. Len(h), k \div 2 = p, p > 1 PROVE e(p \div 2) <= e(k)
  <2>1. PICK q \in Nat : q = p \div 2 /\ q >= 1 /\ q < p /\ q \in 1 .. Len(h) /\ k \in 1 .. Len(h) /\ p \in 2 .. Len(h)
    BY <1>1, <1>8, Parent
  <2>2. d(q) <= d(p) /\ e(q) = d(q)
    BY <1>1, <1>4, <1>5, <2>1
  <2>3. k # i => d(p) <= d(k)
    BY <1>5, <1>8
  <2> QED BY <1>1, <1>4, <1>8, <2>1, <2>2, <2>3
<1>9. UpOrder(g, p)
  BY <1>2, <1>7, <1>8, Zenon DEF UpOrder, e
<1> QED BY <1>1, <1>9, Zenon

\* The loop of sift_up ends in a state of a set that its turns do not leave.
LEMMA UpEnds ==
    ASSUME NEW h, NEW i, Len(h) \in Nat, NEW S, NEW M \in [S -> Nat], <<h, i>> \in S, M[<<h, i>>] <= Len(h),
           \A s \in S : UpTurn(s) \in S /\ (UpTurn(s) = s \/ M[UpTurn(s)] < M[s])
    PROVE  \E s \in S : UpTurn(s) = s /\ SiftUp(h, i) = s[1]
<1> DEFINE F == [s \in S |-> UpTurn(s)]
           N == Len(h)
           Unfolds(g) == g = [n \in 0 .. N |-> IF n = 0 THEN <<h, i>> ELSE UpTurn(g[n - 1])]
           t == CHOOSE g : Unfolds(g)
<1>1. F \in [S -> S] /\ N \in Nat /\ \A s \in S : F[s] = s \/ M[F[s]] < M[s]
  BY Zenon
<1>2. Ends(N, S, F, <<h, i>>)
  <2> HIDE DEF F
  <2> QED BY <1>1, LoopEnds, Zenon
<1>3. PICK g : Turns(g, N, S, F, <<h, i>>)
  <2> HIDE DEF F, N
  <2> QED BY <1>2, Zenon DEF Ends
<1>4. Unfolds(g)
  <2>1. g \in [0 .. N -> S] /\ g[0] = <<h, i>> /\ \A n \in 1 .. N : g[n] = F[g[n - 1]]
    BY <1>3, Zenon DEF Turns
  <2>2. ASSUME NEW n \in 0 .. N, n # 0 PROVE n \in 1 .. N /\ n - 1 \in 0 .. N
    BY <1>1, <2>2
  <2> HIDE DEF N
  <2>3. \A n \in 0 .. N : g[n] \in S
    BY <2>1
  <2>4. ASSUME NEW n \in 0 .. N, n # 0 PROVE g[n] = UpTurn(g[n - 1])
    BY <2>1, <2>2, <2>3, <2>4, Zenon
  <2>5. \A n \in 0 .. N : g[n] = IF n = 0 THEN <<h, i>> ELSE UpTurn(g[n - 1])
    BY <2>1, <2>4, Zenon
  <2>6. g = [n \in 0 .. N |-> g[n]]
    <3> HIDE DEF F
    <3> QED BY <2>1
  <2> QED BY <2>5, <2>6, Zenon
<1>5. Unfolds(t)
  <2> HIDE DEF Unfolds
  <2> QED BY <1>4, Zenon
<1>6. t[0] = <<h, i>> /\ \A n \in 1 .. N : t[n] = UpTurn(t[n - 1])
  <2> HIDE DEF t, F
  <2>1. \A n \in 0 .. N : t[n] = IF n = 0 THEN <<h, i>> ELSE UpTurn(t[n - 1])
    BY <1>5, Zenon
  <2>2. 0 \in 0 .. N /\ \A n \in 1 .. N : n \in 0 .. N /\ n # 0
    BY <1>1
  <2> HIDE DEF N
  <2> QED BY <2>1, <2>2, Zenon
<1>7. Follows(t, N, S, F, <<h, i>>)
  <2> HIDE DEF t, N
  <2> QED BY <1>6, Zenon DEF Follows
<1>8. t[N] \in S /\ F[t[N]] = t[N]
  <2> HIDE DEF t, F, N
  <2> QED BY <1>2, <1>7, Zenon DEF Ends
<1>9. t[N] \in S /\ UpTurn(t[N]) = t[N]
  <2> HIDE DEF t, N
  <2> QED BY <1>8, Zenon
<1>10. SiftUp(h, i) = t[N][1]
  BY Zenon DEF SiftUp
<1> HIDE DEF t
<1> QED BY <1>9, <1>10, Zenon

\* The same for sift_down.
LEMMA DownEnds ==
    ASSUME NEW h, NEW i, Len(h) \in Nat, NEW S, NEW M \in [S -> Nat], <<h, i>> \in S, M[<<h, i>>] <= Len(h),
           \A s \in S : DownTurn(s) \in S /\ (DownTurn(s) = s \/ M[DownTurn(s)] < M[s])
    PROVE  \E s \in S : DownTurn(s) = s /\ SiftDown(h, i) = s[1]
<1> DEFINE F == [s \in S |-> DownTurn(s)]
           N == Len(h)
           Unfolds(g) == g = [n \in 0 .. N |-> IF n = 0 THEN <<h, i>> ELSE DownTurn(g[n - 1])]
           t == CHOOSE g : Unfolds(g)
<1>1. F \in [S -> S] /\ N \in Nat /\ \A s \in S : F[s] = s \/ M[F[s]] < M[s]
  BY Zenon
<1>2. Ends(N, S, F, <<h, i>>)
  <2> HIDE DEF F
  <2> QED BY <1>1, LoopEnds, Zenon
<1>3. PICK g : Turns(g, N, S, F, <<h, i>>)
  <2> HIDE DEF F, N
  <2> QED BY <1>2, Zenon DEF Ends
<1>4. Unfolds(g)
  <2>1. g \in [0 .. N -> S] /\ g[0] = <<h, i>> /\ \A n \in 1 .. N : g[n] = F[g[n - 1]]
    BY <1>3, Zenon DEF Turns
  <2>2. ASSUME NEW n \in 0 .. N, n # 0 PROVE n \in 1 .. N /\ n - 1 \in 0 .. N
    BY <1>1, <2>2
  <2> HIDE DEF N
  <2>3. \A n \in 0 .. N : g[n] \in S
    BY <2>1
  <2>4. ASSUME NEW n \in 0 .. N, n # 0 PROVE g[n] = DownTurn(g[n - 1])
    BY <2>1, <2>2, <2>3, <2>4, Zenon
  <2>5. \A n \in 0 .. N : g[n] = IF n = 0 THEN <<h, i>> ELSE DownTurn(g[n - 1])
    BY <2>1, <2>4, Zenon
  <2>6. g = [n \in 0 .. N |-> g[n]]
    <3> HIDE DEF F
    <3> QED BY <2>1
  <2> QED BY <2>5, <2>6, Zenon
<1>5. Unfolds(t)
  <2> HIDE DEF Unfolds
  <2> QED BY <1>4, Zenon
<1>6. t[0] = <<h, i>> /\ \A n \in 1 .. N : t[n] = DownTurn(t[n - 1])
  <2> HIDE DEF t, F
  <2>1. \A n \in 0 .. N : t[n] = IF n = 0 THEN <<h, i>> ELSE DownTurn(t[n - 1])
    BY <1>5, Zenon
  <2>2. 0 \in 0 .. N /\ \A n \in 1 .. N : n \in 0 .. N /\ n # 0
    BY <1>1
  <2> HIDE DEF N
  <2> QED BY <2>1, <2>2, Zenon
<1>7. Follows(t, N, S, F, <<h, i>>)
  <2> HIDE DEF t, N
  <2> QED BY <1>6, Zenon DEF Follows
<1>8. t[N] \in S /\ F[t[N]] = t[N]
  <2> HIDE DEF t, F, N
  <2> QED BY <1>2, <1>7, Zenon DEF Ends
<1>9. t[N] \in S /\ DownTurn(t[N]) = t[N]
  <2> HIDE DEF t, N
  <2> QED BY <1>8, Zenon
<1>10. SiftDown(h, i) = t[N][1]
  BY Zenon DEF SiftDown
<1> HIDE DEF t
<1> QED BY <1>9, <1>10, Zenon

\* The same for remove_by_conn.
LEMMA ScanEnds ==
    ASSUME NEW h, NEW c, Len(h) \in Nat, NEW S, NEW M \in [S -> Nat], <<h, 1>> \in S, M[<<h, 1>>] <= Len(h),
           \A s \in S : ScanTurn(s, c) \in S /\ (ScanTurn(s, c) = s \/ M[ScanTurn(s, c)] < M[s])
    PROVE  \E s \in S : ScanTurn(s, c) = s /\ RemoveByConn(h, c) = s[1]
<1> DEFINE F == [s \in S |-> ScanTurn(s, c)]
           N == Len(h)
           Unfolds(g) == g = [n \in 0 .. N |-> IF n = 0 THEN <<h, 1>> ELSE ScanTurn(g[n - 1], c)]
           t == CHOOSE g : Unfolds(g)
<1>1. F \in [S -> S] /\ N \in Nat /\ \A s \in S : F[s] = s \/ M[F[s]] < M[s]
  BY Zenon
<1>2. Ends(N, S, F, <<h, 1>>)
  <2> HIDE DEF F
  <2> QED BY <1>1, LoopEnds, Zenon
<1>3. PICK g : Turns(g, N, S, F, <<h, 1>>)
  <2> HIDE DEF F, N
  <2> QED BY <1>2, Zenon DEF Ends
<1>4. Unfolds(g)
  <2>1. g \in [0 .. N -> S] /\ g[0] = <<h, 1>> /\ \A n \in 1 .. N : g[n] = F[g[n - 1]]
    BY <1>3, Zenon DEF Turns
  <2>2. ASSUME NEW n \in 0 .. N, n # 0 PROVE n \in 1 .. N /\ n - 1 \in 0 .. N
    BY <1>1, <2>2
  <2> HIDE DEF N
  <2>3. \A n \in 0 .. N : g[n] \in S
    BY <2>1
  <2>4. ASSUME NEW n \in 0 .. N, n # 0 PROVE g[n] = ScanTurn(g[n - 1], c)
    BY <2>1, <2>2, <2>3, <2>4, Zenon
  <2>5. \A n \in 0 .. N : g[n] = IF n = 0 THEN <<h, 1>> ELSE ScanTurn(g[n - 1], c)
    BY <2>1, <2>4, Zenon
  <2>6. g = [n \in 0 .. N |-> g[n]]
    <3> HIDE DEF F
    <3> QED BY <2>1
  <2> QED BY <2>5, <2>6, Zenon
<1>5. Unfolds(t)
  <2> HIDE DEF Unfolds
  <2> QED BY <1>4, Zenon
<1>6. t[0] = <<h, 1>> /\ \A n \in 1 .. N : t[n] = ScanTurn(t[n - 1], c)
  <2> HIDE DEF t, F
  <2>1. \A n \in 0 .. N : t[n] = IF n = 0 THEN <<h, 1>> ELSE ScanTurn(t[n - 1], c)
    BY <1>5, Zenon
  <2>2. 0 \in 0 .. N /\ \A n \in 1 .. N : n \in 0 .. N /\ n # 0
    BY <1>1
  <2> HIDE DEF N
  <2> QED BY <2>1, <2>2, Zenon
<1>7. Follows(t, N, S, F, <<h, 1>>)
  <2> HIDE DEF t, N
  <2> QED BY <1>6, Zenon DEF Follows
<1>8. t[N] \in S /\ F[t[N]] = t[N]
  <2> HIDE DEF t, F, N
  <2> QED BY <1>2, <1>7, Zenon DEF Ends
<1>9. t[N] \in S /\ ScanTurn(t[N], c) = t[N]
  <2> HIDE DEF t, N
  <2> QED BY <1>8, Zenon
<1>10. RemoveByConn(h, c) = t[N][1]
  BY Zenon DEF RemoveByConn
<1> HIDE DEF t
<1> QED BY <1>9, <1>10, Zenon

\* sift_up from i makes a heap of the same entries.
LEMMA SiftUpOK ==
    ASSUME NEW X, Timed(X), NEW h \in Seq(X), NEW i \in 1 .. Len(h), UpOrder(h, i), NEW r, r = SiftUp(h, i)
    PROVE  r \in Seq(X) /\ Same(r, h) /\ Ordered(r)
<1> DEFINE S == { s \in Seq(X) \X Nat : s[2] \in 1 .. Len(s[1]) /\ Same(s[1], h) /\ UpOrder(s[1], s[2]) }
           M == [s \in S |-> s[2]]
<1>1. ASSUME NEW s \in S PROVE UpTurn(s) \in S /\ (UpTurn(s) = s \/ UpTurn(s)[2] < s[2]) /\ s[2] \in Nat
  <2>1. PICK f \in Seq(X), k \in Nat : s = <<f, k>>
    OBVIOUS
  <2>2. k \in 1 .. Len(f) /\ Same(f, h) /\ UpOrder(f, k) /\ s[1] = f /\ s[2] = k
    BY <2>1
  <2>3. CASE ~(k > 1 /\ f[k].deadline < f[k \div 2].deadline)
    BY <2>2, <2>3, Zenon DEF UpTurn
  <2>4. CASE k > 1 /\ f[k].deadline < f[k \div 2].deadline
    <3> DEFINE q == Swap(f, k, k \div 2)
    <3>1. UpTurn(s) = <<q, k \div 2>>
      BY <2>2, <2>4, Zenon DEF UpTurn
    <3>2. k \div 2 \in 1 .. Len(f) /\ k \div 2 \in Nat /\ k \div 2 < k
      BY <2>2, <2>4, Parent
    <3>3. q \in Seq(X) /\ Swapped(q, f, k, k \div 2)
      BY <2>2, <3>2, SwapIs, Zenon
    <3>4. Same(q, f)
      BY <2>2, <3>2, SwapSame, Zenon
    <3>5. Same(q, h)
      BY <2>2, <3>4, SameTrans, Zenon
    <3>6. UpOrder(q, k \div 2)
      BY <2>2, <2>4, UpStep, Zenon
    <3>7. Len(q) = Len(f)
      BY <3>3, Zenon DEF Swapped
    <3> HIDE DEF q
    <3>8. <<q, k \div 2>> \in Seq(X) \X Nat /\ <<q, k \div 2>>[1] = q /\ <<q, k \div 2>>[2] = k \div 2
      BY <3>2, <3>3
    <3>9. <<q, k \div 2>> \in S
      BY <3>2, <3>5, <3>6, <3>7, <3>8, Zenon
    <3> QED BY <2>2, <3>1, <3>2, <3>8, <3>9
  <2> QED BY <2>3, <2>4
<1>2. Len(h) \in Nat /\ <<h, i>> \in S /\ <<h, i>>[2] <= Len(h)
  <2>1. <<h, i>> \in Seq(X) \X Nat /\ <<h, i>>[1] = h /\ <<h, i>>[2] = i /\ i <= Len(h) /\ Len(h) \in Nat
    OBVIOUS
  <2> QED BY <2>1, SameRefl, Zenon
<1>3. PICK s \in S : UpTurn(s) = s /\ r = s[1]
  <2>1. M \in [S -> Nat] /\ M[<<h, i>>] <= Len(h) /\ \A s \in S : UpTurn(s) = s \/ M[UpTurn(s)] < M[s]
    BY <1>1, <1>2, Zenon
  <2> HIDE DEF S, M
  <2> QED BY <1>1, <1>2, <2>1, UpEnds, Zenon
<1>4. PICK f, k : f = s[1] /\ k = s[2]
  BY Zenon
<1>5. f \in Seq(X) /\ k \in Nat /\ k \in 1 .. Len(f) /\ Same(f, h) /\ UpOrder(f, k)
  BY <1>3, <1>4
<1>6. k > 1 => f[k \div 2].deadline <= f[k].deadline
  <2> SUFFICES ASSUME k > 1, f[k].deadline < f[k \div 2].deadline PROVE FALSE
    <3>1. k > 1 => k \div 2 \in 1 .. Len(f)
      BY <1>5, Parent
    <3>2. k > 1 => f[k].deadline \in Int /\ f[k \div 2].deadline \in Int
      BY <1>5, <3>1 DEF Timed
    <3> QED BY <3>2
  <2>1. s = <<Swap(f, k, k \div 2), k \div 2>>
    BY <1>3, <1>4, Zenon DEF UpTurn
  <2>2. k = k \div 2
    BY <1>4, <2>1
  <2> QED BY <1>5, <2>2, Parent
<1>7. Ordered(f)
  <2> SUFFICES ASSUME NEW j \in 2 .. Len(f) PROVE f[j \div 2].deadline <= f[j].deadline
    BY Zenon DEF Ordered
  <2>1. CASE j = k
    BY <1>5, <1>6, <2>1
  <2>2. CASE j # k
    BY <1>5, <2>2, Zenon DEF UpOrder
  <2> QED BY <2>1, <2>2
<1> QED BY <1>3, <1>4, <1>5, <1>7, Zenon

\* m is i or a child of i that is due before it, and no child of i is due before m.
Least(h, i, m) ==
    /\ m # i => m \in 2 .. Len(h) /\ m \div 2 = i /\ m > i /\ h[m].deadline < h[i].deadline
    /\ \A k \in 2 .. Len(h) : k \div 2 = i => h[m].deadline <= h[k].deadline

LEMMA SmallestIs ==
    ASSUME NEW X, Timed(X), NEW h \in Seq(X), NEW i \in 1 .. Len(h)
    PROVE  Least(h, i, Smallest(h, i))
<1> DEFINE l == 2 * i
           r == 2 * i + 1
           a == IF l <= Len(h) /\ h[l].deadline < h[i].deadline THEN l ELSE i
           m == IF r <= Len(h) /\ h[r].deadline < h[a].deadline THEN r ELSE a
<1>1. Smallest(h, i) = m
  BY Zenon DEF Smallest
<1>2. Len(h) \in Nat /\ i \in Nat /\ i >= 1 /\ i <= Len(h)
  OBVIOUS
<1>3. \A k \in 1 .. Len(h) : h[k].deadline \in Int
  BY DEF Timed
<1>4. \A k \in 2 .. Len(h) : k \div 2 = i => k = l \/ k = r
  BY <1>2, Parent
<1>5. l \div 2 = i /\ r \div 2 = i /\ l \in Nat /\ r \in Nat /\ l > i /\ r > i
  BY <1>2
<1> HIDE DEF l, r
<1>6. /\ a # i => a = l /\ l \in 2 .. Len(h) /\ h[l].deadline < h[i].deadline
      /\ l \in 2 .. Len(h) => h[a].deadline <= h[l].deadline
      /\ h[a].deadline <= h[i].deadline /\ a \in 1 .. Len(h)
  BY <1>2, <1>3, <1>5
<1> HIDE DEF a
<1>7. /\ m # i => m \in {l, r} /\ m \in 2 .. Len(h) /\ h[m].deadline < h[i].deadline
      /\ l \in 2 .. Len(h) => h[m].deadline <= h[l].deadline
      /\ r \in 2 .. Len(h) => h[m].deadline <= h[r].deadline
  BY <1>2, <1>3, <1>5, <1>6
<1> HIDE DEF m
<1>8. Least(h, i, m)
  BY <1>2, <1>4, <1>5, <1>7 DEF Least
<1> QED BY <1>1, <1>8, Zenon

\* A turn of sift_down keeps the order down to the entry that moves.
LEMMA DownStep ==
    ASSUME NEW X, Timed(X), NEW h \in Seq(X), NEW i \in 1 .. Len(h), DownOrder(h, i),
           NEW m, Least(h, i, m), m # i, NEW g, g = Swap(h, i, m)
    PROVE  DownOrder(g, m)
<1>1. m \in 2 .. Len(h) /\ m \in 1 .. Len(h) /\ m \div 2 = i /\ m > i /\ i >= 1 /\ i \in Nat /\ m \in Nat
  BY DEF Least
<1>0. Swapped(g, h, i, m)
  BY <1>1, SwapIs, Zenon
<1>2. Len(g) = Len(h) /\ \A k \in 1 .. Len(h) : g[k] = IF k = m THEN h[i] ELSE IF k = i THEN h[m] ELSE h[k]
  BY <1>0 DEF Swapped
<1>3. \A k \in 1 .. Len(h) : h[k].deadline \in Int
  BY DEF Timed
<1> DEFINE d(k) == h[k].deadline
           e(k) == g[k].deadline
<1>4. \A k \in 1 .. Len(h) : d(k) \in Int /\ e(k) = IF k = m THEN d(i) ELSE IF k = i THEN d(m) ELSE d(k)
  BY <1>2, <1>3
<1>5. \A k \in 2 .. Len(h) : /\ k \div 2 # i => d(k \div 2) <= d(k)
                             /\ k \div 2 = i /\ i > 1 => d(i \div 2) <= d(k)
                             /\ k \div 2 = i => d(m) <= d(k)
  BY Zenon DEF DownOrder, Least
<1>6. d(m) < d(i)
  BY Zenon DEF Least
<1> HIDE DEF d, e
<1>7. ASSUME NEW k \in 2 .. Len(h), k \div 2 # m PROVE e(k \div 2) <= e(k)
  <2>1. PICK q \in Nat : q = k \div 2 /\ q >= 1 /\ q < k /\ q \in 1 .. Len(h) /\ k \in 1 .. Len(h)
    BY Parent
  <2>2. CASE q = i
    BY <1>1, <1>4, <1>5, <1>6, <1>7, <2>1, <2>2
  <2>3. CASE q # i /\ k = i
    BY <1>1, <1>4, <1>5, <1>6, <1>7, <2>1, <2>3
  <2>4. CASE q # i /\ k # i
    BY <1>1, <1>4, <1>5, <1>6, <1>7, <2>1, <2>4
  <2> QED BY <2>2, <2>3, <2>4
<1>8. ASSUME NEW k \in 2 .. Len(h), k \div 2 = m PROVE e(m \div 2) <= e(k)
  <2>1. k \in 1 .. Len(h) /\ k > m
    BY <1>1, <1>8, Parent
  <2>2. d(m) <= d(k) /\ e(i) = d(m) /\ e(k) = d(k)
    BY <1>1, <1>4, <1>5, <1>8, <2>1
  <2> QED BY <1>1, <2>2
<1> QED BY <1>2, <1>7, <1>8, Zenon DEF DownOrder, e

\* sift_down from i makes a heap of the same entries.
LEMMA SiftDownOK ==
    ASSUME NEW X, Timed(X), NEW h \in Seq(X), NEW i \in 1 .. Len(h), DownOrder(h, i), NEW r, r = SiftDown(h, i)
    PROVE  r \in Seq(X) /\ Same(r, h) /\ Ordered(r)
<1> DEFINE S == { s \in Seq(X) \X Nat : s[2] \in 1 .. Len(s[1]) /\ Same(s[1], h) /\ DownOrder(s[1], s[2]) }
           M == [s \in S |-> Len(h) - s[2]]
<1>1. ASSUME NEW s \in S
      PROVE  /\ DownTurn(s) \in S /\ Len(h) - s[2] \in Nat
             /\ DownTurn(s) = s \/ Len(h) - DownTurn(s)[2] < Len(h) - s[2]
  <2>1. PICK f \in Seq(X), k \in Nat : s = <<f, k>>
    OBVIOUS
  <2>2. k \in 1 .. Len(f) /\ Same(f, h) /\ DownOrder(f, k) /\ s[1] = f /\ s[2] = k
    BY <2>1
  <2> DEFINE m == Smallest(f, k)
  <2>3. Least(f, k, m)
    BY <2>2, SmallestIs, Zenon
  <2> HIDE DEF m
  <2>4. Len(f) = Len(h) /\ Len(h) \in Nat
    BY <2>2 DEF Same
  <2>5. CASE m = k
    <3>1. DownTurn(s) = s
      BY <2>2, <2>5, Zenon DEF DownTurn, m
    <3> QED BY <2>2, <2>4, <3>1
  <2>6. CASE m # k
    <3> DEFINE q == Swap(f, k, m)
    <3>1. DownTurn(s) = <<q, m>>
      BY <2>2, <2>6, Zenon DEF DownTurn, m
    <3>2. m \in 1 .. Len(f) /\ m \in Nat /\ m > k
      BY <2>2, <2>3, <2>6 DEF Least
    <3>3. q \in Seq(X) /\ Swapped(q, f, k, m)
      BY <2>2, <3>2, SwapIs, Zenon
    <3>4. Same(q, f)
      BY <2>2, <3>2, SwapSame, Zenon
    <3>5. Same(q, h)
      BY <2>2, <3>4, SameTrans, Zenon
    <3>6. DownOrder(q, m)
      BY <2>2, <2>3, <2>6, DownStep, Zenon
    <3>7. Len(q) = Len(f)
      BY <3>3, Zenon DEF Swapped
    <3> HIDE DEF q
    <3>8. <<q, m>> \in Seq(X) \X Nat /\ <<q, m>>[1] = q /\ <<q, m>>[2] = m
      BY <3>2, <3>3
    <3>9. <<q, m>> \in S
      BY <3>2, <3>5, <3>6, <3>7, <3>8, Zenon
    <3>10. Len(h) - k \in Nat /\ Len(h) - m < Len(h) - k
      BY <2>2, <2>4, <3>2
    <3> QED BY <2>2, <3>1, <3>8, <3>9, <3>10, Zenon
  <2> QED BY <2>5, <2>6
<1>2. Len(h) \in Nat /\ <<h, i>> \in S /\ Len(h) - <<h, i>>[2] <= Len(h)
  <2>1. <<h, i>> \in Seq(X) \X Nat /\ <<h, i>>[1] = h /\ <<h, i>>[2] = i /\ Len(h) - i <= Len(h) /\ Len(h) \in Nat
    OBVIOUS
  <2> QED BY <2>1, SameRefl, Zenon
<1>3. PICK s \in S : DownTurn(s) = s /\ r = s[1]
  <2>1. M \in [S -> Nat] /\ M[<<h, i>>] <= Len(h) /\ \A s \in S : DownTurn(s) = s \/ M[DownTurn(s)] < M[s]
    BY <1>1, <1>2, Zenon
  <2> HIDE DEF S, M
  <2> QED BY <1>1, <1>2, <2>1, DownEnds, Zenon
<1>4. PICK f, k : f = s[1] /\ k = s[2]
  BY Zenon
<1>5. f \in Seq(X) /\ k \in Nat /\ k \in 1 .. Len(f) /\ Same(f, h) /\ DownOrder(f, k)
  BY <1>3, <1>4
<1>6. Least(f, k, Smallest(f, k))
  BY <1>5, SmallestIs, Zenon
<1>7. Smallest(f, k) = k
  <2> SUFFICES ASSUME Smallest(f, k) # k PROVE FALSE
    OBVIOUS
  <2>1. s = <<Swap(f, k, Smallest(f, k)), Smallest(f, k)>>
    BY <1>3, <1>4, Zenon DEF DownTurn
  <2>2. k = Smallest(f, k)
    BY <1>4, <2>1
  <2> QED BY <2>2
<1>8. Ordered(f)
  <2> SUFFICES ASSUME NEW j \in 2 .. Len(f) PROVE f[j \div 2].deadline <= f[j].deadline
    BY Zenon DEF Ordered
  <2>1. CASE j \div 2 = k
    BY <1>6, <1>7, <2>1, Zenon DEF Least
  <2>2. CASE j \div 2 # k
    BY <1>5, <2>2, Zenon DEF DownOrder
  <2> QED BY <2>1, <2>2
<1> QED BY <1>3, <1>4, <1>5, <1>8, Zenon

\* sift_up leaves an entry that is not due before its parent where it is.
LEMMA SiftUpStays ==
    ASSUME NEW X, NEW h \in Seq(X), NEW i \in 1 .. Len(h), ~(i > 1 /\ h[i].deadline < h[i \div 2].deadline)
    PROVE  SiftUp(h, i) = h
<1> DEFINE S == {<<h, i>>}
           M == [s \in S |-> 0]
<1>1. UpTurn(<<h, i>>) = <<h, i>>
  <2>1. <<h, i>>[1] = h /\ <<h, i>>[2] = i
    OBVIOUS
  <2> QED BY <2>1, Zenon DEF UpTurn
<1>2. /\ M \in [S -> Nat] /\ <<h, i>> \in S /\ M[<<h, i>>] <= Len(h) /\ Len(h) \in Nat
      /\ \A s \in S : UpTurn(s) \in S /\ (UpTurn(s) = s \/ M[UpTurn(s)] < M[s])
  BY <1>1
<1>3. PICK s \in S : SiftUp(h, i) = s[1]
  <2> HIDE DEF S, M
  <2> QED BY <1>2, UpEnds, Zenon
<1> QED BY <1>3

\* h has exactly the entries E, each once, and is a heap of them.
Lists(h, E) == h \in Seq(E) /\ Distinct(h) /\ \A e \in E : \E i \in 1 .. Len(h) : h[i] = e
Holds(h, E) == Lists(h, E) /\ Ordered(h)

LEMMA IsSeq ==
    ASSUME NEW D, NEW n \in Nat, NEW g \in [1 .. n -> D]
    PROVE  g \in Seq(D) /\ Len(g) = n
  OBVIOUS

\* Reordering keeps the entries.
LEMMA Reordered ==
    ASSUME NEW E, NEW h, Lists(h, E), NEW g \in Seq(E), Same(g, h), Ordered(g)
    PROVE  Holds(g, E)
<1>1. ASSUME NEW e \in E PROVE \E i \in 1 .. Len(g) : g[i] = e
  <2>1. PICK j \in 1 .. Len(h) : h[j] = e
    BY Zenon DEF Lists
  <2>2. PICK i \in 1 .. Len(g) : g[i] = h[j]
    BY Zenon DEF Same
  <2> QED BY <2>1, <2>2, Zenon
<1> QED BY <1>1, Zenon DEF Holds, Lists, Same

\* push adds its entry.
LEMMA PushOK ==
    ASSUME NEW E, NEW e, e \notin E, Timed(E \cup {e}), NEW h, Holds(h, E)
    PROVE  Holds(Push(h, e), E \cup {e})
<1> DEFINE q == Append(h, e)
           n == Len(h)
           D == E \cup {e}
<1>1. h \in Seq(E) /\ Ordered(h) /\ Distinct(h) /\ n \in Nat
  BY DEF Holds, Lists
<1>2. q \in Seq(D) /\ Len(q) = n + 1 /\ q[n + 1] = e /\ \A k \in 1 .. n : q[k] = h[k]
  BY <1>1
<1>3. \A k \in 1 .. n : h[k] \in E
  BY <1>1
<1>4. Distinct(q)
  <2> HIDE DEF q, n
  <2> SUFFICES ASSUME NEW i \in 1 .. n + 1, NEW j \in 1 .. n + 1, q[i] = q[j] PROVE i = j
    BY <1>2, Zenon DEF Distinct
  <2>1. CASE i \in 1 .. n /\ j \in 1 .. n
    BY <1>1, <1>2, <2>1, Zenon DEF Distinct, n
  <2>2. CASE i = n + 1 \/ j = n + 1
    BY <1>1, <1>2, <1>3, <2>2
  <2> QED BY <1>1, <2>1, <2>2
<1>5. \A x \in D : \E i \in 1 .. Len(q) : q[i] = x
  <2> HIDE DEF q, n
  <2> SUFFICES ASSUME NEW x \in D PROVE \E i \in 1 .. n + 1 : q[i] = x
    BY <1>2
  <2>1. CASE x = e
    <3>1. n + 1 \in 1 .. n + 1
      BY <1>1
    <3> QED BY <1>2, <2>1, <3>1, Zenon
  <2>2. CASE x \in E
    <3>1. PICK i \in 1 .. n : h[i] = x
      BY <2>2, Zenon DEF Holds, Lists, n
    <3>2. i \in 1 .. n + 1
      BY <1>1
    <3> QED BY <1>2, <3>1, <3>2, Zenon
  <2> QED BY <2>1, <2>2
<1>6. UpOrder(q, n + 1)
  <2> HIDE DEF q
  <2>1. ASSUME NEW k \in 2 .. n + 1 PROVE k \div 2 \in 1 .. n /\ k \div 2 # n + 1
    BY <1>1, Parent
  <2>2. ASSUME NEW k \in 2 .. n + 1, k # n + 1 PROVE q[k \div 2].deadline <= q[k].deadline
    <3>1. k \in 2 .. n /\ k \in 1 .. n
      BY <1>1, <2>2
    <3>2. h[k \div 2].deadline <= h[k].deadline
      BY <1>1, <3>1, Zenon DEF Ordered
    <3> QED BY <1>2, <2>1, <3>1, <3>2, Zenon
  <2> QED BY <1>2, <2>1, <2>2, Zenon DEF UpOrder
<1>7. n + 1 \in 1 .. Len(q)
  BY <1>1, <1>2
<1> HIDE DEF q
<1>8. SiftUp(q, n + 1) \in Seq(D) /\ Same(SiftUp(q, n + 1), q) /\ Ordered(SiftUp(q, n + 1))
  <2> HIDE DEF n, D
  <2> QED BY <1>2, <1>6, <1>7, SiftUpOK, Zenon DEF D
<1>9. Holds(SiftUp(q, n + 1), D)
  <2> HIDE DEF n, D
  <2> QED BY <1>2, <1>4, <1>5, <1>8, Reordered, Zenon DEF Lists
<1> QED BY <1>9, Zenon DEF Push, q

\* g is h without its entry at i, where the last one was put.
Moved(g, h, i) ==
    /\ Len(g) = Len(h) - 1
    /\ \A k \in 1 .. Len(g) : g[k] = IF k = i THEN h[Len(h)] ELSE h[k]

\* The entries of the array without the one at i.
LEMMA MovedLists ==
    ASSUME NEW E, NEW h, Lists(h, E), NEW n \in Nat, Len(h) = n + 1, NEW i \in 1 .. n,
           NEW g, g = [k \in 1 .. n |-> IF k = i THEN h[n + 1] ELSE h[k]]
    PROVE  Moved(g, h, i) /\ Lists(g, E \ {h[i]})
<1>1. h \in Seq(E) /\ \A j, k \in 1 .. n + 1 : h[j] = h[k] => j = k
  BY Zenon DEF Lists, Distinct
<1>2. \A k \in 1 .. n + 1 : h[k] \in E
  BY <1>1
<1>3. n + 1 \in 1 .. n + 1 /\ \A k \in 1 .. n : k \in 1 .. n + 1 /\ k # n + 1
  OBVIOUS
<1>4. \A k \in 1 .. n : g[k] = IF k = i THEN h[n + 1] ELSE h[k]
  OBVIOUS
<1> DEFINE D == E \ {h[i]}
<1>5. \A k \in 1 .. n : g[k] \in D
  BY <1>1, <1>2, <1>3, <1>4
<1> HIDE DEF D
<1>6. g \in [1 .. n -> D]
  BY <1>5
<1>7. g \in Seq(D) /\ Len(g) = n
  BY <1>6, IsSeq, Zenon
<1>8. Distinct(g)
  <2> SUFFICES ASSUME NEW j \in 1 .. n, NEW k \in 1 .. n, g[j] = g[k] PROVE j = k
    BY <1>7, Zenon DEF Distinct
  <2> QED BY <1>1, <1>3, <1>4
<1>9. ASSUME NEW e \in D PROVE \E j \in 1 .. Len(g) : g[j] = e
  <2>1. PICK k \in 1 .. n + 1 : h[k] = e
    BY Zenon DEF Lists, D
  <2>2. CASE k = n + 1
    BY <1>4, <1>7, <2>1, <2>2
  <2>3. CASE k # n + 1
    <3>1. k \in 1 .. n /\ k # i
      BY <2>1, <2>3 DEF D
    <3> QED BY <1>4, <1>7, <2>1, <3>1
  <2> QED BY <2>2, <2>3
<1>10. Moved(g, h, i)
  <2>1. (n + 1) - 1 = n
    OBVIOUS
  <2> QED BY <1>4, <1>7, <2>1, Zenon DEF Moved
<1> QED BY <1>7, <1>8, <1>9, <1>10, Zenon DEF Lists, D

\* What the moved entry leaves, before it is sifted.
LEMMA MovedIs ==
    ASSUME NEW E, NEW h, Lists(h, E), NEW i \in 1 .. Len(h), i < Len(h),
           NEW g, g = [Front(h) EXCEPT ![i] = Last(h)]
    PROVE  Moved(g, h, i) /\ Lists(g, E \ {h[i]})
<1>1. h \in Seq(E) /\ Len(h) \in Nat /\ h # <<>>
  BY DEF Lists
<1>2. PICK f : f = Front(h)
  BY Zenon
<1>3. /\ f \in Seq(E) /\ Len(f) = Len(h) - 1 /\ Last(h) = h[Len(h)]
      /\ \A k \in 1 .. Len(f) : f[k] = h[k]
  BY <1>1, <1>2, FrontIs, ZenonT(60)
<1>4. PICK n \in Nat : n = Len(f) /\ DOMAIN f = 1 .. n /\ Len(h) = n + 1 /\ i \in 1 .. n
  BY <1>1, <1>3
<1>5. g = [k \in 1 .. n |-> IF k = i THEN h[n + 1] ELSE h[k]]
  <2>1. g = [f EXCEPT ![i] = h[n + 1]]
    BY <1>2, <1>3, <1>4, Zenon
  <2>2. g = [k \in 1 .. n |-> IF k = i THEN h[n + 1] ELSE f[k]]
    BY <1>4, <2>1, Zenon
  <2> QED BY <1>3, <1>4, <2>2, Zenon
<1> QED BY <1>4, <1>5, MovedLists, Zenon

\* A heap whose entry at i is replaced is ordered but for what is above and below i.
LEMMA MovedOrder ==
    ASSUME NEW E, Timed(E), NEW h \in Seq(E), Ordered(h), NEW i \in 1 .. Len(h), i < Len(h),
           NEW g, Moved(g, h, i)
    PROVE  /\ i > 1 /\ g[i].deadline < g[i \div 2].deadline => UpOrder(g, i)
           /\ ~(i > 1 /\ g[i].deadline < g[i \div 2].deadline) => DownOrder(g, i)
<1>1. PICK n \in Nat : n = Len(g) /\ Len(h) = n + 1
  BY DEF Moved
<1> DEFINE d(k) == h[k].deadline
           e(k) == g[k].deadline
<1>2. \A k \in 1 .. n + 1 : d(k) \in Int
  BY <1>1 DEF Timed
<1>3. i \in 1 .. n /\ e(i) \in Int /\ \A k \in 1 .. n : e(k) \in Int /\ (k # i => e(k) = d(k))
  <2>1. i \in 1 .. n /\ n + 1 \in 1 .. n + 1 /\ \A k \in 1 .. n : k \in 1 .. n + 1
    BY <1>1
  <2>2. \A k \in 1 .. n : g[k] = IF k = i THEN h[n + 1] ELSE h[k]
    BY <1>1, Zenon DEF Moved
  <2> QED BY <1>2, <2>1, <2>2, Zenon
<1>4. \A k \in 2 .. n : d(k \div 2) <= d(k) /\ k \div 2 \in 1 .. n /\ k \in 1 .. n /\ k \div 2 < k
  BY <1>1, Parent DEF Ordered
<1> HIDE DEF d, e
<1>5. \A k \in 2 .. n : k # i /\ k \div 2 # i => e(k \div 2) <= e(k)
  BY <1>3, <1>4
<1>6. \A k \in 2 .. n : k \div 2 = i /\ i > 1 => e(i \div 2) <= e(k)
  <2> SUFFICES ASSUME NEW k \in 2 .. n, k \div 2 = i, i > 1 PROVE e(i \div 2) <= e(k)
    OBVIOUS
  <2>1. i \in 2 .. n
    BY <1>3
  <2>2. d(i \div 2) <= d(i) /\ i \div 2 \in 1 .. n /\ i \div 2 < i /\ d(i) <= d(k) /\ k # i /\ k \in 1 .. n
    BY <1>4, <2>1
  <2>3. e(i \div 2) = d(i \div 2) /\ e(k) = d(k) /\ i \in 1 .. n + 1 /\ k \in 1 .. n + 1 /\ i \div 2 \in 1 .. n + 1
    BY <1>3, <2>2
  <2> QED BY <1>2, <2>2, <2>3
<1>7. ASSUME i > 1, e(i) < e(i \div 2) PROVE UpOrder(g, i)
  <2>1. \A k \in 2 .. n : k # i => e(k \div 2) <= e(k)
    <3> SUFFICES ASSUME NEW k \in 2 .. n, k # i PROVE e(k \div 2) <= e(k)
      OBVIOUS
    <3>1. CASE k \div 2 # i
      BY <1>5, <3>1
    <3>2. CASE k \div 2 = i
      <4>1. e(i \div 2) <= e(k) /\ i \in 2 .. n
        BY <1>3, <1>6, <1>7, <3>2
      <4>2. e(i \div 2) \in Int /\ e(k) \in Int
        BY <1>3, <1>4, <4>1
      <4> QED BY <1>3, <1>7, <3>2, <4>1, <4>2
    <3> QED BY <3>1, <3>2
  <2> QED BY <1>1, <1>6, <2>1, Zenon DEF UpOrder, e
<1>8. ASSUME ~(i > 1 /\ e(i) < e(i \div 2)) PROVE DownOrder(g, i)
  <2>1. \A k \in 2 .. n : k \div 2 # i => e(k \div 2) <= e(k)
    <3> SUFFICES ASSUME NEW k \in 2 .. n, k \div 2 # i PROVE e(k \div 2) <= e(k)
      OBVIOUS
    <3>1. CASE k # i
      BY <1>5, <3>1
    <3>2. CASE k = i
      BY <1>3, <1>4, <1>8, <3>2
    <3> QED BY <3>1, <3>2
  <2> QED BY <1>1, <1>6, <2>1, Zenon DEF DownOrder, e
<1> QED BY <1>7, <1>8, Zenon DEF e

\* A heap is ordered below any of its entries.
LEMMA HeapDown ==
    ASSUME NEW E, Timed(E), NEW h \in Seq(E), Ordered(h), NEW i \in 1 .. Len(h)
    PROVE  DownOrder(h, i)
<1> DEFINE d(k) == h[k].deadline
<1>1. \A k \in 1 .. Len(h) : d(k) \in Int
  BY DEF Timed
<1>2. \A k \in 2 .. Len(h) : d(k \div 2) <= d(k) /\ k \div 2 \in 1 .. Len(h) /\ k \in 1 .. Len(h)
  BY Parent DEF Ordered
<1> HIDE DEF d
<1>3. ASSUME NEW k \in 2 .. Len(h), k \div 2 = i, i > 1 PROVE d(i \div 2) <= d(k)
  <2>1. i \in 2 .. Len(h)
    BY <1>3
  <2>2. d(i \div 2) <= d(i) /\ d(i) <= d(k) /\ i \div 2 \in 1 .. Len(h) /\ k \in 1 .. Len(h)
    BY <1>2, <1>3, <2>1
  <2> QED BY <1>1, <2>2
<1> QED BY <1>2, <1>3, Zenon DEF DownOrder, d

\* A sequence that is one entry shorter than a heap of one entry is empty.
LEMMA LastOne ==
    ASSUME NEW E, NEW h, Holds(h, E), Len(h) \in Nat, Len(h) >= 1
    PROVE  Holds(Front(h), E \ {h[Len(h)]})
<1>1. PICK g : g = Front(h)
  BY Zenon
<1>2. h \in Seq(E) /\ Distinct(h) /\ Ordered(h) /\ h # <<>>
  BY DEF Holds, Lists
<1>3. /\ g \in Seq(E) /\ Len(g) = Len(h) - 1 /\ Len(g) \in Nat
      /\ \A k \in 1 .. Len(g) : g[k] = h[k]
  BY <1>1, <1>2, FrontIs, ZenonT(60)
<1>4. PICK n \in Nat : n = Len(g) /\ Len(h) = n + 1
  BY <1>3
<1>5. \A k \in 1 .. n : k \in 1 .. n + 1 /\ k # n + 1 /\ (k \in 2 .. n => k \in 2 .. n + 1)
  OBVIOUS
<1>6. \A j, k \in 1 .. n + 1 : h[j] = h[k] => j = k
  BY <1>2, <1>4, Zenon DEF Distinct
<1>7. n + 1 \in 1 .. n + 1
  OBVIOUS
<1>8. \A k \in 1 .. n : g[k] \in E \ {h[n + 1]}
  <2>1. \A k \in 1 .. n : g[k] \in E
    BY <1>3, <1>4
  <2> QED BY <1>3, <1>4, <1>5, <1>6, <1>7, <2>1, Zenon
<1>9. g \in Seq(E \ {h[n + 1]})
  <2>1. g = [k \in 1 .. n |-> g[k]]
    BY <1>3, <1>4
  <2> DEFINE D == E \ {h[n + 1]}
  <2>2. \A k \in 1 .. n : g[k] \in D
    BY <1>8
  <2> HIDE DEF D
  <2>3. g \in [1 .. n -> D]
    BY <2>1, <2>2, Zenon
  <2> QED BY <2>3, IsSeq, Zenon DEF D
<1>10. Distinct(g)
  BY <1>3, <1>4, <1>5, <1>6, Zenon DEF Distinct
<1>11. Ordered(g)
  <2> SUFFICES ASSUME NEW k \in 2 .. n PROVE g[k \div 2].deadline <= g[k].deadline
    BY <1>4, Zenon DEF Ordered
  <2>1. k \div 2 \in 1 .. n /\ k \in 1 .. n /\ k \in 2 .. n + 1
    BY Parent
  <2>2. h[k \div 2].deadline <= h[k].deadline
    BY <1>2, <1>4, <2>1, Zenon DEF Ordered
  <2> QED BY <1>3, <1>4, <2>1, <2>2, Zenon
<1>12. ASSUME NEW e \in E \ {h[n + 1]} PROVE \E i \in 1 .. Len(g) : g[i] = e
  <2>1. PICK k \in 1 .. n + 1 : h[k] = e
    BY <1>4, Zenon DEF Holds, Lists
  <2>2. k \in 1 .. n
    BY <2>1
  <2> QED BY <1>3, <1>4, <2>1, <2>2, Zenon
<1>13. Holds(g, E \ {h[n + 1]})
  BY <1>9, <1>10, <1>11, <1>12, <1>4, Zenon DEF Holds, Lists
<1> QED BY <1>1, <1>4, <1>13, Zenon

\* Taking out the entry at i leaves a heap of the others.
LEMMA DropOK ==
    ASSUME NEW E, Timed(E), NEW h, Holds(h, E), NEW i \in 1 .. Len(h)
    PROVE  Holds(DropAt(h, i), E \ {h[i]}) /\ Len(DropAt(h, i)) = Len(h) - 1
<1>1. h \in Seq(E) /\ Ordered(h) /\ Len(h) \in Nat /\ Len(h) >= 1 /\ h # <<>>
  BY DEF Holds, Lists
<1>2. CASE i = Len(h)
  <2>1. Len(Front(h)) = Len(h) - 1
    BY <1>1, FrontIs, Zenon
  <2> QED BY <1>1, <1>2, <2>1, LastOne, Zenon DEF DropAt
<1>3. CASE i < Len(h)
  <2> DEFINE g == [Front(h) EXCEPT ![i] = Last(h)]
             u == SiftUp(g, i)
             v == SiftDown(u, i)
             D == E \ {h[i]}
  <2>1. DropAt(h, i) = v
    <3>1. i # Len(h)
      BY <1>1, <1>3
    <3> QED BY <3>1, Zenon DEF DropAt
  <2>0. Moved(g, h, i) /\ Lists(g, D)
    BY <1>3, MovedIs, Zenon DEF Holds
  <2>2. Moved(g, h, i) /\ g \in Seq(D)
    BY <2>0, Zenon DEF Lists
  <2> HIDE DEF g
  <2>3. i \in 1 .. Len(g) /\ Len(g) \in Nat
    BY <1>1, <1>3, <2>2 DEF Moved
  <2>4. Timed(D)
    BY DEF Timed
  <2>5. u \in Seq(D) /\ Same(u, g) /\ DownOrder(u, i)
    <3>1. CASE i > 1 /\ g[i].deadline < g[i \div 2].deadline
      <4>1. UpOrder(g, i)
        BY <1>1, <1>3, <2>2, <3>1, MovedOrder, Zenon
      <4>2. u \in Seq(D) /\ Same(u, g) /\ Ordered(u)
        <5> HIDE DEF D
        <5> QED BY <2>2, <2>3, <2>4, <4>1, SiftUpOK, Zenon
      <4>3. Len(u) = Len(g)
        BY <4>2, Zenon DEF Same
      <4>4. DownOrder(u, i)
        <5> HIDE DEF D, u
        <5> QED BY <2>3, <2>4, <4>2, <4>3, HeapDown, Zenon
      <4> QED BY <4>2, <4>4
    <3>2. CASE ~(i > 1 /\ g[i].deadline < g[i \div 2].deadline)
      <4>1. DownOrder(g, i)
        BY <1>1, <1>3, <2>2, <3>2, MovedOrder, Zenon
      <4>2. u = g
        <5> HIDE DEF D
        <5> QED BY <2>2, <2>3, <3>2, SiftUpStays, Zenon
      <4> QED BY <2>2, <4>1, <4>2, SameRefl, Zenon
    <3> QED BY <3>1, <3>2
  <2> HIDE DEF u, D
  <2>6. i \in 1 .. Len(u)
    BY <2>3, <2>5, Zenon DEF Same
  <2>7. v \in Seq(D) /\ Same(v, u) /\ Ordered(v)
    BY <2>4, <2>5, <2>6, SiftDownOK, Zenon
  <2> HIDE DEF v
  <2>8. Same(v, g)
    BY <2>5, <2>7, SameTrans, Zenon
  <2>9. Holds(v, D)
    BY <2>0, <2>7, <2>8, Reordered, Zenon
  <2>10. Len(v) = Len(h) - 1
    BY <2>0, <2>8, Zenon DEF Same, Moved
  <2> QED BY <2>1, <2>9, <2>10, Zenon DEF D
<1> QED BY <1>1, <1>2, <1>3

\* pop takes out the first entry.
LEMMA PopOK ==
    ASSUME NEW E, Timed(E), NEW h, Holds(h, E), Len(h) # 0
    PROVE  Holds(Pop(h), E \ {h[1]})
<1>1. h \in Seq(E) /\ Ordered(h) /\ Len(h) \in Nat /\ Len(h) >= 1
  BY DEF Holds, Lists
<1>2. CASE Len(h) = 1
  <2>1. Pop(h) = <<>> /\ Len(Pop(h)) = 0 /\ \A D : Pop(h) \in Seq(D)
    BY <1>2 DEF Pop
  <2>2. 1 .. 0 = {} /\ 2 .. 0 = {}
    OBVIOUS
  <2>3. E \ {h[1]} = {}
    <3> SUFFICES ASSUME NEW e \in E PROVE e = h[1]
      BY Zenon
    <3>1. PICK i \in 1 .. 1 : h[i] = e
      BY <1>2, Zenon DEF Holds, Lists
    <3> QED BY <3>1
  <2>4. Distinct(Pop(h)) /\ Ordered(Pop(h))
    BY <2>1, <2>2, Zenon DEF Distinct, Ordered
  <2> QED BY <2>1, <2>3, <2>4, Zenon DEF Holds, Lists
<1>3. CASE Len(h) # 1
  <2> DEFINE g == [Front(h) EXCEPT ![1] = Last(h)]
             D == E \ {h[1]}
  <2>1. \A n \in Nat : n # 0 /\ n # 1 => 1 \in 1 .. n /\ 1 < n /\ ~(1 > 1)
    OBVIOUS
  <2>2. Moved(g, h, 1) /\ Lists(g, D)
    BY <1>1, <1>3, <2>1, MovedIs, Zenon DEF Holds
  <2>3. Pop(h) = SiftDown(g, 1)
    BY <1>3, Zenon DEF Pop
  <2> HIDE DEF g
  <2>4. 1 \in 1 .. Len(g)
    BY <1>1, <1>3, <2>2 DEF Moved
  <2>5. DownOrder(g, 1)
    BY <1>1, <1>3, <2>1, <2>2, MovedOrder, Zenon
  <2>6. Timed(D) /\ g \in Seq(D)
    BY <2>2 DEF Timed, Lists
  <2> HIDE DEF D
  <2>7. SiftDown(g, 1) \in Seq(D) /\ Same(SiftDown(g, 1), g) /\ Ordered(SiftDown(g, 1))
    BY <2>4, <2>5, <2>6, SiftDownOK, Zenon
  <2>8. Holds(SiftDown(g, 1), D)
    BY <2>2, <2>7, Reordered, Zenon
  <2> QED BY <2>3, <2>8, Zenon DEF D
<1> QED BY <1>2, <1>3

\* Every connection has at most one of the entries E.
OnePerConn(E) == \A x, y \in E : x.conn = y.conn => x = y

\* A state of remove_by_conn's loop: f is a heap of entries of E, among them all that are
\* not of connection c, and none before position k is of c.
Scanned(f, k, c, E) ==
    /\ k >= 1 /\ k <= Len(f) + 1
    /\ \E D \in SUBSET E : Holds(f, D) /\ {e \in E : e.conn # c} \subseteq D
    /\ \A j \in 1 .. Len(f) : j < k => f[j].conn # c

Shrunk(g, f, k, c, E) == Scanned(g, k, c, E) /\ Len(g) = Len(f) - 1

\* A turn of the loop takes an entry of c out or goes on.
LEMMA ScanStep ==
    ASSUME NEW E, Timed(E), OnePerConn(E), NEW c, NEW f, NEW k \in Nat, Scanned(f, k, c, E), k <= Len(f), Len(f) \in Nat
    PROVE  /\ f[k].conn # c => Scanned(f, k + 1, c, E)
           /\ f[k].conn = c => Shrunk(DropAt(f, k), f, k, c, E)
<1>1. PICK D \in SUBSET E : Holds(f, D) /\ {e \in E : e.conn # c} \subseteq D
  BY Zenon DEF Scanned
<1>2. k >= 1 /\ k \in 1 .. Len(f) /\ \A j \in 1 .. Len(f) : j < k => f[j].conn # c
  BY DEF Scanned
<1>3. ASSUME f[k].conn # c PROVE Scanned(f, k + 1, c, E)
  <2>1. \A j \in 1 .. Len(f) : j < k + 1 => j < k \/ j = k
    OBVIOUS
  <2>2. k + 1 >= 1 /\ k + 1 <= Len(f) + 1
    OBVIOUS
  <2> QED BY <1>1, <1>2, <1>3, <2>1, <2>2, Zenon DEF Scanned
<1>4. ASSUME f[k].conn = c PROVE Shrunk(DropAt(f, k), f, k, c, E)
  <2> DEFINE g == DropAt(f, k)
             C == D \ {f[k]}
  <2>1. Timed(D)
    BY DEF Timed
  <2>2. Holds(g, C)
    BY <1>1, <1>2, <2>1, DropOK, Zenon
  <2>3. Len(g) = Len(f) - 1
    BY <1>1, <1>2, <2>1, DropOK, Zenon
  <2> HIDE DEF g
  <2>4. f[k] \in D
    BY <1>1, <1>2 DEF Holds, Lists
  <2>5. \A e \in C : e.conn # c
    BY <1>4, <2>4, Zenon DEF OnePerConn
  <2>6. {e \in E : e.conn # c} \subseteq C /\ C \in SUBSET E
    BY <1>1, <1>4
  <2> HIDE DEF C
  <2>7. \A j \in 1 .. Len(g) : g[j].conn # c
    <3>1. \A j \in 1 .. Len(g) : g[j] \in C
      BY <2>2 DEF Holds, Lists
    <3> QED BY <2>5, <3>1, Zenon
  <2>8. k <= Len(g) + 1
    BY <1>2, <2>3
  <2>9. Scanned(g, k, c, E)
    BY <1>2, <2>2, <2>6, <2>7, <2>8, Zenon DEF Scanned
  <2> QED BY <2>3, <2>9 DEF g, Shrunk
<1> QED BY <1>3, <1>4

\* remove_by_conn takes out the entry of c, if there is one.
LEMMA RemoveOK ==
    ASSUME NEW E, Timed(E), OnePerConn(E), NEW h, Holds(h, E), NEW c
    PROVE  Holds(RemoveByConn(h, c), {e \in E : e.conn # c})
<1> DEFINE S == { s \in Seq(E) \X Nat : Scanned(s[1], s[2], c, E) }
           M == [s \in S |-> Len(s[1]) + 1 - s[2]]
           Other == {e \in E : e.conn # c}
<1>0. ASSUME NEW f, NEW k \in Nat, Len(f) \in Nat, Scanned(f, k, c, E), k <= Len(f)
      PROVE  /\ f[k].conn # c => Scanned(f, k + 1, c, E)
             /\ f[k].conn = c => Scanned(DropAt(f, k), k, c, E) /\ Len(DropAt(f, k)) = Len(f) - 1
  <2> HIDE DEF S, M
  <2>1. f[k].conn # c => Scanned(f, k + 1, c, E)
    BY <1>0, ScanStep, Zenon
  <2>2. f[k].conn = c => Shrunk(DropAt(f, k), f, k, c, E)
    BY <1>0, ScanStep, SMT
  <2> QED BY <2>1, <2>2, Zenon DEF Shrunk
<1>1. ASSUME NEW f, NEW k \in Nat, Scanned(f, k, c, E) PROVE f \in Seq(E) /\ <<f, k>> \in S
  <2>1. PICK D \in SUBSET E : Holds(f, D)
    BY <1>1, Zenon DEF Scanned
  <2>2. f \in Seq(D)
    BY <2>1, Zenon DEF Holds, Lists
  <2>3. f \in Seq(E)
    BY <2>2
  <2>4. <<f, k>> \in Seq(E) \X Nat /\ <<f, k>>[1] = f /\ <<f, k>>[2] = k
    BY <2>3
  <2> QED BY <1>1, <2>3, <2>4, Zenon
<1>2. ASSUME NEW f \in Seq(E), NEW k \in Nat, Scanned(f, k, c, E), NEW s, s = <<f, k>>
      PROVE  /\ Len(f) + 1 - k \in Nat
             /\ k > Len(f) => ScanTurn(s, c) = s
             /\ k <= Len(f) /\ f[k].conn # c => ScanTurn(s, c) = <<f, k + 1>> /\ <<f, k + 1>> \in S
             /\ k <= Len(f) /\ f[k].conn = c => /\ ScanTurn(s, c) = <<DropAt(f, k), k>>
                                                /\ <<DropAt(f, k), k>> \in S
                                                /\ Len(DropAt(f, k)) = Len(f) - 1
  <2>1. s[1] = f /\ s[2] = k /\ Len(f) \in Nat /\ k + 1 \in Nat /\ (k > Len(f) <=> ~(k <= Len(f)))
    BY <1>2
  <2>2. Len(f) + 1 - k \in Nat
    BY <1>2, <2>1 DEF Scanned
  <2>3. ASSUME k > Len(f) PROVE ScanTurn(s, c) = s
    BY <2>1, <2>3, Zenon DEF ScanTurn
  <2>4. ASSUME k <= Len(f), f[k].conn # c PROVE ScanTurn(s, c) = <<f, k + 1>> /\ <<f, k + 1>> \in S
    <3>1. Scanned(f, k + 1, c, E)
      BY <1>0, <1>2, <2>1, <2>4, Zenon
    <3>2. <<f, k + 1>> \in S
      BY <1>1, <2>1, <3>1, Zenon
    <3> QED BY <2>1, <2>4, <3>2, Zenon DEF ScanTurn
  <2>5. ASSUME k <= Len(f), f[k].conn = c
        PROVE  ScanTurn(s, c) = <<DropAt(f, k), k>> /\ <<DropAt(f, k), k>> \in S /\ Len(DropAt(f, k)) = Len(f) - 1
    <3>1. Scanned(DropAt(f, k), k, c, E) /\ Len(DropAt(f, k)) = Len(f) - 1
      BY <1>0, <1>2, <2>1, <2>5, Zenon
    <3>2. <<DropAt(f, k), k>> \in S
      BY <1>1, <3>1, Zenon
    <3> QED BY <2>1, <2>5, <3>1, <3>2, Zenon DEF ScanTurn
  <2> QED BY <2>2, <2>3, <2>4, <2>5, Zenon
<1>3. ASSUME NEW s \in S
      PROVE  \E f \in Seq(E), k \in Nat : Scanned(f, k, c, E) /\ s = <<f, k>> /\ s[1] = f /\ s[2] = k
  <2>1. s \in Seq(E) \X Nat /\ Scanned(s[1], s[2], c, E)
    BY Zenon
  <2>2. s[1] \in Seq(E) /\ s[2] \in Nat /\ s = <<s[1], s[2]>>
    BY <2>1
  <2> QED BY <2>1, <2>2, Zenon
<1>4. M \in [S -> Nat] /\ \A s \in S : ScanTurn(s, c) \in S /\ (ScanTurn(s, c) = s \/ M[ScanTurn(s, c)] < M[s])
  <2>1. ASSUME NEW s \in S PROVE Len(s[1]) + 1 - s[2] \in Nat /\ ScanTurn(s, c) \in S
                                 /\ (ScanTurn(s, c) = s \/ M[ScanTurn(s, c)] < M[s])
    <3>1. PICK f \in Seq(E), k \in Nat : Scanned(f, k, c, E) /\ s = <<f, k>> /\ s[1] = f /\ s[2] = k
      BY <1>3, Zenon
    <3>2. Len(f) \in Nat /\ Len(s[1]) + 1 - s[2] = Len(f) + 1 - k /\ Len(f) + 1 - k \in Nat
      <4> HIDE DEF S
      <4>1. Len(f) + 1 - k \in Nat
        BY <1>2, <3>1, Zenon
      <4> QED BY <3>1, <4>1
    <3>3. M[s] = Len(f) + 1 - k
      BY <3>1, Zenon
    <3>4. CASE k > Len(f)
      <4>1. ScanTurn(s, c) = s
        BY <1>2, <3>1, <3>4, Zenon
      <4> QED BY <3>2, <4>1, Zenon
    <3>5. CASE k <= Len(f) /\ f[k].conn # c
      <4>1. ScanTurn(s, c) = <<f, k + 1>> /\ <<f, k + 1>> \in S
        <5> HIDE DEF S, M
        <5> QED BY <1>2, <3>1, <3>5, ZenonT(60)
      <4>2. M[<<f, k + 1>>] = Len(f) + 1 - (k + 1)
        BY <4>1
      <4>3. Len(f) + 1 - (k + 1) < Len(f) + 1 - k
        BY <3>2
      <4> QED BY <3>2, <3>3, <4>1, <4>2, <4>3, Zenon
    <3>6. CASE k <= Len(f) /\ f[k].conn = c
      <4> DEFINE g == DropAt(f, k)
      <4>1. ScanTurn(s, c) = <<g, k>> /\ <<g, k>> \in S /\ Len(g) = Len(f) - 1
        <5> HIDE DEF S, M
        <5> QED BY <1>2, <3>1, <3>6, ZenonT(60)
      <4> HIDE DEF g
      <4>2. M[<<g, k>>] = Len(g) + 1 - k
        BY <4>1
      <4>3. Len(g) + 1 - k < Len(f) + 1 - k
        BY <3>2, <4>1
      <4> QED BY <3>2, <3>3, <4>1, <4>2, <4>3, Zenon
    <3> QED BY <3>2, <3>4, <3>5, <3>6
  <2> QED BY <2>1, Zenon
<1>5. Len(h) \in Nat /\ <<h, 1>> \in S /\ M[<<h, 1>>] <= Len(h)
  <2>1. Len(h) \in Nat /\ 1 >= 1 /\ 1 <= Len(h) + 1 /\ 1 \in Nat /\ \A j \in 1 .. Len(h) : ~(j < 1)
    BY DEF Holds, Lists
  <2>2. Scanned(h, 1, c, E)
    <3>1. {e \in E : e.conn # c} \subseteq E /\ E \in SUBSET E
      BY Zenon
    <3> QED BY <2>1, <3>1, Zenon DEF Scanned
  <2>3. <<h, 1>> \in S
    BY <1>1, <2>1, <2>2, Zenon
  <2>4. M[<<h, 1>>] = Len(h) + 1 - 1
    BY <2>3
  <2> QED BY <2>1, <2>3, <2>4
<1>6. PICK s \in S : ScanTurn(s, c) = s /\ RemoveByConn(h, c) = s[1]
  <2> HIDE DEF S, M
  <2> QED BY <1>4, <1>5, ScanEnds, Zenon
<1>7. PICK f \in Seq(E), k \in Nat : Scanned(f, k, c, E) /\ s = <<f, k>> /\ s[1] = f /\ s[2] = k
  BY <1>3, Zenon
<1>8. k > Len(f)
  <2> HIDE DEF S, M
  <2> SUFFICES ASSUME k <= Len(f) PROVE FALSE
    BY <1>7
  <2>1. CASE f[k].conn # c
    <3>1. s = <<f, k + 1>>
      BY <1>2, <1>6, <1>7, <2>1, Zenon
    <3> QED BY <1>7, <3>1
  <2>2. CASE f[k].conn = c
    <3>1. s = <<DropAt(f, k), k>> /\ Len(DropAt(f, k)) = Len(f) - 1
      BY <1>2, <1>6, <1>7, <2>2, Zenon
    <3>2. Len(f) = Len(f) - 1
      BY <1>7, <3>1
    <3> QED BY <1>7, <3>2
  <2> QED BY <2>1, <2>2
<1>9. Holds(f, Other)
  <2>1. PICK D \in SUBSET E : Holds(f, D) /\ {e \in E : e.conn # c} \subseteq D
    BY <1>7, Zenon DEF Scanned
  <2>2. \A j \in 1 .. Len(f) : f[j].conn # c
    <3>1. \A j \in 1 .. Len(f) : j < k
      BY <1>7, <1>8
    <3> QED BY <1>7, <3>1, Zenon DEF Scanned
  <2>3. \A e \in D : e.conn # c
    BY <2>1, <2>2, Zenon DEF Holds, Lists
  <2>4. D = Other
    BY <2>1, <2>3, Zenon
  <2> QED BY <2>1, <2>4, Zenon
<1> QED BY <1>6, <1>7, <1>9, Zenon

\* The invariant of the heap by itself.
HeapInv == Holds(heap, entries) /\ Timed(entries) /\ OnePerConn(entries)

\* It means that the heap is one of its entries.
LEMMA HeapMeans == HeapInv => HeapOfEntries
<1> SUFFICES ASSUME HeapInv PROVE HeapOfEntries
  OBVIOUS
<1>1. heap \in Seq(entries) /\ Distinct(heap) /\ Ordered(heap)
      /\ \A e \in entries : \E i \in 1 .. Len(heap) : heap[i] = e
  BY Zenon DEF HeapInv, Holds, Lists
<1>2. DOMAIN heap = 1 .. Len(heap) /\ \A i \in 1 .. Len(heap) : heap[i] \in entries
  BY <1>1
<1>3. ToSet(heap) = entries
  BY <1>1, <1>2, Zenon DEF ToSet
<1>4. \A i, j \in DOMAIN heap : heap[i] = heap[j] => i = j
  BY <1>1, <1>2, Zenon DEF Distinct
<1> QED BY <1>1, <1>3, <1>4, Zenon DEF HeapOfEntries, Ordered

LEMMA HeapPushOK == ASSUME HeapInv, NEW d \in Deadlines, HeapPush(d) PROVE HeapInv'
<1> DEFINE free == HeapConns \ { x.conn : x \in entries }
           e == [deadline |-> d, gen |-> 0, conn |-> CHOOSE c \in free : TRUE]
<1>1. free # {} /\ heap' = Push(heap, e) /\ entries' = entries \cup {e}
  BY Zenon DEF HeapPush
<1>2. PICK k \in free : k = CHOOSE c \in free : TRUE
  BY <1>1, Zenon
<1> HIDE DEF free
<1>3. e.deadline = d /\ e.conn = k /\ d \in Int
  BY <1>2, HeapAssumption
<1>4. \A x \in entries : x.conn # e.conn
  BY <1>2, <1>3, Zenon DEF free
<1> HIDE DEF e
<1>5. e \notin entries
  BY <1>4, Zenon
<1>6. Timed(entries \cup {e})
  BY <1>3, Zenon DEF Timed, HeapInv
<1>7. OnePerConn(entries \cup {e})
  BY <1>4, Zenon DEF OnePerConn, HeapInv
<1>8. Holds(Push(heap, e), entries \cup {e})
  BY <1>5, <1>6, PushOK, Zenon DEF HeapInv
<1> QED BY <1>1, <1>6, <1>7, <1>8, Zenon DEF HeapInv

LEMMA HeapPopOK == ASSUME HeapInv, HeapPop PROVE HeapInv'
<1> DEFINE D == entries \ {heap[1]}
<1>1. Len(heap) # 0
  <2>1. heap \in Seq(entries) /\ heap # <<>>
    BY Zenon DEF HeapInv, HeapPop, Holds, Lists
  <2> QED BY <2>1
<1>2. Holds(Pop(heap), D)
  BY <1>1, PopOK, Zenon DEF HeapInv
<1>3. Timed(D) /\ OnePerConn(D)
  BY Zenon DEF HeapInv, Timed, OnePerConn
<1>4. heap' = Pop(heap) /\ entries' = D
  BY Zenon DEF HeapPop
<1> QED BY <1>2, <1>3, <1>4, Zenon DEF HeapInv

LEMMA HeapRemoveOK == ASSUME HeapInv, NEW c, HeapRemove(c) PROVE HeapInv'
<1> DEFINE D == { x \in entries : x.conn # c }
<1>1. Holds(RemoveByConn(heap, c), D)
  BY RemoveOK, Zenon DEF HeapInv
<1>2. Timed(D) /\ OnePerConn(D)
  BY Zenon DEF HeapInv, Timed, OnePerConn
<1>3. heap' = RemoveByConn(heap, c) /\ entries' = D
  BY Zenon DEF HeapRemove
<1> QED BY <1>1, <1>2, <1>3, Zenon DEF HeapInv

\* push, pop and remove_by_conn, in any order and for any number of entries, keep the
\* array a heap of exactly the entries put in and not taken out: top() is the next
\* deadline, and no entry is lost, duplicated or resurrected.
THEOREM HeapOfEntriesHolds == HeapSpec => []HeapOfEntries
<1>1. HeapInit => HeapInv
  <2> SUFFICES ASSUME HeapInit PROVE HeapInv
    OBVIOUS
  <2>1. heap = <<>> /\ entries = {}
    BY DEF HeapInit
  <2>2. heap \in Seq(entries) /\ Len(heap) = 0 /\ 1 .. Len(heap) = {} /\ 2 .. Len(heap) = {}
    BY <2>1
  <2> QED BY <2>1, <2>2, Zenon DEF HeapInv, Holds, Lists, Distinct, Ordered, Timed, OnePerConn
<1>2. HeapInv /\ [HeapNext]_<<heap, entries>> => HeapInv'
  <2> SUFFICES ASSUME HeapInv, [HeapNext]_<<heap, entries>> PROVE HeapInv'
    OBVIOUS
  <2>1. CASE UNCHANGED <<heap, entries>>
    BY <2>1 DEF HeapInv
  <2> QED BY <2>1, HeapPushOK, HeapPopOK, HeapRemoveOK, Zenon DEF HeapNext
<1> QED BY <1>1, <1>2, HeapMeans, PTL DEF HeapSpec

-----------------------------------------------------------------------------
(* Division with remainder by a number that is not known. *)

(* Division with remainder. *)
LEMMA DivMod ==
    ASSUME NEW a \in Int, NEW m \in Nat \ {0}
    PROVE  a % m \in 0..(m - 1) /\ a \div m \in Int /\ a = m * (a \div m) + (a % m)
OBVIOUS

(* A multiple of m closer to 0 than m is 0. *)
LEMMA SmallMultiple ==
    ASSUME NEW m \in Nat \ {0}, NEW k \in Int, NEW d \in Int,
           d = m * k, -m < d, d < m
    PROVE  d = 0
<1>1. CASE k >= 1
  <2>1. m * k >= m BY <1>1
  <2>2. QED BY <2>1
<1>2. CASE k <= -1
  <2>1. m * k <= -m BY <1>2
  <2>2. QED BY <2>1
<1>3. CASE k = 0
  <2>1. m * k = 0 BY <1>3
  <2>2. QED BY <2>1
<1>4. QED BY <1>1, <1>2, <1>3

(* The remainder is unique. *)
LEMMA ModUnique ==
    ASSUME NEW a \in Int, NEW m \in Nat \ {0}, NEW q \in Int, NEW r \in 0..(m - 1),
           a = m * q + r
    PROVE  a % m = r
<1> DEFINE k == q - (a \div m)
           d == (a % m) - r
<1>1. a % m \in 0..(m - 1) /\ a \div m \in Int /\ a = m * (a \div m) + (a % m) BY DivMod, SMTT(30)
<1>2. (a % m) - r = m * (q - (a \div m)) BY <1>1
<1>3. k \in Int /\ d \in Int /\ d = m * k /\ -m < d /\ d < m BY <1>1, <1>2
<1> HIDE DEF k, d
<1>4. d = 0 BY <1>3, SmallMultiple
<1>5. QED BY <1>4, <1>1 DEF d

(* So is the quotient. *)
LEMMA DivUnique ==
    ASSUME NEW a \in Int, NEW m \in Nat \ {0}, NEW q \in Int, NEW r \in 0..(m - 1),
           a = m * q + r
    PROVE  a \div m = q
<1> DEFINE k == q - (a \div m)
<1>1. a \div m \in Int /\ a = m * (a \div m) + (a % m) /\ a % m = r BY DivMod, ModUnique
<1>2. k \in Int /\ m * q = m * (a \div m) BY <1>1
<1>3. m * k = 0 BY <1>1, <1>2
<1>4. k = 0
  <2> HIDE DEF k
  <2>1. CASE k >= 1
    <3>1. m * k >= m BY <1>2, <2>1
    <3>2. QED BY <3>1, <1>3
  <2>2. CASE k <= -1
    <3>1. m * k <= -m BY <1>2, <2>2
    <3>2. QED BY <3>1, <1>3
  <2>3. QED BY <1>2, <2>1, <2>2
<1>5. QED BY <1>1, <1>4

(* Multiplication by a number that is not negative keeps the order. *)
LEMMA TimesKeepsOrder ==
    ASSUME NEW a \in Int, NEW b \in Int, NEW m \in Nat, a <= b
    PROVE  a * m <= b * m
<1>1. (b - a) * m >= 0 OBVIOUS
<1>2. (b - a) * m = b * m - a * m OBVIOUS
<1>3. QED BY <1>1, <1>2


-----------------------------------------------------------------------------
(* The invariant of the loop's timers.                                     *)

Slot == [open : BOOLEAN, gen : Nat, fn : BOOLEAN, kind : Kinds, armed : BOOLEAN]
Entry == [deadline : Nat \ {0}, gen : Nat, conn : Conns]
Places == (0 .. Slots - 1) \cup {Off}
Timers == [wheel : [Conns -> Places], cursor : 0 .. Slots - 1, heap : Seq(Entry),
           armed : Nat, tfd : Nat]

TypeOK ==
    /\ conn \in [Conns -> Slot] /\ now \in Nat \ {0}
    /\ due \in [Conns -> Nat] /\ seen \in [Conns -> Nat]

\* The ticks: the wheel is at most MaxTicks behind the clock.
TicksOK ==
    /\ ticks \in Nat /\ batch \in [handler : BOOLEAN, ticks : Nat]
    /\ ticks + batch.ticks <= MaxTicks
    /\ mode \in {"loop", "heap", "tick"} /\ (mode = "tick" => batch.ticks > 0)

\* The heap is one, of at most one entry for each connection.
HeapOK(h) == Holds(h, ToSet(h)) /\ ToSet(h) \subseteq Entry /\ OnePerConn(ToSet(h))

\* The kernel's timer is set to what the loop last asked for, unless it has expired and
\* the expiration is still to be served (b).
Top(h) == IF h = <<>> THEN 0 ELSE h[1].deadline
FdOK(t, b) == t.tfd = t.armed \/ (t.tfd = 0 /\ t.armed <= now /\ b)
Sound(t, b) == t \in Timers /\ HeapOK(t.heap) /\ FdOK(t, b)

\* Outside a drain the loop has asked for the earliest deadline.
Unserved == batch.handler \/ mode = "heap"
Synced(t) == mode # "heap" => t.armed = Top(t.heap)

\* A slot's flags, its place w on the wheel, its entries E in the heap and its deadline d:
\* a closed slot has neither, an open one has one of the two, and an entry belongs to the
\* wait under way.
Of(c, t) == { e \in ToSet(t.heap) : e.conn = c }
FlagsOK(r, w, E, d) ==
    /\ ~r.open => w = Off /\ ~r.fn /\ E = {}
    /\ r.open => (w = Off <=> E # {})
    /\ E # {} => r.armed
    /\ r.armed => r.fn /\ r.kind # "Recv"
    /\ r.fn /\ r.kind = "Timer" => r.armed
    /\ \A e \in E : e.gen = r.gen /\ e.deadline = d

\* How many ticks are left until the wheel comes to slot s, and how many it has done.
Left(s, cur) == IF s >= cur THEN s - cur ELSE s - cur + Slots
Done == (now \div Second) - ticks - batch.ticks

\* What is on the wheel, a handler that sleeps or an idle connection, is reached at most
\* MaxTicks ticks too soon.
Until(r, d, s) == IF r.armed THEN d ELSE s + KeepAlive * Second
OnTime(r, w, d, s) ==
    w # Off => Until(r, d, s) < (Left(w, tm.cursor) + Done + MaxTicks + 1) * Second

SlotOK(c) ==
    /\ FlagsOK(conn[c], tm.wheel[c], Of(c, tm), due[c])
    /\ OnTime(conn[c], tm.wheel[c], due[c], seen[c])

\* The inductive invariant.
IInv ==
    /\ TypeOK /\ TicksOK /\ early = {} /\ Sound(tm, Unserved) /\ Synced(tm)
    /\ \A c \in Conns : SlotOK(c)

-----------------------------------------------------------------------------
(* The operations on the timers.                                           *)

\* What a heap of the entries E is.
LEMMA HeapIs ==
    ASSUME NEW E \in SUBSET Entry, OnePerConn(E), NEW h, Holds(h, E)
    PROVE  HeapOK(h) /\ h \in Seq(Entry) /\ ToSet(h) = E
<1>1. h \in Seq(E) /\ \A e \in E : \E i \in 1 .. Len(h) : h[i] = e
  BY Zenon DEF Holds, Lists
<1>2. h \in Seq(Entry) /\ DOMAIN h = 1 .. Len(h) /\ \A i \in 1 .. Len(h) : h[i] \in E
  BY <1>1
<1>3. ToSet(h) = E
  BY <1>1, <1>2, Zenon DEF ToSet
<1> QED BY <1>2, <1>3, Zenon DEF HeapOK

\* Its entries have deadlines, so that the top of a heap is 0 only when there is none.
LEMMA TopIs ==
    ASSUME NEW h, HeapOK(h)
    PROVE  /\ Timed(ToSet(h)) /\ Top(h) \in Nat /\ (Top(h) = 0 <=> h = <<>>)
           /\ h # <<>> => Len(h) # 0 /\ h[1] \in ToSet(h)
<1>1. h \in Seq(ToSet(h)) /\ ToSet(h) \subseteq Entry
  BY Zenon DEF HeapOK, Holds, Lists
<1>2. \A e \in ToSet(h) : e.deadline \in Nat \ {0}
  BY <1>1 DEF Entry
<1>3. Timed(ToSet(h))
  BY <1>2 DEF Timed
<1>4. h # <<>> => Len(h) # 0 /\ h[1] \in ToSet(h)
  <2> DEFINE E == ToSet(h)
  <2>1. h \in Seq(E)
    BY <1>1
  <2> HIDE DEF E
  <2>2. h # <<>> => Len(h) # 0 /\ h[1] \in E
    BY <2>1
  <2> QED BY <2>2 DEF E
<1>5. Top(h) \in Nat /\ (Top(h) = 0 <=> h = <<>>)
  <2>1. CASE h = <<>>
    BY <2>1 DEF Top
  <2>2. CASE h # <<>>
    <3>1. h[1].deadline \in Nat \ {0}
      BY <1>2, <1>4, <2>2, Zenon
    <3> QED BY <2>2, <3>1 DEF Top
  <2> QED BY <2>1, <2>2
<1> QED BY <1>3, <1>4, <1>5, Zenon

\* rearm_yield_timerfd sets the kernel's timer to the top, and changes nothing else.
Rearmed(u, t, b) ==
    /\ Sound(u, b) /\ u.armed = Top(u.heap)
    /\ u.wheel = t.wheel /\ u.cursor = t.cursor /\ u.heap = t.heap
LEMMA RearmIs ==
    ASSUME NEW t, NEW b, Sound(t, b), NEW u, u = Rearm(t)
    PROVE  Rearmed(u, t, b)
<1>0. t \in Timers /\ HeapOK(t.heap) /\ FdOK(t, b)
  BY Zenon DEF Sound
<1>1. PICK top \in Nat : top = Top(t.heap)
  BY <1>0, TopIs, Zenon
<1>2. u = IF top = t.armed THEN t ELSE [t EXCEPT !.armed = top, !.tfd = top]
  BY <1>1, Zenon DEF Rearm, Top
<1>3. CASE top = t.armed
  BY <1>1, <1>2, <1>3, Zenon DEF Rearmed
<1>4. CASE top # t.armed
  <2>1. u = [t EXCEPT !.armed = top, !.tfd = top]
    BY <1>2, <1>4, Zenon
  <2>2. /\ u \in Timers /\ u.armed = top /\ u.tfd = top
        /\ u.wheel = t.wheel /\ u.cursor = t.cursor /\ u.heap = t.heap
    BY <1>0, <2>1, Zenon DEF Timers
  <2> QED BY <1>0, <1>1, <2>2, Zenon DEF Sound, FdOK, Rearmed
<1> QED BY <1>3, <1>4, Zenon

-----------------------------------------------------------------------------
(* Arithmetic of the wheel. *)

(* What is put k ticks ahead is k ticks ahead. *)
LEMMA AddedAhead ==
    ASSUME NEW cur \in 0 .. Slots - 1, NEW k \in 0 .. Slots - 1
    PROVE  (cur + k) % Slots \in 0 .. Slots - 1 /\ Left((cur + k) % Slots, cur) = k
<1> USE WheelAssumption
<1>1. CASE cur + k < Slots
  <2>1. (cur + k) % Slots = cur + k BY <1>1, ModUnique, cur + k = Slots * 0 + (cur + k)
  <2>2. QED BY <2>1, <1>1 DEF Left
<1>2. CASE cur + k >= Slots
  <2>1. (cur + k) % Slots = cur + k - Slots
    BY <1>2, ModUnique, cur + k = Slots * 1 + (cur + k - Slots)
  <2>2. QED BY <2>1, <1>2 DEF Left
<1>3. QED BY <1>1, <1>2

(* The slot under the cursor is the one with no tick left. *)
LEMMA ExpiringNow ==
    ASSUME NEW cur \in 0 .. Slots - 1, NEW w \in [Conns -> Places],
           NEW c \in Conns
    PROVE  Expiring(w, cur, c) <=> w[c] = cur
<1>1. cur % Slots = cur BY WheelAssumption, ModUnique, cur = Slots * 0 + cur
<1>2. QED BY <1>1 DEF Expiring, Places

(* A tick leaves one tick less for every slot but the one it ran. *)
LEMMA TickedOnce ==
    ASSUME NEW cur \in 0 .. Slots - 1, NEW s \in 0 .. Slots - 1, s # cur
    PROVE  NextSlot(cur) \in 0 .. Slots - 1 /\ Left(s, NextSlot(cur)) = Left(s, cur) - 1
<1> USE WheelAssumption
<1>1. CASE cur + 1 < Slots
  <2>1. (cur + 1) % Slots = cur + 1 BY <1>1, ModUnique, cur + 1 = Slots * 0 + (cur + 1)
  <2>2. QED BY <2>1 DEF Left, NextSlot
<1>2. CASE cur + 1 = Slots
  <2>1. (cur + 1) % Slots = 0 BY <1>2, ModUnique, cur + 1 = Slots * 1 + 0
  <2>2. QED BY <2>1, <1>2 DEF Left, NextSlot
<1>3. QED BY <1>1, <1>2

(* The cursor stays on the wheel. *)
LEMMA NextSlotType ==
    ASSUME NEW cur \in 0 .. Slots - 1
    PROVE  NextSlot(cur) \in 0 .. Slots - 1
BY DivMod, WheelAssumption DEF NextSlot

(* The ticks of the clock: one is due whenever a second begins. *)
LEMMA ClockTicks ==
    ASSUME NEW t \in Nat
    PROVE  /\ t \div Second \in Int
           /\ (t \div Second) * Second <= t /\ t < ((t \div Second) + 1) * Second
           /\ ((t + 1) \div Second) = (t \div Second) + (IF (t + 1) % Second = 0 THEN 1 ELSE 0)
<1> DEFINE q == t \div Second
           r == t % Second
<1>1. Second \in Nat \ {0} BY WheelAssumption
<1>2. r \in 0 .. Second - 1 /\ q \in Int /\ t = Second * q + r BY <1>1, DivMod
<1> HIDE DEF q, r
<1>3. q * Second <= t /\ t < (q + 1) * Second
  <2>1. q * Second = Second * q /\ (q + 1) * Second = Second * q + Second BY <1>1, <1>2
  <2>2. QED BY <1>1, <1>2, <2>1
<1>4. CASE r + 1 < Second
  <2>1. t + 1 = Second * q + (r + 1) BY <1>1, <1>2
  <2>2. (t + 1) \div Second = q /\ (t + 1) % Second = r + 1
    BY <1>1, <1>2, <1>4, <2>1, DivUnique, ModUnique
  <2>3. QED BY <1>2, <1>3, <1>4, <2>2 DEF q
<1>5. CASE r + 1 = Second
  <2>1. t + 1 = Second * (q + 1) + 0 BY <1>1, <1>2, <1>5
  <2>2. (t + 1) \div Second = q + 1 /\ (t + 1) % Second = 0
    BY <1>1, <1>2, <2>1, DivUnique, ModUnique
  <2>3. QED BY <1>2, <1>3, <2>2 DEF q
<1>6. QED BY <1>1, <1>2, <1>4, <1>5

(* timer_seconds_from_ms rounds up. *)
LEMMA SecondsRoundUp ==
    ASSUME NEW ms \in Nat \ {0}
    PROVE  WheelSeconds(ms) \in Nat /\ ms <= WheelSeconds(ms) * Second
<1> DEFINE a == ms + Second - 1
           k == a \div Second
<1>1. Second \in Nat \ {0} /\ a \in Nat BY WheelAssumption
<1>2. a % Second \in 0 .. Second - 1 /\ k \in Int /\ a = Second * k + (a % Second)
  BY <1>1, DivMod
<1> HIDE DEF k
<1>3. ms <= Second * k BY <1>1, <1>2
<1>4. k \in Nat
  <2>1. CASE k <= 0 /\ k # 0
    <3>1. k * Second <= 0 * Second BY <1>1, <1>2, <2>1, TimesKeepsOrder
    <3>2. QED BY <1>1, <1>2, <1>3, <3>1
  <2>2. QED BY <1>2, <2>1
<1>5. QED BY <1>1, <1>2, <1>3, <1>4 DEF k, WheelSeconds


-----------------------------------------------------------------------------
(* More operations on the timers.                                          *)

\* The timers u differ from t in the place of c on the wheel at most.
Kept(u, t, c) ==
    u.cursor = t.cursor /\ \A d \in Conns \ {c} : u.wheel[d] = t.wheel[d]

\* The entries of the heap, the timerfd and what the loop asked of it are the same.
SameHeap(u, t) == u.heap = t.heap /\ u.armed = t.armed /\ u.tfd = t.tfd

\* What the timers u are after t, when c is put in place p of the wheel, and when the heap
\* is made one of the entries E.
Moves(u, t, b, c, p) == Sound(u, b) /\ Kept(u, t, c) /\ SameHeap(u, t) /\ u.wheel[c] = p
OnTheWheel(u, t, b, c, secs) ==
    Moves(u, t, b, c, u.wheel[c]) /\ u.wheel[c] # Off /\ Left(u.wheel[c], t.cursor) = secs
Refills(u, t, b, E) ==
    /\ Sound(u, b) /\ u.wheel = t.wheel /\ u.cursor = t.cursor
    /\ u.armed = t.armed /\ ToSet(u.heap) = E

\* A connection's place on the wheel is changed; the heap is replaced.
Placed(u, t, c, p) == u = [t EXCEPT !.wheel = [t.wheel EXCEPT ![c] = p]]
Reheaped(u, t, h) == u = [t EXCEPT !.heap = h]

LEMMA PlacedIs ==
    ASSUME NEW t, NEW b, Sound(t, b), NEW c \in Conns, NEW p \in Places,
           NEW u, Placed(u, t, c, p)
    PROVE  Moves(u, t, b, c, p)
<1>1. t \in Timers
  BY Zenon DEF Sound
<1>2. t.wheel \in [Conns -> Places]
  BY <1>1, Zenon DEF Timers
<1>3. PICK w : w = [t.wheel EXCEPT ![c] = p]
  BY Zenon
<1>4. w \in [Conns -> Places] /\ w[c] = p /\ \A d \in Conns \ {c} : w[d] = t.wheel[d]
  BY <1>2, <1>3
<1>5. u = [t EXCEPT !.wheel = w]
  BY <1>3, Zenon DEF Placed
<1>6. u \in Timers /\ u.wheel = w /\ u.cursor = t.cursor /\ SameHeap(u, t)
  BY <1>1, <1>4, <1>5, Zenon DEF Timers, SameHeap
<1> QED BY <1>4, <1>6, Zenon DEF Sound, Kept, SameHeap, FdOK, Moves

LEMMA OffWheelIs ==
    ASSUME NEW t, NEW b, Sound(t, b), NEW c \in Conns, NEW u, u = OffWheel(t, c)
    PROVE  Moves(u, t, b, c, Off)
<1>1. Placed(u, t, c, Off)
  BY Zenon DEF OffWheel, WheelRemove, Placed
<1>2. Off \in Places
  BY Zenon DEF Places
<1> QED BY <1>1, <1>2, PlacedIs, Zenon

LEMMA OnWheelIs ==
    ASSUME NEW t, NEW b, Sound(t, b), NEW c \in Conns, NEW secs \in 0 .. Slots - 1,
           NEW u, u = OnWheel(t, c, secs)
    PROVE  OnTheWheel(u, t, b, c, secs)
<1>1. t.wheel \in [Conns -> Places] /\ t.cursor \in 0 .. Slots - 1
  BY Zenon DEF Sound, Timers
<1>2. PICK p : p = (t.cursor + secs) % Slots
  OBVIOUS
<1>3. p \in 0 .. Slots - 1 /\ Left(p, t.cursor) = secs
  BY <1>1, <1>2, AddedAhead
<1>4. p \in Places /\ p # Off
  BY <1>3, WheelAssumption, Zenon DEF Places
<1>5. [[t.wheel EXCEPT ![c] = Off] EXCEPT ![c] = p] = [t.wheel EXCEPT ![c] = p]
  BY <1>1
<1>6. Placed(u, t, c, p)
  BY <1>2, <1>5, Zenon DEF OnWheel, WheelRefresh, WheelAdd, WheelRemove, Placed
<1>7. Moves(u, t, b, c, p)
  BY <1>4, <1>6, PlacedIs, Zenon
<1> QED BY <1>3, <1>4, <1>7, Zenon DEF Moves, OnTheWheel

LEMMA ReheapedIs ==
    ASSUME NEW t, NEW b, Sound(t, b), NEW E \in SUBSET Entry, OnePerConn(E), NEW h, Holds(h, E),
           NEW u, Reheaped(u, t, h)
    PROVE  Refills(u, t, b, E) /\ u.heap = h
<1>1. HeapOK(h) /\ h \in Seq(Entry) /\ ToSet(h) = E
  BY HeapIs, Zenon
<1>2. t \in Timers
  BY Zenon DEF Sound
<1>3. /\ u \in Timers /\ u.wheel = t.wheel /\ u.cursor = t.cursor /\ u.heap = h
      /\ u.armed = t.armed /\ u.tfd = t.tfd
  BY <1>1, <1>2, Zenon DEF Timers, Reheaped
<1> QED BY <1>1, <1>3, Zenon DEF Sound, FdOK, Refills

\* pop.
LEMMA PopIs ==
    ASSUME NEW t, NEW b, Sound(t, b), t.heap # <<>>, NEW u, u = [t EXCEPT !.heap = Pop(@)]
    PROVE  Refills(u, t, b, ToSet(t.heap) \ {t.heap[1]})
<1> DEFINE E == ToSet(t.heap)
           D == E \ {t.heap[1]}
<1>1. HeapOK(t.heap)
  BY Zenon DEF Sound
<1>2. Timed(E) /\ Holds(t.heap, E) /\ Len(t.heap) # 0 /\ OnePerConn(E) /\ E \subseteq Entry
  BY <1>1, TopIs, Zenon DEF HeapOK
<1> HIDE DEF E
<1>3. Holds(Pop(t.heap), D)
  BY <1>2, PopOK, Zenon
<1>4. D \in SUBSET Entry /\ OnePerConn(D)
  BY <1>2, Zenon DEF OnePerConn
<1>5. Reheaped(u, t, Pop(t.heap))
  BY Zenon DEF Reheaped
<1> HIDE DEF D
<1>6. Refills(u, t, b, D)
  BY <1>3, <1>4, <1>5, ReheapedIs, Zenon
<1> QED BY <1>6, Zenon DEF D, E

\* remove_by_conn, and the timerfd set to what is then the top.
Purged(u, t, b, E) ==
    /\ Sound(u, b) /\ u.wheel = t.wheel /\ u.cursor = t.cursor /\ ToSet(u.heap) = E
    /\ t.armed = Top(t.heap) => u.armed = Top(u.heap)
LEMMA WithoutEntryIs ==
    ASSUME NEW t, NEW b, Sound(t, b), NEW c, NEW u, u = WithoutEntry(t, c)
    PROVE  Purged(u, t, b, {e \in ToSet(t.heap) : e.conn # c})
<1> DEFINE E == ToSet(t.heap)
           D == {e \in E : e.conn # c}
<1>1. PICK h : h = RemoveByConn(t.heap, c)
  BY Zenon
<1>2. PICK v : Reheaped(v, t, h)
  BY Zenon DEF Reheaped
<1>3. u = IF h = t.heap THEN t ELSE Rearm(v)
  BY <1>1, <1>2, Zenon DEF WithoutEntry, Reheaped
<1>4. Timed(E) /\ Holds(t.heap, E) /\ OnePerConn(E) /\ E \subseteq Entry
  BY TopIs, Zenon DEF HeapOK, Sound
<1> HIDE DEF E
<1>5. Holds(h, D)
  BY <1>1, <1>4, RemoveOK, Zenon
<1>6. D \in SUBSET Entry /\ OnePerConn(D)
  BY <1>4, Zenon DEF OnePerConn
<1> HIDE DEF D
<1>7. Refills(v, t, b, D) /\ v.heap = h
  BY <1>2, <1>5, <1>6, ReheapedIs, Zenon
<1>8. CASE h = t.heap
  <2>1. u = t
    BY <1>3, <1>8, Zenon
  <2>2. ToSet(t.heap) = D
    BY <1>7, <1>8, Zenon DEF Refills
  <2> QED BY <2>1, <2>2, Zenon DEF Purged, D, E
<1>9. CASE h # t.heap
  <2>1. Rearmed(u, v, b)
    BY <1>3, <1>7, <1>9, RearmIs, Zenon DEF Refills
  <2> QED BY <1>7, <2>1, Zenon DEF Purged, Rearmed, Refills, D, E
<1> QED BY <1>8, <1>9, Zenon

\* schedule_yield_timer: the wait is in the heap or, when that is full, on the wheel.
InHeap(u, t, b, c, e) ==
    /\ Sound(u, b) /\ Kept(u, t, c) /\ u.wheel[c] = Off /\ u.armed = Top(u.heap)
    /\ ToSet(u.heap) = ToSet(t.heap) \cup {e}

\* Taken off the wheel and put on it again.
LEMMA PutBack ==
    ASSUME NEW t, NEW v, NEW u, NEW b, NEW c, NEW p, Moves(v, t, b, c, p),
           NEW secs, OnTheWheel(u, v, b, c, secs)
    PROVE  OnTheWheel(u, t, b, c, secs)
BY Zenon DEF OnTheWheel, Moves, Kept, SameHeap

LEMMA ScheduledIs ==
    ASSUME now \in Nat \ {0}, NEW t, NEW b, Sound(t, b), NEW c \in Conns, Of(c, t) = {}, NEW gen \in Nat,
           NEW ms \in Waits, Schedulable(t, ms), NEW u, u = Scheduled(t, c, gen, ms)
    PROVE  \/ InHeap(u, t, b, c, [deadline |-> now + ms, gen |-> gen, conn |-> c])
           \/ OnTheWheel(u, t, b, c, WheelSeconds(ms)) /\ WheelSeconds(ms) \in 0 .. Slots - 1
<1>0. PICK off : off = OffWheel(t, c)
  BY Zenon
<1>1. Moves(off, t, b, c, Off)
  BY <1>0, OffWheelIs, Zenon
<1>2. ms \in Nat \ {0}
  BY WheelAssumption
<1>3. CASE HeapHolds(t)
  <2>1. PICK e : e = [deadline |-> now + ms, gen |-> gen, conn |-> c]
    BY Zenon
  <2>2. e \in Entry /\ e.conn = c
    BY <1>2, <2>1 DEF Entry
  <2>3. PICK v : Reheaped(v, off, Push(off.heap, e))
    BY Zenon DEF Reheaped
  <2>4. u = Rearm(v)
    BY <1>0, <1>3, <2>1, <2>3, Zenon DEF Scheduled, Reheaped
  <2> DEFINE E == ToSet(t.heap)
             D == E \cup {e}
  <2>5. Timed(E) /\ Holds(t.heap, E) /\ OnePerConn(E) /\ E \subseteq Entry
    BY TopIs, Zenon DEF HeapOK, Sound
  <2>6. \A x \in E : x.conn # c
    BY Zenon DEF Of
  <2> HIDE DEF E
  <2>7. D \in SUBSET Entry /\ OnePerConn(D) /\ e \notin E
    BY <2>2, <2>5, <2>6, Zenon DEF OnePerConn
  <2>8. Timed(D)
    <3>1. e.deadline \in Int
      BY <2>2 DEF Entry
    <3> QED BY <2>5, <3>1, Zenon DEF Timed
  <2>9. Holds(Push(t.heap, e), D)
    BY <2>5, <2>7, <2>8, PushOK, Zenon
  <2> HIDE DEF D
  <2>10. off.heap = t.heap /\ Sound(off, b)
    BY <1>1, Zenon DEF Moves, SameHeap
  <2>11. Refills(v, off, b, D)
    BY <2>3, <2>7, <2>9, <2>10, ReheapedIs, Zenon
  <2>12. Rearmed(u, v, b)
    BY <2>4, <2>11, RearmIs, Zenon DEF Refills
  <2>13. InHeap(u, t, b, c, e)
    <3>1. Sound(u, b) /\ u.wheel = off.wheel /\ u.cursor = off.cursor /\ u.armed = Top(u.heap) /\ ToSet(u.heap) = D
      BY <2>11, <2>12, Zenon DEF Rearmed, Refills
    <3>2. Kept(u, t, c) /\ u.wheel[c] = Off
      BY <1>1, <3>1, Zenon DEF Moves, Kept
    <3> QED BY <3>1, <3>2, Zenon DEF InHeap, D, E
  <2> QED BY <2>1, <2>13, Zenon
<1>4. CASE ~HeapHolds(t)
  <2>1. WheelSeconds(ms) \in 0 .. Slots - 1
    <3>1. WheelSeconds(ms) < Slots /\ WheelSeconds(ms) \in Nat
      BY <1>2, <1>4, SecondsRoundUp DEF Schedulable
    <3> QED BY <3>1, WheelAssumption
  <2>2. PICK secs \in 0 .. Slots - 1 : secs = WheelSeconds(ms)
    BY <2>1, Zenon
  <2>3. u = OnWheel(off, c, secs)
    BY <1>0, <1>4, <2>2, Zenon DEF Scheduled
  <2>4. OnTheWheel(u, off, b, c, secs)
    BY <1>1, <2>3, OnWheelIs, Zenon DEF Moves
  <2>5. OnTheWheel(u, t, b, c, secs)
    BY <1>1, <2>4, PutBack, Zenon
  <2> QED BY <2>2, <2>5, Zenon
<1> QED BY <1>3, <1>4

-----------------------------------------------------------------------------
(* A step that is about one slot.                                          *)

\* What is put secs ahead is reached no more than MaxTicks ticks before its time.
LEMMA Ahead ==
    ASSUME TypeOK, TicksOK, NEW secs \in Nat, NEW d \in Nat, d <= secs * Second
    PROVE  now + d < (secs + Done + MaxTicks + 1) * Second
<1> DEFINE f == now \div Second
           a == f + 1 + secs
           b == secs + (f - ticks - batch.ticks) + MaxTicks + 1
<1>0. now \in Nat /\ ticks \in Nat /\ batch.ticks \in Nat /\ ticks + batch.ticks <= MaxTicks
  BY DEF TypeOK, TicksOK
<1>1. f \in Int /\ now < (f + 1) * Second
  BY <1>0, ClockTicks
<1>2. secs + Done + MaxTicks + 1 = b
  BY DEF Done
<1> HIDE DEF f
<1>3. MaxTicks \in Int /\ Second \in Nat
  BY WheelAssumption
<1>4. a \in Int /\ b \in Int /\ a <= b
  BY <1>0, <1>1, <1>3
<1>5. a * Second = (f + 1) * Second + secs * Second
  BY <1>1, <1>3
<1> HIDE DEF a, b
<1>6. a * Second <= b * Second
  BY <1>3, <1>4, TimesKeepsOrder
<1>7. (f + 1) * Second \in Int /\ secs * Second \in Int /\ a * Second \in Int /\ b * Second \in Int
  BY <1>1, <1>3, <1>4
<1>8. now + d < b * Second
  BY <1>0, <1>1, <1>5, <1>6, <1>7
<1> QED BY <1>2, <1>8

\* What the wheel has reached is at most MaxTicks ticks early.
LEMMA Reached ==
    ASSUME TypeOK, TicksOK, batch.ticks > 0, NEW d \in Int, d < (0 + Done + MaxTicks + 1) * Second
    PROVE  d < now + MaxTicks * Second
<1> DEFINE f == now \div Second
           a == 0 + (f - ticks - batch.ticks) + MaxTicks + 1
           b == f + MaxTicks
<1>0. now \in Nat /\ ticks \in Nat /\ batch.ticks \in Nat /\ ticks + batch.ticks <= MaxTicks
  BY DEF TypeOK, TicksOK
<1>1. f \in Int /\ f * Second <= now
  BY <1>0, ClockTicks
<1>2. 0 + Done + MaxTicks + 1 = a
  BY DEF Done
<1> HIDE DEF f
<1>3. MaxTicks \in Int /\ Second \in Nat
  BY WheelAssumption
<1>4. a \in Int /\ b \in Int /\ a <= b
  BY <1>0, <1>1, <1>3
<1>5. b * Second = f * Second + MaxTicks * Second
  BY <1>1, <1>3
<1>6. d < a * Second
  BY <1>2
<1> HIDE DEF a, b
<1>7. a * Second <= b * Second
  BY <1>3, <1>4, TimesKeepsOrder
<1>8. f * Second \in Int /\ MaxTicks * Second \in Int /\ a * Second \in Int /\ b * Second \in Int
  BY <1>1, <1>3, <1>4
<1> QED BY <1>0, <1>1, <1>5, <1>6, <1>7, <1>8

\* The step leaves the other slots alone.
Touches(c) ==
    /\ conn' \in [Conns -> Slot] /\ due' \in [Conns -> Nat] /\ seen' \in [Conns -> Nat]
    /\ Kept(tm', tm, c)
    /\ \A d \in Conns \ {c} :
         /\ conn'[d] = conn[d] /\ due'[d] = due[d] /\ seen'[d] = seen[d]
         /\ Of(d, tm') = Of(d, tm)

\* It keeps the invariant if it keeps what the invariant says of this slot.
LEMMA SlotStep ==
    ASSUME IInv, NEW c \in Conns, Touches(c), SlotOK(c)', early' = {},
           Sound(tm', Unserved), Synced(tm'), UNCHANGED <<now, ticks, batch, mode>>
    PROVE  IInv'
<1>1. TypeOK'
  BY Zenon DEF IInv, TypeOK, Touches
<1>2. TicksOK'
  BY Zenon DEF IInv, TicksOK
<1>3. Sound(tm, Unserved)'
  <2>1. now' = now /\ Unserved' = Unserved
    BY Zenon DEF Unserved
  <2> QED BY <2>1, Zenon DEF Sound, FdOK
<1>4. Synced(tm)'
  BY Zenon DEF Synced
<1>5. Done' = Done
  BY Zenon DEF Done
<1>6. ASSUME NEW d \in Conns \ {c} PROVE SlotOK(d)'
  <2>1. /\ conn'[d] = conn[d] /\ tm'.wheel[d] = tm.wheel[d] /\ due'[d] = due[d] /\ seen'[d] = seen[d]
        /\ Of(d, tm') = Of(d, tm) /\ tm'.cursor = tm.cursor
    BY Zenon DEF Touches, Kept
  <2>2. SlotOK(d)
    BY Zenon DEF IInv
  <2>3. FlagsOK(conn[d], tm.wheel[d], Of(d, tm), due[d])'
    <3>1. FlagsOK(conn'[d], tm'.wheel[d], Of(d, tm'), due'[d])
      BY <2>1, <2>2, Zenon DEF SlotOK
    <3> QED BY <3>1, Zenon DEF FlagsOK, Of
  <2>4. OnTime(conn[d], tm.wheel[d], due[d], seen[d])'
    BY <1>5, <2>1, <2>2, Zenon DEF SlotOK, OnTime, Until
  <2> QED BY <2>3, <2>4, Zenon DEF SlotOK
<1> QED BY <1>1, <1>2, <1>3, <1>4, <1>6, Zenon DEF IInv

\* The timers v when the wait of slot c is over: it has no entry.  Put on the wheel for the
\* keepalive they are the timers t of a handler that is about to run.
Over(c, v) ==
    /\ Sound(v, Unserved) /\ Synced(v) /\ Kept(v, tm, c) /\ Of(c, v) = {}
    /\ \A d \in Conns \ {c} : Of(d, v) = Of(d, tm)
Ready(c, t) == Over(c, t) /\ t.wheel[c] # Off /\ Left(t.wheel[c], t.cursor) = KeepAlive

\* Timers with the same heap that differ in the place of c only.
LEMMA OverMoves ==
    ASSUME NEW c \in Conns, NEW v, Over(c, v), NEW u, NEW p, Moves(u, v, Unserved, c, p)
    PROVE  Over(c, u) /\ u.cursor = v.cursor
<1>1. u.heap = v.heap /\ u.armed = v.armed /\ Sound(u, Unserved) /\ Kept(u, v, c)
  BY Zenon DEF Moves, SameHeap
<1>2. Synced(u)
  BY <1>1, Zenon DEF Over, Synced
<1>3. Kept(u, tm, c)
  BY <1>1, Zenon DEF Over, Kept
<1>4. \A d : Of(d, u) = Of(d, v)
  BY <1>1, Zenon DEF Of
<1> QED BY <1>1, <1>2, <1>3, <1>4, Zenon DEF Over, Kept

LEMMA OverReady ==
    ASSUME NEW c \in Conns, NEW v, Over(c, v), NEW t, t = OnWheel(v, c, KeepAlive)
    PROVE  Ready(c, t)
<1>0. KeepAlive \in 0 .. Slots - 1
  BY WheelAssumption
<1>1. Sound(v, Unserved)
  BY Zenon DEF Over
<1>2. OnTheWheel(t, v, Unserved, c, KeepAlive)
  BY <1>0, <1>1, OnWheelIs, Zenon
<1>3. Over(c, t) /\ t.cursor = v.cursor
  BY <1>2, OverMoves, Zenon DEF OnTheWheel
<1> QED BY <1>2, <1>3, Zenon DEF Ready, OnTheWheel

\* A handler that answers or waits for an event leaves the slot on the wheel.
LEMMA StaysKeeps ==
    ASSUME IInv, NEW c \in Conns, NEW q \in Slot, q.open, ~q.armed, ~(q.fn /\ q.kind = "Timer"),
           Ready(c, tm'), conn' = [conn EXCEPT ![c] = q], due' = [due EXCEPT ![c] = 0],
           seen' = [seen EXCEPT ![c] = now], early' = {}, UNCHANGED <<now, ticks, batch, mode>>
    PROVE  IInv'
<1>0. TypeOK /\ TicksOK
  BY Zenon DEF IInv
<1>1. conn \in [Conns -> Slot] /\ due \in [Conns -> Nat] /\ seen \in [Conns -> Nat] /\ now \in Nat
  BY <1>0 DEF TypeOK
<1>2. /\ conn' \in [Conns -> Slot] /\ due' \in [Conns -> Nat] /\ seen' \in [Conns -> Nat]
      /\ conn'[c] = q /\ due'[c] = 0 /\ seen'[c] = now
      /\ \A d \in Conns \ {c} : conn'[d] = conn[d] /\ due'[d] = due[d] /\ seen'[d] = seen[d]
  BY <1>1
<1>3. Touches(c)
  BY <1>2, Zenon DEF Touches, Ready, Over
<1>4. FlagsOK(conn[c], tm.wheel[c], Of(c, tm), due[c])'
  <2>1. FlagsOK(q, tm'.wheel[c], Of(c, tm'), 0)
    BY Zenon DEF FlagsOK, Ready, Over
  <2>2. FlagsOK(conn'[c], tm'.wheel[c], Of(c, tm'), due'[c])
    BY <1>2, <2>1, Zenon
  <2> QED BY <2>2, Zenon DEF FlagsOK, Of
<1>5. OnTime(conn[c], tm.wheel[c], due[c], seen[c])'
  <2>1. KeepAlive \in Nat /\ KeepAlive * Second \in Nat /\ KeepAlive * Second <= KeepAlive * Second
    BY WheelAssumption
  <2>2. now + KeepAlive * Second < (KeepAlive + Done + MaxTicks + 1) * Second
    BY <1>0, <2>1, Ahead, Zenon
  <2>3. Done' = Done
    BY Zenon DEF Done
  <2>4. Left(tm'.wheel[c], tm'.cursor) = KeepAlive
    BY Zenon DEF Ready
  <2> QED BY <1>2, <2>2, <2>3, <2>4, Zenon DEF OnTime, Until
<1>6. SlotOK(c)'
  BY <1>4, <1>5, Zenon DEF SlotOK
<1> QED BY <1>3, <1>6, SlotStep, Zenon DEF Ready, Over

\* A handler that sleeps has its entry or, when the heap is full, its place on the wheel.
LEMMA SleepsKeeps ==
    ASSUME IInv, NEW c \in Conns, NEW q \in Slot, q.open, q.armed, q.fn, q.kind # "Recv",
           NEW t, Ready(c, t), NEW ms \in Waits, Schedulable(t, ms),
           tm' = Scheduled(t, c, q.gen, ms), conn' = [conn EXCEPT ![c] = q],
           due' = [due EXCEPT ![c] = now + ms], seen' = [seen EXCEPT ![c] = now],
           early' = {}, UNCHANGED <<now, ticks, batch, mode>>
    PROVE  IInv'
<1>0. TypeOK /\ TicksOK
  BY Zenon DEF IInv
<1>1. /\ conn \in [Conns -> Slot] /\ due \in [Conns -> Nat] /\ seen \in [Conns -> Nat] /\ now \in Nat \ {0}
      /\ ms \in Nat \ {0} /\ now + ms \in Nat /\ q.gen \in Nat
  BY <1>0, WheelAssumption DEF TypeOK, Slot
<1>2. /\ conn' \in [Conns -> Slot] /\ due' \in [Conns -> Nat] /\ seen' \in [Conns -> Nat]
      /\ conn'[c] = q /\ due'[c] = now + ms
      /\ \A d \in Conns \ {c} : conn'[d] = conn[d] /\ due'[d] = due[d] /\ seen'[d] = seen[d]
  BY <1>1
<1>3. PICK e : e = [deadline |-> now + ms, gen |-> q.gen, conn |-> c]
  BY Zenon
<1>4. e.deadline = now + ms /\ e.gen = q.gen /\ e.conn = c
  BY <1>3, Zenon
<1>5. \/ InHeap(tm', t, Unserved, c, e)
      \/ OnTheWheel(tm', t, Unserved, c, WheelSeconds(ms)) /\ WheelSeconds(ms) \in 0 .. Slots - 1
  <2>1. Sound(t, Unserved) /\ Of(c, t) = {}
    BY Zenon DEF Ready, Over
  <2> QED BY <1>1, <1>3, <2>1, ScheduledIs, Zenon
<1>6. Over(c, t)
  BY Zenon DEF Ready
<1>7. CASE InHeap(tm', t, Unserved, c, e)
  <2>1. /\ Sound(tm', Unserved) /\ Kept(tm', t, c) /\ tm'.wheel[c] = Off /\ tm'.armed = Top(tm'.heap)
        /\ ToSet(tm'.heap) = ToSet(t.heap) \cup {e}
    BY <1>7, Zenon DEF InHeap
  <2>2. Synced(tm') /\ Kept(tm', tm, c)
    BY <1>6, <2>1, Zenon DEF Synced, Over, Kept
  <2>3. ASSUME NEW d \in Conns \ {c} PROVE Of(d, tm') = Of(d, tm)
    <3>1. Of(d, tm') = Of(d, t)
      BY <1>4, <2>1, Zenon DEF Of
    <3> QED BY <1>6, <3>1, Zenon DEF Over
  <2>4. Of(c, tm') = {e}
    <3>1. Of(c, t) = {}
      BY <1>6, Zenon DEF Over
    <3> QED BY <1>4, <2>1, <3>1, Zenon DEF Of
  <2>5. Touches(c)
    BY <1>2, <2>2, <2>3, Zenon DEF Touches
  <2>6. FlagsOK(conn[c], tm.wheel[c], Of(c, tm), due[c])'
    <3>1. FlagsOK(q, Off, {e}, now + ms)
      BY <1>4, Zenon DEF FlagsOK
    <3>2. FlagsOK(conn'[c], tm'.wheel[c], Of(c, tm'), due'[c])
      BY <1>2, <2>1, <2>4, <3>1, Zenon
    <3> QED BY <3>2, Zenon DEF FlagsOK, Of
  <2>7. SlotOK(c)'
    BY <2>1, <2>6, Zenon DEF SlotOK, OnTime
  <2> QED BY <2>1, <2>2, <2>5, <2>7, SlotStep, Zenon
<1>8. CASE OnTheWheel(tm', t, Unserved, c, WheelSeconds(ms)) /\ WheelSeconds(ms) \in 0 .. Slots - 1
  <2>1. /\ tm'.wheel[c] # Off /\ Left(tm'.wheel[c], t.cursor) = WheelSeconds(ms)
        /\ Moves(tm', t, Unserved, c, tm'.wheel[c])
    BY <1>8, Zenon DEF OnTheWheel
  <2>2. Over(c, tm') /\ tm'.cursor = t.cursor
    BY <1>6, <2>1, OverMoves, Zenon
  <2>3. Touches(c)
    BY <1>2, <2>2, Zenon DEF Touches, Over
  <2>4. FlagsOK(conn[c], tm.wheel[c], Of(c, tm), due[c])'
    <3>1. FlagsOK(q, tm'.wheel[c], Of(c, tm'), now + ms)
      BY <2>1, <2>2, Zenon DEF FlagsOK, Over
    <3>2. FlagsOK(conn'[c], tm'.wheel[c], Of(c, tm'), due'[c])
      BY <1>2, <3>1, Zenon
    <3> QED BY <3>2, Zenon DEF FlagsOK, Of
  <2>5. OnTime(conn[c], tm.wheel[c], due[c], seen[c])'
    <3>1. WheelSeconds(ms) \in Nat /\ ms <= WheelSeconds(ms) * Second /\ ms \in Nat
      BY <1>1, SecondsRoundUp
    <3>2. now + ms < (WheelSeconds(ms) + Done + MaxTicks + 1) * Second
      BY <1>0, <3>1, Ahead, Zenon
    <3>3. Done' = Done
      BY Zenon DEF Done
    <3> QED BY <1>2, <2>1, <2>2, <3>2, <3>3, Zenon DEF OnTime, Until
  <2>6. SlotOK(c)'
    BY <2>4, <2>5, Zenon DEF SlotOK
  <2> QED BY <2>2, <2>3, <2>6, SlotStep, Zenon DEF Over
<1> QED BY <1>5, <1>7, <1>8, Zenon

\* A handler that runs answers, waits for an event or sleeps, and has a timer again.
LEMMA RunsKeeps ==
    ASSUME IInv, NEW c \in Conns, conn[c].open, NEW gen \in Nat, NEW t, Ready(c, t), Runs(c, gen, t),
           seen' = [seen EXCEPT ![c] = now], early' = {}, UNCHANGED <<now, ticks, batch, mode>>
    PROVE  IInv'
<1>0. conn[c] \in Slot
  BY DEF IInv, TypeOK
<1>1. PICK r : r = [conn[c] EXCEPT !.gen = gen, !.fn = FALSE, !.armed = FALSE]
  BY Zenon
<1>2. r \in Slot /\ r.open /\ ~r.armed /\ ~r.fn /\ r.gen = gen
  BY <1>0, <1>1, Zenon DEF Slot
<1>3. \/ /\ tm' = t /\ due' = [due EXCEPT ![c] = 0]
         /\ conn' \in { [conn EXCEPT ![c] = x] : x \in {r, [r EXCEPT !.fn = TRUE, !.kind = "Recv"]} }
      \/ \E ms \in Waits, k \in {"Timer", "Any"} :
           IF Schedulable(t, ms)
           THEN /\ tm' = Scheduled(t, c, gen, ms) /\ due' = [due EXCEPT ![c] = now + ms]
                /\ conn' = [conn EXCEPT ![c] = [r EXCEPT !.fn = TRUE, !.kind = k, !.armed = TRUE]]
           ELSE /\ tm' = OnWheel(t, c, KeepAlive) /\ due' = [due EXCEPT ![c] = 0]
                /\ conn' = [conn EXCEPT ![c] = r]
  BY <1>1, Zenon DEF Runs
<1>4. CASE /\ tm' = t /\ due' = [due EXCEPT ![c] = 0]
           /\ conn' \in { [conn EXCEPT ![c] = x] : x \in {r, [r EXCEPT !.fn = TRUE, !.kind = "Recv"]} }
  <2>1. PICK q \in {r, [r EXCEPT !.fn = TRUE, !.kind = "Recv"]} : conn' = [conn EXCEPT ![c] = q]
    BY <1>4, Zenon
  <2>2. q \in Slot /\ q.open /\ ~q.armed /\ ~(q.fn /\ q.kind = "Timer")
    <3>1. CASE q = r
      BY <1>2, <3>1, Zenon
    <3>2. CASE q = [r EXCEPT !.fn = TRUE, !.kind = "Recv"]
      <4>1. q \in Slot /\ q.open /\ ~q.armed /\ q.kind = "Recv"
        BY <1>2, <3>2, Zenon DEF Slot, Kinds
      <4> QED BY <4>1
    <3> QED BY <2>1, <3>1, <3>2, Zenon
  <2>3. Ready(c, tm')
    BY <1>4, Zenon
  <2> QED BY <1>4, <2>1, <2>2, <2>3, StaysKeeps, Zenon
<1>5. ASSUME NEW ms \in Waits, NEW k \in {"Timer", "Any"}, Schedulable(t, ms),
             tm' = Scheduled(t, c, gen, ms), due' = [due EXCEPT ![c] = now + ms],
             conn' = [conn EXCEPT ![c] = [r EXCEPT !.fn = TRUE, !.kind = k, !.armed = TRUE]]
      PROVE  IInv'
  <2>1. PICK q : q = [r EXCEPT !.fn = TRUE, !.kind = k, !.armed = TRUE]
    BY Zenon
  <2>2. q \in Slot /\ q.open /\ q.armed /\ q.fn /\ q.kind = k /\ q.gen = gen
    BY <1>2, <2>1, Zenon DEF Slot, Kinds
  <2>3. q.kind # "Recv"
    BY <2>2
  <2>4. conn' = [conn EXCEPT ![c] = q] /\ tm' = Scheduled(t, c, q.gen, ms)
    BY <1>5, <2>1, <2>2, Zenon
  <2> QED BY <1>5, <2>2, <2>3, <2>4, SleepsKeeps, Zenon
<1>6. ASSUME tm' = OnWheel(t, c, KeepAlive), due' = [due EXCEPT ![c] = 0], conn' = [conn EXCEPT ![c] = r]
      PROVE  IInv'
  <2>1. Ready(c, tm')
    BY <1>6, OverReady, Zenon DEF Ready
  <2> QED BY <1>2, <1>6, <2>1, StaysKeeps, Zenon
<1> QED BY <1>3, <1>4, <1>5, <1>6, Zenon

\* The timers of the loop, after the wait of slot c has ended one way or another.
LEMMA NoEntryOver ==
    ASSUME IInv, NEW c \in Conns, Of(c, tm) = {}
    PROVE  Over(c, tm)
BY Zenon DEF IInv, Over, Kept

LEMMA PurgedOver ==
    ASSUME IInv, NEW c \in Conns, NEW v, NEW u, SameHeap(v, tm), Kept(v, tm, c),
           Purged(u, v, Unserved, {e \in ToSet(v.heap) : e.conn # c})
    PROVE  Over(c, u)
<1>1. /\ Sound(u, Unserved) /\ u.wheel = v.wheel /\ u.cursor = v.cursor
      /\ ToSet(u.heap) = {e \in ToSet(tm.heap) : e.conn # c}
      /\ v.armed = Top(v.heap) => u.armed = Top(u.heap)
  BY Zenon DEF Purged, SameHeap
<1>2. Kept(u, tm, c)
  BY <1>1, Zenon DEF Kept
<1>3. Synced(u)
  BY <1>1, Zenon DEF IInv, Synced, SameHeap
<1>4. Of(c, u) = {} /\ \A d \in Conns \ {c} : Of(d, u) = Of(d, tm)
  BY <1>1, Zenon DEF Of
<1> QED BY <1>1, <1>2, <1>3, <1>4, Zenon DEF Over

\* The slot of c is closed.
LEMMA ClosesKeeps ==
    ASSUME IInv, NEW c \in Conns, NEW t, SameHeap(t, tm), Kept(t, tm, c), Sound(t, Unserved),
           Closes(c, t), early' = {}, UNCHANGED <<now, ticks, batch, mode>>
    PROVE  IInv'
<1>1. PICK v : v = IF conn[c].fn THEN WithoutEntry(t, c) ELSE t
  BY Zenon
<1>2. tm' = OffWheel(v, c)
  BY <1>1, Zenon DEF Closes, ClosedTimers
<1>3. Over(c, v)
  <2>1. CASE conn[c].fn
    <3>1. v = WithoutEntry(t, c)
      BY <1>1, <2>1, Zenon
    <3>2. Purged(v, t, Unserved, {e \in ToSet(t.heap) : e.conn # c})
      BY <3>1, WithoutEntryIs, Zenon
    <3> QED BY <3>2, PurgedOver, Zenon
  <2>2. CASE ~conn[c].fn
    <3>1. v = t
      BY <1>1, <2>2, Zenon
    <3>2. Of(c, tm) = {}
      BY <2>2, Zenon DEF IInv, SlotOK, FlagsOK
    <3>3. Over(c, tm) /\ Moves(t, tm, Unserved, c, t.wheel[c])
      BY <3>2, NoEntryOver, Zenon DEF Moves
    <3> QED BY <3>1, <3>3, OverMoves, Zenon
  <2> QED BY <2>1, <2>2, Zenon
<1>4. Moves(tm', v, Unserved, c, Off)
  BY <1>2, <1>3, OffWheelIs, Zenon DEF Over
<1>5. Over(c, tm') /\ tm'.wheel[c] = Off
  BY <1>3, <1>4, OverMoves, Zenon DEF Moves
<1>6. PICK q : q = [Idle EXCEPT !.gen = conn[c].gen]
  BY Zenon
<1>7. /\ conn \in [Conns -> Slot] /\ due \in [Conns -> Nat] /\ seen \in [Conns -> Nat]
      /\ conn[c].gen \in Nat
  BY DEF IInv, TypeOK, Slot
<1>8. q \in Slot /\ ~q.open /\ ~q.fn /\ ~q.armed
  BY <1>6, <1>7, Zenon DEF Slot, Idle, Kinds
<1>9. /\ conn' = [conn EXCEPT ![c] = q] /\ due' = [due EXCEPT ![c] = 0]
      /\ seen' = [seen EXCEPT ![c] = 0]
  BY <1>6, Zenon DEF Closes
<1>10. /\ conn' \in [Conns -> Slot] /\ due' \in [Conns -> Nat] /\ seen' \in [Conns -> Nat]
       /\ conn'[c] = q /\ due'[c] = 0
       /\ \A d \in Conns \ {c} : conn'[d] = conn[d] /\ due'[d] = due[d] /\ seen'[d] = seen[d]
  BY <1>7, <1>8, <1>9
<1>11. Touches(c)
  BY <1>5, <1>10, Zenon DEF Touches, Over
<1>12. FlagsOK(conn[c], tm.wheel[c], Of(c, tm), due[c])'
  <2>1. FlagsOK(q, tm'.wheel[c], Of(c, tm'), 0)
    BY <1>5, <1>8, Zenon DEF FlagsOK, Over
  <2>2. FlagsOK(conn'[c], tm'.wheel[c], Of(c, tm'), due'[c])
    BY <1>10, <2>1, Zenon
  <2> QED BY <2>2, Zenon DEF FlagsOK, Of
<1>13. SlotOK(c)'
  BY <1>5, <1>12, Zenon DEF SlotOK, OnTime
<1> QED BY <1>5, <1>11, <1>13, SlotStep, Zenon DEF Over

-----------------------------------------------------------------------------
(* The steps.                                                              *)

LEMMA AcceptKeeps == ASSUME IInv, NEW c \in Conns, Accept(c) PROVE IInv'
<1>0. conn[c] \in Slot /\ FlagsOK(conn[c], tm.wheel[c], Of(c, tm), due[c]) /\ TypeOK /\ TicksOK
  BY Zenon DEF IInv, TypeOK, SlotOK
<1>1. ~conn[c].open
  BY Zenon DEF Accept
<1>2. Of(c, tm) = {} /\ ~conn[c].fn /\ ~conn[c].armed
  BY <1>0, <1>1, Zenon DEF FlagsOK
<1>3. Over(c, tm)
  BY <1>2, NoEntryOver, Zenon
<1>4. Ready(c, tm')
  BY <1>3, OverReady, Zenon DEF Accept
<1>5. PICK q : q = [conn[c] EXCEPT !.open = TRUE]
  BY Zenon
<1>6. q \in Slot /\ q.open /\ ~q.armed /\ ~q.fn
  BY <1>0, <1>2, <1>5, Zenon DEF Slot
<1>7. conn \in [Conns -> Slot] /\ due \in [Conns -> Nat] /\ seen \in [Conns -> Nat] /\ now \in Nat
  BY <1>0 DEF TypeOK
<1>8. conn' = [conn EXCEPT ![c] = q]
  BY <1>5, Zenon DEF Accept
<1>9. seen' = [seen EXCEPT ![c] = now] /\ due' = due /\ UNCHANGED <<now, ticks, batch, mode, early>>
  BY Zenon DEF Accept
<1>10. /\ conn' \in [Conns -> Slot] /\ due' \in [Conns -> Nat] /\ seen' \in [Conns -> Nat]
       /\ conn'[c] = q /\ seen'[c] = now
       /\ \A d \in Conns \ {c} : conn'[d] = conn[d] /\ due'[d] = due[d] /\ seen'[d] = seen[d]
  BY <1>6, <1>7, <1>8, <1>9
<1>11. Touches(c)
  BY <1>4, <1>10, Zenon DEF Touches, Ready, Over
<1>12. FlagsOK(conn[c], tm.wheel[c], Of(c, tm), due[c])'
  <2>1. FlagsOK(q, tm'.wheel[c], Of(c, tm'), due'[c])
    BY <1>4, <1>6, Zenon DEF FlagsOK, Ready, Over
  <2>2. FlagsOK(conn'[c], tm'.wheel[c], Of(c, tm'), due'[c])
    BY <1>10, <2>1, Zenon
  <2> QED BY <2>2, Zenon DEF FlagsOK, Of
<1>13. OnTime(conn[c], tm.wheel[c], due[c], seen[c])'
  <2>1. KeepAlive \in Nat /\ KeepAlive * Second \in Nat /\ KeepAlive * Second <= KeepAlive * Second
    BY WheelAssumption
  <2>2. now + KeepAlive * Second < (KeepAlive + Done + MaxTicks + 1) * Second
    BY <1>0, <2>1, Ahead, Zenon
  <2>3. Done' = Done
    BY <1>9, Zenon DEF Done
  <2>4. Left(tm'.wheel[c], tm'.cursor) = KeepAlive
    BY <1>4, Zenon DEF Ready
  <2> QED BY <1>6, <1>10, <2>2, <2>3, <2>4, Zenon DEF OnTime, Until
<1>14. SlotOK(c)'
  BY <1>12, <1>13, Zenon DEF SlotOK
<1>15. early' = {}
  BY <1>9, Zenon DEF IInv
<1> QED BY <1>4, <1>9, <1>11, <1>14, <1>15, SlotStep, Zenon DEF Ready, Over

LEMMA RequestKeeps == ASSUME IInv, NEW c \in Conns, Request(c) PROVE IInv'
<1>0. conn[c] \in Slot /\ FlagsOK(conn[c], tm.wheel[c], Of(c, tm), due[c])
  BY Zenon DEF IInv, TypeOK, SlotOK
<1>1. /\ conn[c].open /\ ~conn[c].fn /\ Runs(c, conn[c].gen + 1, OnWheel(tm, c, KeepAlive))
      /\ seen' = [seen EXCEPT ![c] = now] /\ UNCHANGED <<now, ticks, batch, mode, early>>
  BY Zenon DEF Request
<1>2. Over(c, tm)
  <2>1. Of(c, tm) = {}
    BY <1>0, <1>1, Zenon DEF FlagsOK
  <2> QED BY <2>1, NoEntryOver, Zenon
<1>3. PICK t : t = OnWheel(tm, c, KeepAlive)
  BY Zenon
<1>4. Ready(c, t)
  BY <1>2, <1>3, OverReady, Zenon
<1>5. conn[c].gen + 1 \in Nat
  BY <1>0 DEF Slot
<1>6. PICK gen \in Nat : gen = conn[c].gen + 1
  BY <1>5, Zenon
<1>7. Runs(c, gen, t) /\ early' = {}
  BY <1>1, <1>3, <1>6, Zenon DEF IInv
<1> QED BY <1>1, <1>4, <1>7, RunsKeeps, Zenon

\* resume_jit_handler, once the wait is over.
LEMMA ResumesKeeps ==
    ASSUME IInv, NEW c \in Conns, conn[c].open, NEW v, Over(c, v), Resumes(c, v), early' = {},
           UNCHANGED <<now, ticks, batch, mode>>
    PROVE  IInv'
<1>0. conn[c].gen \in Nat
  BY DEF IInv, TypeOK, Slot
<1>1. PICK t : t = OnWheel(v, c, KeepAlive)
  BY Zenon
<1>2. Runs(c, conn[c].gen, t) /\ seen' = [seen EXCEPT ![c] = now]
  BY <1>1, Zenon DEF Resumes
<1>3. Ready(c, t)
  BY <1>1, OverReady, Zenon
<1> QED BY <1>0, <1>2, <1>3, RunsKeeps, Zenon

LEMMA EventResumesKeeps == ASSUME IInv, NEW c \in Conns, EventResumes(c) PROVE IInv'
<1>0. FlagsOK(conn[c], tm.wheel[c], Of(c, tm), due[c])
  BY Zenon DEF IInv, SlotOK
<1>1. /\ conn[c].open /\ Resumes(c, Disarmed(tm, c))
      /\ UNCHANGED <<now, ticks, batch, mode, early>>
  BY Zenon DEF EventResumes
<1>2. PICK v : v = Disarmed(tm, c)
  BY Zenon
<1>3. Over(c, v)
  <2>1. CASE conn[c].armed
    <3>1. PICK off : off = OffWheel(tm, c)
      BY Zenon
    <3>2. v = WithoutEntry(off, c)
      BY <1>2, <2>1, <3>1, Zenon DEF Disarmed
    <3>3. Moves(off, tm, Unserved, c, Off)
      BY <3>1, OffWheelIs, Zenon DEF IInv
    <3>4. Purged(v, off, Unserved, {e \in ToSet(off.heap) : e.conn # c})
      BY <3>2, <3>3, WithoutEntryIs, Zenon DEF Moves
    <3> QED BY <3>3, <3>4, PurgedOver, Zenon DEF Moves
  <2>2. CASE ~conn[c].armed
    <3>1. v = tm
      BY <1>2, <2>2, Zenon DEF Disarmed
    <3>2. Of(c, tm) = {}
      BY <1>0, <2>2, Zenon DEF FlagsOK
    <3> QED BY <3>1, <3>2, NoEntryOver, Zenon
  <2> QED BY <2>1, <2>2, Zenon
<1>4. early' = {} /\ Resumes(c, v)
  BY <1>1, <1>2, Zenon DEF IInv
<1> QED BY <1>1, <1>3, <1>4, ResumesKeeps, Zenon

LEMMA PeerClosesKeeps == ASSUME IInv, NEW c \in Conns, PeerCloses(c) PROVE IInv'
<1>1. Closes(c, tm) /\ UNCHANGED <<now, ticks, batch, mode, early>>
  BY Zenon DEF PeerCloses
<1>2. SameHeap(tm, tm) /\ Kept(tm, tm, c) /\ Sound(tm, Unserved) /\ early' = {}
  BY <1>1, Zenon DEF SameHeap, Kept, IInv
<1> QED BY <1>1, <1>2, ClosesKeeps, Zenon

\* drain_yield_heap resumes the handler of the top entry, whose time has come.
LEMMA DrainStepKeeps == ASSUME IInv, DrainStep PROVE IInv'
<1>1. PICK e : e = tm.heap[1]
  BY Zenon
<1>2. /\ mode = "heap" /\ tm.heap # <<>> /\ e.deadline <= now
      /\ Resumes(e.conn, [tm EXCEPT !.heap = Pop(@)])
      /\ early' = early \cup (IF now < due[e.conn] THEN {"wait"} ELSE {})
      /\ UNCHANGED <<now, ticks, batch, mode>>
  BY <1>1, Zenon DEF DrainStep, TopDue
<1>3. Sound(tm, Unserved) /\ HeapOK(tm.heap)
  BY Zenon DEF IInv, Sound
<1>4. e \in ToSet(tm.heap) /\ ToSet(tm.heap) \subseteq Entry /\ OnePerConn(ToSet(tm.heap))
  BY <1>1, <1>2, <1>3, TopIs, Zenon DEF HeapOK
<1>5. PICK c \in Conns : c = e.conn
  <2>1. e.conn \in Conns
    BY <1>4, Zenon DEF Entry
  <2> QED BY <2>1, Zenon
<1>6. e \in Of(c, tm) /\ FlagsOK(conn[c], tm.wheel[c], Of(c, tm), due[c])
  BY <1>4, <1>5, Zenon DEF Of, IInv, SlotOK
<1>7. conn[c].open /\ due[c] = e.deadline
  BY <1>6, Zenon DEF FlagsOK
<1>8. early' = {}
  <2>1. e.deadline \in Nat /\ now \in Nat
    BY <1>4 DEF IInv, TypeOK, Entry
  <2>2. ~(now < due[e.conn])
    BY <1>2, <1>5, <1>7, <2>1
  <2>3. early' = early \cup {}
    BY <1>2, <2>2, Zenon
  <2> QED BY <2>3, Zenon DEF IInv
<1>9. PICK v : v = [tm EXCEPT !.heap = Pop(@)]
  BY Zenon
<1>10. Refills(v, tm, Unserved, ToSet(tm.heap) \ {e})
  BY <1>1, <1>2, <1>3, <1>9, PopIs, Zenon
<1>11. Over(c, v)
  <2>1. Sound(v, Unserved) /\ ToSet(v.heap) = ToSet(tm.heap) \ {e}
    BY <1>10, Zenon DEF Refills
  <2>2. Kept(v, tm, c) /\ Synced(v)
    BY <1>2, <1>10, Zenon DEF Refills, Kept, Synced
  <2>3. Of(c, v) = {}
    BY <1>4, <1>5, <2>1, Zenon DEF Of, OnePerConn
  <2>4. \A d \in Conns \ {c} : Of(d, v) = Of(d, tm)
    BY <1>5, <2>1, Zenon DEF Of
  <2> QED BY <2>1, <2>2, <2>3, <2>4, Zenon DEF Over
<1>12. Resumes(c, v)
  BY <1>2, <1>5, <1>9, Zenon
<1> QED BY <1>2, <1>7, <1>8, <1>11, <1>12, ResumesKeeps, Zenon

\* A tick's callback: what the wheel comes to is due, but for the ticks it is behind.
LEMMA ExpiresKeeps == ASSUME IInv, NEW c \in Conns, Expires(c) PROVE IInv'
<1>1. PICK r : r = conn[c]
  BY Zenon
<1>2. PICK p : p = (r.fn /\ (r.kind = "Timer" \/ (r.armed /\ r.kind = "Any")))
  BY Zenon
<1>3. PICK t : t = OffWheel(tm, c)
  BY Zenon
<1>4. /\ mode = "tick" /\ Expiring(tm.wheel, tm.cursor, c) /\ UNCHANGED <<now, ticks, batch, mode>>
      /\ p => /\ Resumes(c, t)
              /\ early' = early \cup (IF now + MaxTicks * Second < due[c] THEN {"wait"} ELSE {})
      /\ ~p => /\ Closes(c, t)
               /\ early' = early \cup (IF now - seen[c] <= (KeepAlive - MaxTicks) * Second
                                       THEN {"keepalive"} ELSE {})
  BY <1>1, <1>2, <1>3, Zenon DEF Expires
<1>5. /\ TypeOK /\ TicksOK /\ early = {} /\ Sound(tm, Unserved) /\ r \in Slot
      /\ FlagsOK(r, tm.wheel[c], Of(c, tm), due[c]) /\ OnTime(r, tm.wheel[c], due[c], seen[c])
  BY <1>1, Zenon DEF IInv, TypeOK, SlotOK
<1>6. tm.wheel \in [Conns -> Places] /\ tm.cursor \in 0 .. Slots - 1
  BY <1>5, Zenon DEF Sound, Timers
<1>7. tm.wheel[c] = tm.cursor /\ tm.wheel[c] # Off
  <2>1. tm.wheel[c] = tm.cursor
    BY <1>4, <1>6, ExpiringNow, Zenon
  <2> QED BY <1>6, <2>1, WheelAssumption, Zenon
<1>8. r.open /\ Of(c, tm) = {} /\ (p <=> r.armed)
  <2>1. r.open /\ Of(c, tm) = {}
    BY <1>5, <1>7, Zenon DEF FlagsOK
  <2>2. r.kind \in {"Timer", "Any", "Recv"}
    BY <1>5, Zenon DEF Slot, Kinds
  <2>3. r.armed => r.fn /\ r.kind # "Recv"
    BY <1>5, Zenon DEF FlagsOK
  <2>4. r.fn /\ r.kind = "Timer" => r.armed
    BY <1>5, Zenon DEF FlagsOK
  <2>5. r.armed \in BOOLEAN /\ r.fn \in BOOLEAN
    BY <1>5, Zenon DEF Slot
  <2>6. p <=> r.armed
    BY <1>2, <2>2, <2>3, <2>4, <2>5, Zenon
  <2> QED BY <2>1, <2>6
<1>9. Until(r, due[c], seen[c]) < (0 + Done + MaxTicks + 1) * Second
  <2>1. Left(tm.cursor, tm.cursor) = 0
    BY <1>6 DEF Left
  <2> QED BY <1>5, <1>7, <2>1, Zenon DEF OnTime
<1>10. now \in Nat /\ due[c] \in Nat /\ seen[c] \in Nat /\ batch.ticks > 0
  BY <1>4, <1>5 DEF TypeOK, TicksOK
<1>11. Until(r, due[c], seen[c]) < now + MaxTicks * Second
  <2>1. Until(r, due[c], seen[c]) \in Int
    BY <1>10, WheelAssumption DEF Until
  <2> QED BY <1>5, <1>9, <1>10, <2>1, Reached, Zenon
<1>12. early' = {}
  <2>1. CASE p
    <3>1. due[c] < now + MaxTicks * Second
      BY <1>8, <1>11, <2>1, Zenon DEF Until
    <3>2. ~(now + MaxTicks * Second < due[c])
      BY <1>10, <3>1, WheelAssumption
    <3>3. early' = early \cup {}
      BY <1>4, <2>1, <3>2, Zenon
    <3> QED BY <1>5, <3>3, Zenon
  <2>2. CASE ~p
    <3>1. seen[c] + KeepAlive * Second < now + MaxTicks * Second
      BY <1>8, <1>11, <2>2, Zenon DEF Until
    <3>2. (KeepAlive - MaxTicks) * Second = KeepAlive * Second - MaxTicks * Second
      BY WheelAssumption
    <3>3. KeepAlive * Second \in Int /\ MaxTicks * Second \in Int
      BY WheelAssumption
    <3>4. ~(now - seen[c] <= (KeepAlive - MaxTicks) * Second)
      BY <1>10, <3>1, <3>2, <3>3
    <3>5. early' = early \cup {}
      BY <1>4, <2>2, <3>4, Zenon
    <3> QED BY <1>5, <3>5, Zenon
  <2> QED BY <2>1, <2>2, Zenon
<1>13. Moves(t, tm, Unserved, c, Off)
  BY <1>3, <1>5, OffWheelIs, Zenon
<1>14. CASE p
  <2>1. Over(c, tm)
    BY <1>8, NoEntryOver, Zenon
  <2>2. Over(c, t)
    BY <1>13, <2>1, OverMoves, Zenon
  <2> QED BY <1>1, <1>4, <1>8, <1>12, <1>14, <2>2, ResumesKeeps, Zenon
<1>15. CASE ~p
  BY <1>4, <1>12, <1>13, <1>15, ClosesKeeps, Zenon DEF Moves
<1> QED BY <1>14, <1>15, Zenon

-----------------------------------------------------------------------------
(* The steps of the clock, of the drain and of the wheel keep every slot as it is, and     *)
(* the ticks done plus those left for a connection on the wheel stay the same.             *)

LEMMA ClockStep ==
    ASSUME IInv, UNCHANGED <<conn, due, seen, early>>, now' \in Nat \ {0}, TicksOK',
           Sound(tm, Unserved)', Synced(tm)', tm'.wheel = tm.wheel, tm'.heap = tm.heap,
           \A c \in Conns : tm.wheel[c] # Off =>
               Left(tm.wheel[c], tm'.cursor) + Done' = Left(tm.wheel[c], tm.cursor) + Done
    PROVE  IInv'
<1>1. TypeOK'
  BY Zenon DEF IInv, TypeOK
<1>2. ASSUME NEW c \in Conns PROVE SlotOK(c)'
  <2>0. FlagsOK(conn[c], tm.wheel[c], Of(c, tm), due[c]) /\ OnTime(conn[c], tm.wheel[c], due[c], seen[c])
    BY <1>2, Zenon DEF IInv, SlotOK
  <2>1. Of(c, tm') = Of(c, tm)
    BY Zenon DEF Of
  <2>2. FlagsOK(conn'[c], tm'.wheel[c], Of(c, tm'), due'[c])
    BY <2>0, <2>1, Zenon
  <2>3. FlagsOK(conn[c], tm.wheel[c], Of(c, tm), due[c])'
    BY <2>2, Zenon DEF FlagsOK, Of
  <2>4. OnTime(conn[c], tm.wheel[c], due[c], seen[c])'
    <3>1. tm.wheel[c] # Off =>
            Until(conn[c], due[c], seen[c])
              < (Left(tm.wheel[c], tm'.cursor) + Done' + MaxTicks + 1) * Second
      BY <1>2, <2>0, Zenon DEF OnTime
    <3> QED BY <3>1, Zenon DEF OnTime, Until
  <2> QED BY <2>3, <2>4, Zenon DEF SlotOK
<1> QED BY <1>1, <1>2, Zenon DEF IInv

\* The kernel's timer stays as it should be while time passes.
LEMMA FdStays ==
    ASSUME Sound(tm, Unserved), tm' \in Timers, tm'.heap = tm.heap, tm'.armed = tm.armed,
           tm'.tfd = tm.tfd, now \in Nat, now' \in Nat, now <= now', Unserved => Unserved'
    PROVE  Sound(tm, Unserved)'
<1>1. tm.armed \in Nat /\ HeapOK(tm.heap) /\ FdOK(tm, Unserved)
  BY Zenon DEF Sound, Timers
<1>2. tm.armed <= now => tm.armed <= now'
  BY <1>1
<1>3. FdOK(tm, Unserved)'
  BY <1>1, <1>2, Zenon DEF FdOK
<1> QED BY <1>1, <1>3, Zenon DEF Sound

LEMMA AdvanceKeeps == ASSUME IInv, Advance PROVE IInv'
<1>0. /\ now \in Nat \ {0} /\ ticks \in Nat /\ batch.ticks \in Nat /\ Sound(tm, Unserved)
      /\ tm \in Timers
  BY DEF IInv, TypeOK, TicksOK, Sound
<1>1. /\ now' = now + 1 /\ ticks' = ticks + (IF (now + 1) % Second = 0 THEN 1 ELSE 0)
      /\ UNCHANGED <<tm, conn, batch, mode, due, seen, early>>
  BY <1>0 DEF Advance
<1>2. now' \in Nat \ {0} /\ now <= now'
  BY <1>0, <1>1
<1>3. TicksOK'
  BY <1>0, <1>1 DEF IInv, TicksOK, Advance
<1>4. Done' = Done
  <2> DEFINE f == now \div Second
             k == IF (now + 1) % Second = 0 THEN 1 ELSE 0
  <2>1. f \in Int /\ (now + 1) \div Second = f + k
    BY <1>0, ClockTicks
  <2>2. /\ Done = f - ticks - batch.ticks
        /\ Done' = ((now + 1) \div Second) - (ticks + k) - batch.ticks
    BY <1>1 DEF Done
  <2>3. k \in Int
    OBVIOUS
  <2> HIDE DEF f, k
  <2> QED BY <1>0, <2>1, <2>2, <2>3
<1>5. Sound(tm, Unserved)'
  <2>1. Unserved' = Unserved
    BY <1>1, Zenon DEF Unserved
  <2>2. now \in Nat /\ now' \in Nat
    BY <1>0, <1>2
  <2> QED BY <1>0, <1>1, <1>2, <2>1, <2>2, FdStays, Zenon
<1>6. Synced(tm)'
  BY <1>1, Zenon DEF IInv, Synced, Top
<1> QED BY <1>1, <1>2, <1>3, <1>4, <1>5, <1>6, ClockStep, Zenon

\* The loop turns to the deadlines, or to a tick.
LEMMA StartsKeep == ASSUME IInv, StartDrain \/ StartTick PROVE IInv'
<1>0. /\ now \in Nat \ {0} /\ ticks \in Nat /\ batch \in [handler : BOOLEAN, ticks : Nat]
      /\ Sound(tm, Unserved) /\ tm \in Timers
  BY DEF IInv, TypeOK, TicksOK, Sound
<1>1. UNCHANGED <<tm, conn, now, ticks, due, seen, early>>
  BY Zenon DEF StartDrain, StartTick
<1>2. batch'.ticks = batch.ticks /\ TicksOK' /\ (Unserved => Unserved') /\ Synced(tm)'
  <2>1. CASE StartDrain
    <3>1. mode' = "heap" /\ batch' = [batch EXCEPT !.handler = FALSE]
      BY <2>1, Zenon DEF StartDrain
    <3>2. batch' \in [handler : BOOLEAN, ticks : Nat] /\ batch'.ticks = batch.ticks
      BY <1>0, <3>1, Zenon
    <3>3. TicksOK'
      BY <1>1, <3>1, <3>2, Zenon DEF IInv, TicksOK
    <3> QED BY <3>1, <3>2, <3>3, Zenon DEF Unserved, Synced
  <2>2. CASE StartTick
    <3>1. mode = "loop" /\ mode' = "tick" /\ batch' = batch /\ batch.ticks > 0
      BY <2>2, Zenon DEF StartTick
    <3>2. TicksOK'
      BY <1>1, <3>1, Zenon DEF IInv, TicksOK
    <3>3. Synced(tm)'
      BY <1>1, <3>1, Zenon DEF IInv, Synced, Top
    <3> QED BY <3>1, <3>2, <3>3, Zenon DEF Unserved
  <2> QED BY <2>1, <2>2
<1>3. Done' = Done
  BY <1>1, <1>2, Zenon DEF Done
<1>4. Sound(tm, Unserved)'
  <2>1. now \in Nat /\ now' \in Nat /\ now <= now'
    BY <1>0, <1>1
  <2> QED BY <1>0, <1>1, <1>2, <2>1, FdStays, Zenon
<1> QED BY <1>0, <1>1, <1>2, <1>3, <1>4, ClockStep, Zenon

\* No deadline is left that has passed: the timer is set to the next.
LEMMA DrainEndsKeeps == ASSUME IInv, DrainEnds PROVE IInv'
<1>0. /\ now \in Nat \ {0} /\ Sound(tm, Unserved)
  BY DEF IInv, TypeOK
<1>1. /\ mode = "heap" /\ ~TopDue /\ tm' = Rearm(tm) /\ mode' = "loop"
      /\ UNCHANGED <<conn, now, ticks, batch, due, seen, early>>
  BY Zenon DEF DrainEnds
<1>2. Rearmed(tm', tm, Unserved)
  BY <1>0, <1>1, RearmIs, Zenon
<1>3. /\ Sound(tm', Unserved) /\ tm'.armed = Top(tm'.heap)
      /\ tm'.wheel = tm.wheel /\ tm'.cursor = tm.cursor /\ tm'.heap = tm.heap
  BY <1>2, Zenon DEF Rearmed
<1>4. tm'.tfd = tm'.armed
  <2>1. FdOK(tm', Unserved) /\ HeapOK(tm.heap)
    BY <1>0, <1>3, Zenon DEF Sound
  <2>2. Top(tm.heap) \in Nat /\ (Top(tm.heap) = 0 <=> tm.heap = <<>>)
    BY <2>1, TopIs, Zenon
  <2>3. Top(tm.heap) <= now => Top(tm.heap) = 0
    BY <1>1, <2>2, Zenon DEF TopDue, Top
  <2> QED BY <1>3, <2>1, <2>3, Zenon DEF FdOK
<1>5. Sound(tm, Unserved)' /\ Synced(tm)'
  <2>1. FdOK(tm, Unserved)'
    BY <1>4, Zenon DEF FdOK
  <2>2. tm' \in Timers /\ HeapOK(tm'.heap)
    BY <1>3, Zenon DEF Sound
  <2> QED BY <1>3, <2>1, <2>2, Zenon DEF Sound, Synced, Top
<1>6. TicksOK' /\ Done' = Done
  BY <1>1, Zenon DEF IInv, TicksOK, Done
<1> QED BY <1>0, <1>1, <1>3, <1>5, <1>6, ClockStep, Zenon

\* wait() takes over the ticks, and the expiration of the one-shot timer.
LEMMA WaitKeeps == ASSUME IInv, Wait PROVE IInv'
<1>0. /\ now \in Nat \ {0} /\ ticks \in Nat /\ tm \in Timers /\ HeapOK(tm.heap)
      /\ FdOK(tm, Unserved) /\ Synced(tm) /\ now \div Second \in Int
  <2>1. now \in Nat \ {0} /\ ticks \in Nat
    BY DEF IInv, TypeOK, TicksOK
  <2>2. now \div Second \in Int
    BY <2>1, ClockTicks
  <2> QED BY <2>1, <2>2, Zenon DEF IInv, Sound
<1>1. PICK f : f = YieldTimerFired
  BY Zenon
<1>2. /\ mode = "loop" /\ ~batch.handler /\ batch.ticks = 0
      /\ batch' = [handler |-> f, ticks |-> ticks] /\ ticks' = 0
      /\ tm' = [tm EXCEPT !.tfd = IF f THEN 0 ELSE @]
      /\ UNCHANGED <<conn, now, mode, due, seen, early>>
  BY <1>1, Zenon DEF Wait
<1>3. f \in BOOLEAN
  BY <1>1, Zenon DEF YieldTimerFired
<1>4. batch' \in [handler : BOOLEAN, ticks : Nat] /\ batch'.handler = f /\ batch'.ticks = ticks
  BY <1>0, <1>2, <1>3, Zenon
<1>5. TicksOK'
  <2>1. ticks + 0 <= MaxTicks /\ 0 + ticks = ticks + 0
    BY <1>0, <1>2 DEF IInv, TicksOK
  <2>2. ticks' \in Nat /\ ticks' + batch'.ticks <= MaxTicks
    BY <1>0, <1>2, <1>4, <2>1
  <2> QED BY <1>2, <1>4, <2>2, Zenon DEF TicksOK
<1>6. Done' = Done
  <2>1. Done = (now \div Second) - ticks - 0 /\ Done' = (now \div Second) - 0 - ticks
    BY <1>2, <1>4, Zenon DEF Done
  <2> QED BY <1>0, <2>1
<1>7. /\ tm' \in Timers /\ tm'.tfd = (IF f THEN 0 ELSE tm.tfd) /\ tm'.wheel = tm.wheel
      /\ tm'.cursor = tm.cursor /\ tm'.heap = tm.heap /\ tm'.armed = tm.armed
  <2>1. (IF f THEN 0 ELSE tm.tfd) \in Nat
    BY <1>0 DEF Timers
  <2>2. PICK n \in Nat : n = IF f THEN 0 ELSE tm.tfd
    BY <2>1, Zenon
  <2>3. tm' = [tm EXCEPT !.tfd = n]
    BY <1>2, <2>2, Zenon
  <2>4. /\ tm' \in Timers /\ tm'.tfd = n /\ tm'.wheel = tm.wheel
        /\ tm'.cursor = tm.cursor /\ tm'.heap = tm.heap /\ tm'.armed = tm.armed
    BY <1>0, <2>3, Zenon DEF Timers
  <2> QED BY <2>2, <2>4, Zenon
<1>8. tm.tfd = tm.armed
  BY <1>0, <1>2, Zenon DEF FdOK, Unserved
<1>9. Sound(tm, Unserved)' /\ Synced(tm)'
  <2>1. f => tm'.tfd = 0 /\ tm'.armed <= now' /\ Unserved'
    BY <1>1, <1>2, <1>4, <1>7, <1>8, Zenon DEF YieldTimerFired, Unserved
  <2>2. ~f => tm'.tfd = tm'.armed
    BY <1>7, <1>8, Zenon
  <2>3. FdOK(tm, Unserved)'
    BY <2>1, <2>2, Zenon DEF FdOK
  <2>4. HeapOK(tm'.heap)
    BY <1>0, <1>7, Zenon
  <2> QED BY <1>0, <1>2, <1>7, <2>3, <2>4, Zenon DEF Sound, Synced, Top
<1> QED BY <1>0, <1>2, <1>5, <1>6, <1>7, <1>9, ClockStep, Zenon

\* A tick ends: no connection is left under the cursor.
LEMMA TickEndsKeeps == ASSUME IInv, TickEnds PROVE IInv'
<1>0. /\ now \in Nat \ {0} /\ ticks \in Nat /\ batch \in [handler : BOOLEAN, ticks : Nat]
      /\ Sound(tm, Unserved) /\ Synced(tm) /\ batch.ticks > 0 /\ mode = "tick"
  BY DEF IInv, TypeOK, TicksOK, TickEnds
<1>1. /\ \A c \in Conns : ~Expiring(tm.wheel, tm.cursor, c)
      /\ tm' = [tm EXCEPT !.cursor = NextSlot(@)] /\ batch' = [batch EXCEPT !.ticks = @ - 1]
      /\ mode' = IF batch.ticks > 1 THEN "tick" ELSE "loop"
      /\ UNCHANGED <<conn, now, ticks, due, seen, early>>
  BY Zenon DEF TickEnds
<1>2. tm \in Timers /\ tm.wheel \in [Conns -> Places] /\ tm.cursor \in 0 .. Slots - 1
  BY <1>0, Zenon DEF Sound, Timers
<1>3. /\ tm' \in Timers /\ tm'.cursor = NextSlot(tm.cursor) /\ tm'.wheel = tm.wheel
      /\ tm'.heap = tm.heap /\ tm'.armed = tm.armed /\ tm'.tfd = tm.tfd
  <2>1. PICK n \in 0 .. Slots - 1 : n = NextSlot(tm.cursor)
    BY <1>2, NextSlotType, Zenon
  <2>2. tm' = [tm EXCEPT !.cursor = n]
    BY <1>1, <2>1, Zenon
  <2>3. /\ tm' \in Timers /\ tm'.cursor = n /\ tm'.wheel = tm.wheel
        /\ tm'.heap = tm.heap /\ tm'.armed = tm.armed /\ tm'.tfd = tm.tfd
    BY <1>2, <2>2, Zenon DEF Timers
  <2> QED BY <2>1, <2>3, Zenon
<1>4. PICK m \in Nat : m = batch.ticks - 1
  BY <1>0
<1>5. batch' \in [handler : BOOLEAN, ticks : Nat] /\ batch'.ticks = m /\ batch'.handler = batch.handler
  <2>1. batch' = [batch EXCEPT !.ticks = m]
    BY <1>1, <1>4, Zenon
  <2> QED BY <1>0, <2>1, Zenon
<1>6. TicksOK'
  <2>1. ticks' + m <= MaxTicks
    BY <1>0, <1>1, <1>4, WheelAssumption DEF IInv, TicksOK
  <2>2. mode' \in {"loop", "heap", "tick"} /\ (mode' = "tick" => m > 0)
    BY <1>0, <1>1, <1>4
  <2> QED BY <1>0, <1>1, <1>5, <2>1, <2>2, Zenon DEF TicksOK
<1>7. Done' = Done + 1 /\ Done \in Int
  <2>1. now \div Second \in Int
    BY <1>0, ClockTicks
  <2>2. Done = (now \div Second) - ticks - batch.ticks /\ Done' = (now \div Second) - ticks - m
    BY <1>1, <1>5, Zenon DEF Done
  <2> QED BY <1>0, <1>4, <2>1, <2>2
<1>8. ASSUME NEW c \in Conns, tm.wheel[c] # Off
      PROVE  Left(tm.wheel[c], tm'.cursor) + Done' = Left(tm.wheel[c], tm.cursor) + Done
  <2>1. tm.wheel[c] # tm.cursor
    BY <1>1, <1>2, ExpiringNow, Zenon
  <2>2. tm.wheel[c] \in 0 .. Slots - 1
    BY <1>2, <1>8, Zenon DEF Places
  <2>3. Left(tm.wheel[c], tm'.cursor) = Left(tm.wheel[c], tm.cursor) - 1
    BY <1>2, <1>3, <2>1, <2>2, TickedOnce, Zenon
  <2>4. Left(tm.wheel[c], tm.cursor) \in Int
    BY <1>2, <2>2, WheelAssumption DEF Left
  <2> QED BY <1>7, <2>3, <2>4
<1>9. Sound(tm, Unserved)' /\ Synced(tm)'
  <2>1. now \in Nat /\ now' \in Nat /\ now <= now'
    BY <1>0, <1>1
  <2>2. mode' # "heap"
    BY <1>1
  <2>3. Unserved => Unserved'
    BY <1>0, <1>5 DEF Unserved
  <2>4. Synced(tm)'
    BY <1>0, <1>3, <2>2 DEF Synced, Top
  <2> QED BY <1>0, <1>3, <2>1, <2>3, <2>4, FdStays, Zenon
<1> QED BY <1>0, <1>1, <1>3, <1>6, <1>8, <1>9, ClockStep, Zenon

LEMMA StutterKeeps == ASSUME IInv, UNCHANGED vars PROVE IInv'
<1>1. UNCHANGED <<tm, conn, now, ticks, batch, mode, due, seen, early>>
  BY Zenon DEF vars
<1>2. TicksOK' /\ Done' = Done /\ now' \in Nat \ {0}
  BY <1>1, Zenon DEF IInv, TicksOK, Done, TypeOK
<1>3. Sound(tm, Unserved)' /\ Synced(tm)'
  BY <1>1, Zenon DEF IInv, Sound, FdOK, Synced, Unserved, Top
<1> QED BY <1>1, <1>2, <1>3, ClockStep, Zenon

LEMMA NextKeeps == IInv /\ [Next]_vars => IInv'
<1> SUFFICES ASSUME IInv, [Next]_vars PROVE IInv'
  OBVIOUS
<1>1. CASE UNCHANGED vars
  BY <1>1, StutterKeeps, Zenon
<1>2. CASE Loop
  BY <1>2, StartsKeep, DrainStepKeeps, DrainEndsKeeps, TickEndsKeeps, WaitKeeps, ExpiresKeeps,
     Zenon DEF Loop
<1>3. CASE \E c \in Conns : Accept(c) \/ Request(c) \/ EventResumes(c) \/ PeerCloses(c)
  BY <1>3, AcceptKeeps, RequestKeeps, EventResumesKeeps, PeerClosesKeeps, Zenon
<1>4. CASE Advance
  BY <1>4, AdvanceKeeps, Zenon
<1> QED BY <1>1, <1>2, <1>3, <1>4, Zenon DEF Next

LEMMA InitIInv == Init => IInv
<1> SUFFICES ASSUME Init PROVE IInv
  OBVIOUS
<1>1. /\ tm = [wheel |-> [c \in Conns |-> Off], cursor |-> 0, heap |-> <<>>, armed |-> 0, tfd |-> 0]
      /\ conn = [c \in Conns |-> Idle] /\ now = 1 /\ ticks = 0 /\ mode = "loop"
      /\ batch = [handler |-> FALSE, ticks |-> 0] /\ early = {}
      /\ due = [c \in Conns |-> 0] /\ seen = [c \in Conns |-> 0]
  BY Zenon DEF Init
<1>2. /\ tm.wheel = [c \in Conns |-> Off] /\ tm.cursor = 0 /\ tm.heap = <<>> /\ tm.armed = 0
      /\ tm.tfd = 0
  BY <1>1, Zenon
<1>3. Idle \in Slot /\ Idle.open = FALSE /\ Idle.fn = FALSE /\ Idle.armed = FALSE
  BY DEF Idle, Slot, Kinds
<1>4. TypeOK
  BY <1>1, <1>3 DEF TypeOK
<1>5. TicksOK
  BY <1>1, WheelAssumption DEF TicksOK
<1>6. HeapOK(<<>>) /\ ToSet(<<>>) = {}
  <2>1. ToSet(<<>>) = {}
    BY DEF ToSet
  <2>2. <<>> \in Seq({}) /\ Len(<<>>) = 0 /\ 1 .. Len(<<>>) = {} /\ 2 .. Len(<<>>) = {}
    OBVIOUS
  <2>3. Holds(<<>>, {})
    BY <2>2, Zenon DEF Holds, Lists, Distinct, Ordered, Timed, OnePerConn
  <2> QED BY <2>1, <2>3, Zenon DEF HeapOK, OnePerConn
<1>7. Sound(tm, Unserved) /\ Synced(tm)
  <2>1. 0 \in 0 .. Slots - 1 /\ 0 \in Nat
    BY WheelAssumption
  <2>2. tm.wheel \in [Conns -> Places]
    BY <1>2, Zenon DEF Places
  <2>3. <<>> \in Seq(Entry)
    OBVIOUS
  <2>4. tm \in Timers
    BY <1>1, <1>2, <2>1, <2>2, <2>3, Zenon DEF Timers
  <2>5. HeapOK(tm.heap) /\ FdOK(tm, Unserved)
    BY <1>2, <1>6, Zenon DEF FdOK
  <2> QED BY <1>2, <2>4, <2>5, Zenon DEF Sound, Synced, Top
<1>8. ASSUME NEW c \in Conns PROVE SlotOK(c)
  <2>1. conn[c] = Idle /\ tm.wheel[c] = Off /\ Of(c, tm) = {}
    BY <1>1, <1>2, <1>6, <1>8, Zenon DEF Of
  <2> QED BY <1>3, <2>1, Zenon DEF SlotOK, FlagsOK, OnTime
<1> QED BY <1>1, <1>4, <1>5, <1>7, <1>8, Zenon DEF IInv

-----------------------------------------------------------------------------
(* What the timers of the epoll loop promise, whatever the number of connections, the      *)
(* size of the wheel, the capacity of the heap and the waits that handlers ask for.        *)

\* No wakeup is missed: whenever the loop goes to sleep in epoll_wait, the one-shot timerfd
\* is set to the earliest deadline of the yield heap, and disarmed when there is none
\* (rearm_yield_timerfd after push, drain_yield_heap and remove_by_conn).
THEOREM TimerCoversTopHolds == Spec => []TimerCoversTop
<1>1. IInv => TimerCoversTop
  <2> SUFFICES ASSUME IInv, mode = "loop", ~batch.handler PROVE tm.tfd = Top(tm.heap)
    BY Zenon DEF TimerCoversTop, Top
  <2>1. ~Unserved
    BY DEF Unserved
  <2> QED BY <2>1 DEF IInv, Sound, FdOK, Synced
<1> QED BY <1>1, InitIInv, NextKeeps, PTL DEF Spec

\* A handler that sleeps is not resumed before its deadline, and an idle connection is not
\* closed before its keepalive_timeout, but for the seconds the loop is behind with the
\* ticks of timer_fd (schedule_yield_timer, TimerWheel::tick, drain_yield_heap).
THEOREM NeverEarlyHolds == Spec => []NeverEarly
<1>1. IInv => NeverEarly
  BY Zenon DEF IInv, NeverEarly
<1> QED BY <1>1, InitIInv, NextKeeps, PTL DEF Spec

\* Every open connection is guarded by one timer, on the wheel or in the heap; the heap has
\* one entry for a connection at most, and none outlives the wait it was pushed for
\* (schedule_yield_timer, disarm_yield_timer, resume_jit_handler, close_conn_impl).
THEOREM GuardedHolds == Spec => []Guarded
<1>1. IInv => Guarded
  <2> SUFFICES ASSUME IInv PROVE Guarded
    OBVIOUS
  <2>0. HeapOK(tm.heap)
    BY Zenon DEF IInv, Sound
  <2>1. /\ Distinct(tm.heap) /\ ToSet(tm.heap) \subseteq Entry /\ OnePerConn(ToSet(tm.heap))
        /\ DOMAIN tm.heap = 1 .. Len(tm.heap) /\ ToSet(tm.heap) = {tm.heap[i] : i \in DOMAIN tm.heap}
    <3>1. tm.heap \in Seq(Entry)
      BY Zenon DEF IInv, Sound, Timers
    <3>2. DOMAIN tm.heap = 1 .. Len(tm.heap)
      BY <3>1
    <3> QED BY <2>0, <3>2, Zenon DEF HeapOK, Holds, Lists, ToSet
  <2>2. ASSUME NEW c \in Conns
        PROVE  conn[c].open <=>
                 ((tm.wheel[c] # Off) # (\E i \in DOMAIN tm.heap : tm.heap[i].conn = c))
    <3>1. FlagsOK(conn[c], tm.wheel[c], Of(c, tm), due[c]) /\ conn[c] \in Slot
      BY <2>2, Zenon DEF IInv, SlotOK, TypeOK
    <3>2. (\E i \in DOMAIN tm.heap : tm.heap[i].conn = c) <=> Of(c, tm) # {}
      BY <2>1, Zenon DEF Of
    <3>3. conn[c].open \in BOOLEAN
      BY <3>1, Zenon DEF Slot
    <3>4. ~conn[c].open => tm.wheel[c] = Off /\ Of(c, tm) = {}
      BY <3>1, Zenon DEF FlagsOK
    <3>5. conn[c].open => (tm.wheel[c] = Off <=> Of(c, tm) # {})
      BY <3>1, Zenon DEF FlagsOK
    <3> QED BY <3>2, <3>3, <3>4, <3>5, Zenon
  <2>3. ASSUME NEW i \in DOMAIN tm.heap, NEW j \in DOMAIN tm.heap, tm.heap[i].conn = tm.heap[j].conn
        PROVE  i = j
    <3>1. tm.heap[i] = tm.heap[j]
      BY <2>1, <2>3, Zenon DEF OnePerConn
    <3> QED BY <2>1, <2>3, <3>1, Zenon DEF Distinct
  <2>4. ASSUME NEW i \in DOMAIN tm.heap
        PROVE  Live(tm.heap[i]) /\ conn[tm.heap[i].conn].armed
    <3>1. PICK e \in ToSet(tm.heap) : e = tm.heap[i]
      BY <2>1, <2>4, Zenon
    <3>2. e.conn \in Conns /\ e \in Of(e.conn, tm)
      BY <2>1, Zenon DEF Of, Entry
    <3>3. /\ FlagsOK(conn[e.conn], tm.wheel[e.conn], Of(e.conn, tm), due[e.conn])
          /\ conn[e.conn] \in Slot
      BY <3>2, Zenon DEF IInv, SlotOK, TypeOK
    <3>4. conn[e.conn].armed /\ conn[e.conn].fn /\ conn[e.conn].kind # "Recv" /\ conn[e.conn].gen = e.gen
      BY <3>2, <3>3, Zenon DEF FlagsOK
    <3>5. conn[e.conn].kind \in {"Timer", "Any"}
      BY <3>3, <3>4, Zenon DEF Slot, Kinds
    <3> QED BY <3>1, <3>4, <3>5, Zenon DEF Live
  <2> QED BY <2>2, <2>3, <2>4, Zenon DEF Guarded
<1> QED BY <1>1, InitIInv, NextKeeps, PTL DEF Spec

=============================================================================
