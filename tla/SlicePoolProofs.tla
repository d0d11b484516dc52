--------------------------- MODULE SlicePoolProofs ---------------------------
(* Proofs about SlicePool for every number of connections and every step by *)
(* which the pool grows, the code's 16384 and 256 among them.               *)
EXTENDS SlicePool, WellFoundedInduction, TLAPS

USE SMTT(30)

-----------------------------------------------------------------------------
(* The free stack always has room for what is given back. *)

\* The order on the natural numbers, as a relation.
Less == { p \in Nat \X Nat : p[1] < p[2] }

(* A non-empty set of natural numbers has a least element. *)
LEMMA LeastNatural ==
    ASSUME NEW T, T \subseteq Nat, T # {}
    PROVE  \E x \in T : \A y \in T : x <= y
<1>1. IsWellFoundedOn(Less, Nat) BY NatLessThanWellFounded, Zenon DEF OpToRel, Less
<1>2. PICK x \in T : \A y \in T : ~ (<<y, x>> \in Less) BY <1>1, WFMin, Zenon
<1>3. \A y \in T : <<y, x>> \in Less <=> y < x BY DEF Less
<1>4. \A y \in T : ~ (y < x) BY <1>2, <1>3, Zenon
<1>5. \A y \in T : x \in Nat /\ y \in Nat OBVIOUS
<1>6. QED BY <1>4, <1>5

\* n numbers below n, all different, and not x: there is no such thing.
Distinct(g, n, x) ==
    /\ g \in [0 .. n - 1 -> 0 .. n - 1] /\ x \in 0 .. n - 1
    /\ \A j, k \in 0 .. n - 1 : g[j] = g[k] => j = k
    /\ \A k \in 0 .. n - 1 : g[k] # x

(* From n such numbers we get n - 1: the one that is n - 1 becomes the last. *)
LEMMA OneLess ==
    ASSUME NEW n \in Nat, NEW g, NEW x, Distinct(g, n, x)
    PROVE  n - 1 \in Nat /\ \E h, y : Distinct(h, n - 1, y)
<1> DEFINE m == n - 1
           v == g[m]
           h == [k \in 0 .. m - 1 |-> IF g[k] = m THEN v ELSE g[k]]
           y == IF x = m THEN v ELSE x
<1>1. m \in Nat /\ m \in 0 .. n - 1 BY DEF Distinct
<1>2. \A k \in 0 .. m - 1 : k \in 0 .. n - 1 /\ k # m BY <1>1
<1>3. v \in 0 .. n - 1 /\ v # x /\ \A k \in 0 .. m - 1 : g[k] \in 0 .. n - 1 /\ g[k] # v /\ g[k] # x
  BY <1>1, <1>2 DEF Distinct
<1>4. \A j, k \in 0 .. m - 1 : g[j] = g[k] => j = k BY <1>2 DEF Distinct
<1>5. \A k \in 0 .. n - 1 : k # m => k \in 0 .. m - 1 BY <1>1
<1> HIDE DEF v
<1>6. h \in [0 .. m - 1 -> 0 .. m - 1]
  <2>1. SUFFICES ASSUME NEW k \in 0 .. m - 1
                 PROVE  (IF g[k] = m THEN v ELSE g[k]) \in 0 .. m - 1
    OBVIOUS
  <2>2. CASE g[k] = m
    <3>1. v # m BY <1>3, <2>1, <2>2
    <3>2. QED BY <1>3, <1>5, <2>2, <3>1
  <2>3. CASE g[k] # m BY <1>3, <1>5, <2>1, <2>3
  <2>4. QED BY <2>2, <2>3
<1>7. y \in 0 .. m - 1 BY <1>3, <1>5 DEF Distinct
<1>8. ASSUME NEW j \in 0 .. m - 1, NEW k \in 0 .. m - 1, h[j] = h[k] PROVE j = k
  <2>1. (IF g[j] = m THEN v ELSE g[j]) = (IF g[k] = m THEN v ELSE g[k]) BY <1>8
  <2>2. g[j] = g[k] BY <1>3, <1>8, <2>1
  <2>3. QED BY <1>4, <1>8, <2>2
<1>9. ASSUME NEW k \in 0 .. m - 1 PROVE h[k] # y
  <2>1. h[k] = IF g[k] = m THEN v ELSE g[k] BY <1>9
  <2>2. QED BY <1>3, <1>9, <2>1
<1>10. Distinct(h, m, y) BY <1>6, <1>7, <1>8, <1>9 DEF Distinct
<1>11. QED BY <1>1, <1>10

LEMMA NoneMissing == ASSUME NEW n \in Nat, NEW g, NEW x PROVE ~Distinct(g, n, x)
<1> SUFFICES ASSUME Distinct(g, n, x) PROVE FALSE OBVIOUS
<1> DEFINE T == { k \in Nat : \E h, y : Distinct(h, k, y) }
<1>1. PICK k \in T : \A l \in T : k <= l
  <2>1. T # {} /\ T \subseteq Nat OBVIOUS
  <2>2. QED BY <2>1, LeastNatural, Zenon
<1>2. k \in Nat /\ k - 1 \in T BY OneLess, Zenon
<1>3. QED BY <1>1, <1>2

(* A stack of distinct numbers below n that lacks one of them is not full. *)
LEMMA StackRoom ==
    ASSUME NEW n \in Nat, NEW top \in 0 .. n, NEW stack \in [0 .. n - 1 -> 0 .. n - 1],
           \A j, k \in 0 .. top - 1 : stack[j] = stack[k] => j = k,
           NEW x \in 0 .. n - 1, \A k \in 0 .. top - 1 : stack[k] # x
    PROVE  top < n
<1> SUFFICES ASSUME top = n PROVE FALSE OBVIOUS
<1>1. Distinct(stack, n, x) BY Zenon DEF Distinct
<1>2. QED BY <1>1, NoneMissing, Zenon

(* With one place empty the connections cannot hold every slice. *)
SlicePlaces == Conns \X (1 .. 3)
LEMMA SliceLeft ==
    ASSUME NEW place \in [SlicePlaces -> Slices \cup {Null}], NEW e \in SlicePlaces, place[e] = Null
    PROVE  \E s \in Slices : \A q \in SlicePlaces : place[q] # s
<1> SUFFICES ASSUME \A s \in Slices : \E q \in SlicePlaces : place[q] = s PROVE FALSE OBVIOUS
<1> DEFINE Code(q) == 3 * q[1] + q[2] - 1
           At(s) == CHOOSE q \in SlicePlaces : place[q] = s
           f == [s \in Slices |-> Code(At(s))]
<1>1. \A s \in Slices : At(s) \in SlicePlaces /\ place[At(s)] = s BY Zenon
<1>2. ASSUME NEW q \in SlicePlaces, NEW r \in SlicePlaces
      PROVE  Code(q) \in Slices /\ (Code(q) = Code(r) => q = r)
  <2>1. q = <<q[1], q[2]>> /\ r = <<r[1], r[2]>> /\ q[1] \in Conns /\ q[2] \in 1 .. 3
        /\ r[1] \in Conns /\ r[2] \in 1 .. 3
    BY <1>2 DEF SlicePlaces
  <2>2. Code(q) \in Slices BY <2>1, PoolAssumption DEF Conns, Slices, MaxCount
  <2>3. Code(q) = Code(r) => q[1] = r[1] /\ q[2] = r[2] BY <2>1, PoolAssumption DEF Conns
  <2>4. QED BY <2>1, <2>2, <2>3
<1> HIDE DEF Code, At
<1>3. \A s \in Slices : f[s] = Code(At(s)) /\ f[s] \in Slices BY <1>1, <1>2
<1>4. \A s \in Slices : At(s) # e BY <1>1, PoolAssumption DEF Slices, Null, MaxCount
<1>5. \A s, t \in Slices : f[s] = f[t] => s = t
  <2>1. SUFFICES ASSUME NEW s \in Slices, NEW t \in Slices, f[s] = f[t] PROVE s = t OBVIOUS
  <2>2. At(s) = At(t) BY <1>1, <1>2, <1>3, <2>1, Zenon
  <2>3. QED BY <1>1, <2>2, Zenon
<1>6. \A s \in Slices : f[s] # Code(e)
  <2>1. SUFFICES ASSUME NEW s \in Slices, f[s] = Code(e) PROVE FALSE OBVIOUS
  <2>2. At(s) = e BY <1>1, <1>2, <1>3, <2>1, Zenon
  <2>3. QED BY <1>4, <2>2, Zenon
<1>7. f \in [Slices -> Slices] /\ Code(e) \in Slices BY <1>2, <1>3
<1> HIDE DEF f
<1>8. Distinct(f, MaxCount, Code(e)) BY <1>5, <1>6, <1>7, Zenon DEF Distinct, Slices
<1>9. MaxCount \in Nat BY PoolAssumption DEF MaxCount
<1>10. QED BY <1>8, <1>9, NoneMissing, Zenon

-----------------------------------------------------------------------------
(* The pool by itself. *)

Used(p) == { s \in Slices : p.used[s] }

PoolType == [stack : [Slices -> Slices], top : 0 .. MaxCount, used : [Slices -> BOOLEAN],
             count : 0 .. MaxCount]

(* The stack holds the committed slices that are not in use, each once. *)
PoolOK(p) ==
    /\ p \in PoolType
    /\ \A s \in Used(p) : s < p.count
    /\ \A k \in 0 .. p.top - 1 : p.stack[k] < p.count /\ p.stack[k] \notin Used(p)
    /\ \A j, k \in 0 .. p.top - 1 : p.stack[j] = p.stack[k] => j = k
    /\ \A s \in Slices \ Used(p) : s < p.count => \E k \in 0 .. p.top - 1 : p.stack[k] = s

(* There is room for a slice, and the null pointer is none. *)
LEMMA MaxCountType == MaxCount \in Nat /\ MaxCount > 0 /\ 0 \in Slices /\ Null \notin Slices
BY PoolAssumption DEF MaxCount, Slices, Null

(* free gives back a slice that is in use and ignores the others. *)
LEMMA FreeGivesBack ==
    ASSUME NEW p, PoolOK(p), NEW s \in Slices \cup {Null}
    PROVE  /\ PoolOK(free(p, s))
           /\ Used(free(p, s)) = Used(p) \ {s}
           /\ free(p, s).count = p.count
<1> USE MaxCountType
<1>1. CASE s \notin Used(p)
  <2>1. s < 0 \/ ~p.used[s] BY <1>1 DEF Used, Null
  <2>2. free(p, s) = p BY <2>1 DEF free
  <2>3. QED BY <1>1, <2>2
<1>2. CASE s \in Used(p)
  <2>1. s \in Slices /\ s < p.count /\ s >= 0 /\ p.used[s] BY <1>2 DEF Used, PoolOK, Slices
  <2>2. p.top < MaxCount
    <3>1. p.top \in 0 .. MaxCount /\ p.stack \in [0 .. MaxCount - 1 -> 0 .. MaxCount - 1]
      BY DEF PoolOK, PoolType, Slices
    <3>2. \A k \in 0 .. p.top - 1 : p.stack[k] # s BY <1>2 DEF PoolOK
    <3>3. \A j, k \in 0 .. p.top - 1 : p.stack[j] = p.stack[k] => j = k BY DEF PoolOK
    <3>4. s \in 0 .. MaxCount - 1 BY <2>1 DEF Slices
    <3>5. QED BY <3>1, <3>2, <3>3, <3>4, StackRoom, Zenon
  <2> DEFINE q == [stack |-> [p.stack EXCEPT ![p.top] = s], top |-> p.top + 1,
                   used |-> [p.used EXCEPT ![s] = FALSE], count |-> p.count]
  <2>3. free(p, s) = q
    <3>1. p.count \in 0 .. MaxCount /\ p.top \in 0 .. MaxCount BY DEF PoolOK, PoolType
    <3>2. ~(s < 0 \/ s >= p.count \/ p.top >= MaxCount) BY <2>1, <2>2, <3>1 DEF Slices
    <3>3. QED BY <2>1, <3>2 DEF free
  <2>4. /\ q.count = p.count /\ q.top = p.top + 1
        /\ q.used = [p.used EXCEPT ![s] = FALSE]
        /\ q.stack = [p.stack EXCEPT ![p.top] = s]
        /\ q \in PoolType
    <3>1. /\ p \in PoolType /\ p.stack \in [Slices -> Slices] /\ p.used \in [Slices -> BOOLEAN]
          /\ p.count \in 0 .. MaxCount /\ p.top + 1 \in 0 .. MaxCount
      BY <2>2 DEF PoolOK, PoolType
    <3>2. [p.used EXCEPT ![s] = FALSE] \in [Slices -> BOOLEAN] BY <3>1, Zenon
    <3>3. [p.stack EXCEPT ![p.top] = s] \in [Slices -> Slices] BY <3>1, <2>1, Zenon
    <3>4. QED BY <3>1, <3>2, <3>3 DEF PoolType
  <2>5. Used(q) = Used(p) \ {s} BY <2>1, <2>4 DEF Used, PoolOK, PoolType
  <2> HIDE DEF q
  <2>6. p.top \in 0 .. MaxCount /\ p.stack \in [Slices -> Slices] /\ p.top \in Slices
    BY <2>2 DEF PoolOK, PoolType, Slices
  <2>7. q.stack[p.top] = s /\ \A k \in 0 .. p.top - 1 : q.stack[k] = p.stack[k]
    <3>1. \A k \in 0 .. p.top - 1 : k \in Slices /\ k # p.top BY <2>6 DEF Slices
    <3>2. QED BY <3>1, <2>4, <2>6
  <2>8. \A k \in 0 .. p.top - 1 : p.stack[k] # s BY <1>2 DEF PoolOK
  <2>9. PoolOK(q)
    <3>1. \A r \in Used(q) : r < q.count BY <2>4, <2>5 DEF PoolOK
    <3>2. \A k \in 0 .. q.top - 1 : q.stack[k] < q.count /\ q.stack[k] \notin Used(q)
      <4> SUFFICES ASSUME NEW k \in 0 .. q.top - 1
                   PROVE  q.stack[k] < q.count /\ q.stack[k] \notin Used(q)
          OBVIOUS
      <4>1. k \in 0 .. p.top - 1 \/ k = p.top BY <2>4, <2>6
      <4>2. QED BY <4>1, <2>1, <2>4, <2>5, <2>7 DEF PoolOK
    <3>3. \A j, k \in 0 .. q.top - 1 : q.stack[j] = q.stack[k] => j = k
      <4> SUFFICES ASSUME NEW j \in 0 .. q.top - 1, NEW k \in 0 .. q.top - 1, q.stack[j] = q.stack[k]
                   PROVE  j = k
          OBVIOUS
      <4>1. (j \in 0 .. p.top - 1 \/ j = p.top) /\ (k \in 0 .. p.top - 1 \/ k = p.top) BY <2>4, <2>6
      <4>2. QED BY <4>1, <2>7, <2>8 DEF PoolOK
    <3>4. \A r \in Slices \ Used(q) : r < q.count => \E k \in 0 .. q.top - 1 : q.stack[k] = r
      <4> SUFFICES ASSUME NEW r \in Slices \ Used(q), r < q.count
                   PROVE  \E k \in 0 .. q.top - 1 : q.stack[k] = r
          OBVIOUS
      <4>1. CASE r = s BY <4>1, <2>4, <2>6, <2>7
      <4>2. CASE r # s
        <5>1. PICK k \in 0 .. p.top - 1 : p.stack[k] = r BY <4>2, <2>4, <2>5 DEF PoolOK
        <5>2. k \in 0 .. q.top - 1 BY <2>4, <2>6
        <5>3. QED BY <5>1, <5>2, <2>7
      <4>3. QED BY <4>1, <4>2
    <3>5. QED BY <2>4, <3>1, <3>2, <3>3, <3>4 DEF PoolOK
  <2>10. QED BY <2>3, <2>4, <2>5, <2>9, Zenon DEF q
<1>3. QED BY <1>1, <1>2

(* Taking the top of the stack lends a slice that was free. *)
LEMMA TakenLends ==
    ASSUME NEW p, PoolOK(p), p.top > 0
    PROVE  /\ PoolOK(Taken(p).pool)
           /\ Taken(p).slice \in Slices \ Used(p)
           /\ Used(Taken(p).pool) = Used(p) \cup {Taken(p).slice}
<1> USE MaxCountType
<1> DEFINE t == p.top - 1
           s == p.stack[t]
           q == [stack |-> [p.stack EXCEPT ![t] = 0], top |-> t,
                 used |-> [p.used EXCEPT ![s] = TRUE], count |-> p.count]
<1>1. Taken(p).slice = s /\ Taken(p).pool = q BY DEF Taken
<1>2. /\ p.stack \in [Slices -> Slices] /\ p.used \in [Slices -> BOOLEAN]
      /\ p.count \in 0 .. MaxCount /\ p.top \in 0 .. MaxCount
  BY DEF PoolOK, PoolType
<1>3. t \in 0 .. p.top - 1 /\ t \in Slices /\ t \in 0 .. MaxCount BY <1>2 DEF Slices
<1>4. s \in Slices \ Used(p) /\ s < p.count BY <1>2, <1>3 DEF PoolOK
<1> HIDE DEF s
<1>5. q \in PoolType
  <2>1. [p.used EXCEPT ![s] = TRUE] \in [Slices -> BOOLEAN] BY <1>2, Zenon
  <2>2. [p.stack EXCEPT ![t] = 0] \in [Slices -> Slices] BY <1>2, Zenon
  <2>3. QED BY <1>2, <1>3, <2>1, <2>2 DEF PoolType
<1>6. Used(q) = Used(p) \cup {s} BY <1>2, <1>4 DEF Used
<1>7. q.top = t /\ q.count = p.count /\ \A k \in 0 .. q.top - 1 : q.stack[k] = p.stack[k]
  <2>1. \A k \in 0 .. t - 1 : k \in Slices /\ k # t
    <3>1. \A n, m \in Int : \A k \in 0 .. n - 1 : n <= m => k \in 0 .. m - 1 /\ k # n OBVIOUS
    <3>2. t \in Int /\ MaxCount \in Int /\ t <= MaxCount BY <1>3
    <3> HIDE DEF t, q
    <3>3. QED BY <3>1, <3>2, Zenon DEF Slices
  <2>2. QED BY <2>1, <1>2
<1>8. \A k \in 0 .. q.top - 1 : k \in 0 .. p.top - 1 /\ k # t BY <1>2, <1>7
<1>9. p.stack[t] = s BY DEF s
<1> HIDE DEF q, t
<1>10. PoolOK(q)
  <2>1. \A r \in Used(q) : r < q.count BY <1>4, <1>6, <1>7 DEF PoolOK
  <2>2. \A k \in 0 .. q.top - 1 : q.stack[k] < q.count /\ q.stack[k] \notin Used(q)
    BY <1>3, <1>6, <1>7, <1>8, <1>9 DEF PoolOK
  <2>3. \A j, k \in 0 .. q.top - 1 : q.stack[j] = q.stack[k] => j = k BY <1>7, <1>8 DEF PoolOK
  <2>4. \A r \in Slices \ Used(q) : r < q.count => \E k \in 0 .. q.top - 1 : q.stack[k] = r
    <3> SUFFICES ASSUME NEW r \in Slices \ Used(q), r < q.count
                 PROVE  \E k \in 0 .. q.top - 1 : q.stack[k] = r
        OBVIOUS
    <3>1. r \in Slices \ Used(p) /\ r # s /\ r < p.count BY <1>6, <1>7
    <3>2. PICK k \in 0 .. p.top - 1 : p.stack[k] = r BY <3>1 DEF PoolOK
    <3>3. k \in 0 .. q.top - 1 BY <3>1, <3>2, <1>2, <1>7, <1>9 DEF t
    <3>4. QED BY <3>2, <3>3, <1>7
  <2>5. QED BY <1>5, <2>1, <2>2, <2>3, <2>4 DEF PoolOK
<1>11. QED BY <1>1, <1>4, <1>6, <1>10

(* Committing more memory puts new slices on an empty stack and lends none. *)
LEMMA GrownKeeps ==
    ASSUME NEW p, PoolOK(p), p.top = 0, p.count < MaxCount
    PROVE  PoolOK(Grown(p)) /\ Grown(p).top > 0 /\ Used(Grown(p)) = Used(p)
<1> USE MaxCountType
<1> DEFINE step == Smaller(GrowStep, MaxCount - p.count)
           g == Grown(p)
<1>1. /\ p.stack \in [Slices -> Slices] /\ p.used \in [Slices -> BOOLEAN] /\ p.count \in 0 .. MaxCount
  BY DEF PoolOK, PoolType
<1>2. step \in 1 .. MaxCount - p.count BY <1>1, PoolAssumption DEF Smaller
<1>3. /\ g.stack = [k \in Slices |-> IF k \in 0 .. step - 1 THEN p.count + k ELSE p.stack[k]]
      /\ g.top = step /\ g.used = p.used /\ g.count = p.count + step
      /\ g = [stack |-> g.stack, top |-> g.top, used |-> g.used, count |-> g.count]
  <2>1. p.count + step \in Int /\ \A k \in Slices : p.top + step - 1 = step - 1 /\ k - p.top = k /\ 0 + step = step
    BY <1>1, <1>2 DEF Slices
  <2> HIDE DEF step
  <2>2. QED BY <2>1 DEF Grown, step
<1> HIDE DEF step, g
<1>4. \A k \in 0 .. g.top - 1 : k \in Slices /\ g.stack[k] = p.count + k BY <1>1, <1>2, <1>3 DEF Slices
<1>5. g \in PoolType
  <2>1. \A k \in Slices : g.stack[k] \in Slices BY <1>1, <1>2, <1>3 DEF Slices
  <2>2. g.stack \in [Slices -> Slices] BY <2>1, <1>3
  <2>3. QED BY <2>2, <1>1, <1>2, <1>3 DEF PoolType
<1>6. Used(g) = Used(p) BY <1>3 DEF Used
<1>7. PoolOK(g)
  <2>1. \A r \in Used(g) : r \in Slices /\ r < p.count /\ r < g.count
    BY <1>1, <1>2, <1>3, <1>6 DEF PoolOK, Used, Slices
  <2>2. \A k \in 0 .. g.top - 1 : g.stack[k] < g.count /\ g.stack[k] \notin Used(g)
    BY <1>1, <1>2, <1>3, <1>4, <2>1 DEF Slices
  <2>3. \A j, k \in 0 .. g.top - 1 : g.stack[j] = g.stack[k] => j = k BY <1>1, <1>4, <1>3, <1>2
  <2>4. \A r \in Slices \ Used(g) : r < g.count => \E k \in 0 .. g.top - 1 : g.stack[k] = r
    <3> SUFFICES ASSUME NEW r \in Slices \ Used(g), r < g.count
                 PROVE  \E k \in 0 .. g.top - 1 : g.stack[k] = r
        OBVIOUS
    <3>1. ~(r < p.count) BY <1>6 DEF PoolOK
    <3>2. r - p.count \in 0 .. g.top - 1 BY <3>1, <1>1, <1>2, <1>3 DEF Slices
    <3>3. g.stack[r - p.count] = p.count + (r - p.count) BY <3>2, <1>4
    <3>4. p.count + (r - p.count) = r BY <1>1 DEF Slices
    <3>5. QED BY <3>2, <3>3, <3>4
  <2>5. QED BY <1>5, <2>1, <2>2, <2>3, <2>4 DEF PoolOK
<1>8. QED BY <1>2, <1>3, <1>6, <1>7 DEF g

(* alloc lends a slice that was free, or fails and changes nothing; it fails without  *)
(* a try to commit memory only if every slice is in use.                              *)
LEMMA AllocLends ==
    ASSUME NEW p, PoolOK(p), NEW a \in Allocs(p)
    PROVE  /\ PoolOK(a.pool)
           /\ \/ a.slice = Null /\ a.pool = p
              \/ a.slice \in Slices \ Used(p) /\ Used(a.pool) = Used(p) \cup {a.slice}
<1> USE MaxCountType
<1>0. p.top \in 0 .. MaxCount BY DEF PoolOK, PoolType
<1>1. CASE p.top > 0
  <2>1. a = Taken(p) BY <1>1 DEF Allocs
  <2>2. QED BY <1>1, <2>1, TakenLends
<1>2. CASE ~(p.top > 0) /\ a = [slice |-> Null, pool |-> p]
  BY <1>2
<1>3. CASE ~(p.top > 0) /\ p.count < MaxCount /\ a = Taken(Grown(p))
  <2>1. PoolOK(Grown(p)) /\ Grown(p).top > 0 /\ Used(Grown(p)) = Used(p) BY <1>0, <1>3, GrownKeeps
  <2>2. /\ PoolOK(a.pool) /\ a.slice \in Slices \ Used(Grown(p))
        /\ Used(a.pool) = Used(Grown(p)) \cup {a.slice}
    BY <1>3, <2>1, TakenLends
  <2>3. QED BY <2>1, <2>2
<1>4. QED BY <1>1, <1>2, <1>3 DEF Allocs

(* Where alloc refuses without trying to commit memory, every slice is lent. *)
LEMMA ExhaustedPool ==
    ASSUME NEW p, PoolOK(p), Exhausted(p)
    PROVE  Used(p) = Slices
<1>1. p.top = 0 /\ p.count = MaxCount
  BY MaxCountType DEF Exhausted, PoolOK, PoolType
<1>2. \A s \in Slices : s < p.count BY <1>1, MaxCountType DEF Slices
<1>3. \A s \in Slices : s \in Used(p) BY <1>1, <1>2 DEF PoolOK
<1>4. QED BY <1>3 DEF Used

-----------------------------------------------------------------------------
(* The connections. *)

SlicesOf == [recv : Slices \cup {Null}, send : Slices \cup {Null}, upstream : Slices \cup {Null}]

(* What is lent is what connections hold, each slice by one of them; the connections on  *)
(* the loop's stack are there once and hold nothing.                                     *)
PoolInv ==
    /\ PoolOK(pool)
    /\ slices \in [Conns -> SlicesOf]
    /\ idle \in [stack : [Conns -> Conns], top : 0 .. MaxConns]
    /\ \A k \in 0 .. idle.top - 1 : slices[idle.stack[k]] = NoSlices
    /\ \A j, k \in 0 .. idle.top - 1 : idle.stack[j] = idle.stack[k] => j = k
    /\ \A c \in Conns : IF slices[c].recv = Null THEN slices[c] = NoSlices
                        ELSE /\ slices[c].send # Null
                             /\ slices[c].recv # slices[c].send
                             /\ slices[c].upstream \notin {slices[c].recv, slices[c].send}
    /\ \A c, d \in Conns : c # d => Held(c) \cap Held(d) = {}
    /\ Used(pool) = UNION { Held(c) : c \in Conns }
    /\ ~refused

(* What a connection holds are slices. *)
LEMMA HeldType ==
    ASSUME slices \in [Conns -> SlicesOf], NEW c \in Conns
    PROVE  /\ Held(c) \subseteq Slices
           /\ slices[c].recv \in Slices \cup {Null}
           /\ slices[c].send \in Slices \cup {Null}
           /\ slices[c].upstream \in Slices \cup {Null}
BY DEF Held, SlicesOf

(* The entries of the stack of idle connections are connections. *)
LEMMA IdleType ==
    ASSUME PoolInv
    PROVE  /\ idle.top \in 0 .. MaxConns /\ idle.stack \in [Conns -> Conns]
           /\ \A k \in 0 .. idle.top - 1 : k \in Conns /\ idle.stack[k] \in Conns
<1>1. idle.top \in 0 .. MaxConns /\ idle.stack \in [Conns -> Conns] BY DEF PoolInv
<1>2. \A k \in 0 .. idle.top - 1 : k \in Conns BY <1>1, PoolAssumption DEF Conns
<1>3. QED BY <1>1, <1>2

(* A pool that init filled, nothing lent, satisfies the invariant. *)
LEMMA PoolInitInv == PoolInit => PoolInv
<1> SUFFICES ASSUME PoolInit PROVE PoolInv OBVIOUS
<1> USE MaxCountType
<1>1. PICK steps \in 0 .. MaxCount :
        LET n == Smaller(steps * GrowStep, MaxCount)
        IN  pool = [stack |-> [k \in Slices |-> IF k < n THEN k ELSE 0], top |-> n,
                    used |-> [s \in Slices |-> FALSE], count |-> n]
  BY Zenon DEF PoolInit
<1> DEFINE n == Smaller(steps * GrowStep, MaxCount)
<1>2. n \in 0 .. MaxCount
  <2>1. steps * GrowStep \in Nat BY PoolAssumption
  <2>2. QED BY <2>1 DEF Smaller
<1>3. /\ pool.stack = [k \in Slices |-> IF k < n THEN k ELSE 0] /\ pool.top = n
      /\ pool.used = [s \in Slices |-> FALSE] /\ pool.count = n
      /\ pool = [stack |-> pool.stack, top |-> pool.top, used |-> pool.used, count |-> pool.count]
  BY <1>1
<1> HIDE DEF n
<1>4. Used(pool) = {} BY <1>3 DEF Used
<1>5. PoolOK(pool)
  <2>1. pool \in PoolType
    <3>1. pool.stack \in [Slices -> Slices] BY <1>3
    <3>2. pool.used \in [Slices -> BOOLEAN] BY <1>3
    <3>3. QED BY <1>2, <1>3, <3>1, <3>2, Zenon DEF PoolType
  <2>2. \A k \in 0 .. n - 1 : k \in Slices /\ pool.stack[k] = k BY <1>2, <1>3 DEF Slices
  <2>3. \A r \in Slices : r < n => r \in 0 .. n - 1 BY <1>2 DEF Slices
  <2>4. QED BY <1>2, <1>3, <1>4, <2>1, <2>2, <2>3 DEF PoolOK
<1>6. /\ slices = [c \in Conns |-> NoSlices] /\ ~refused
      /\ idle = [stack |-> [k \in Conns |-> k], top |-> MaxConns]
  BY DEF PoolInit
<1>7. \A c \in Conns : slices[c] = NoSlices /\ Held(c) = {} BY <1>6 DEF Held, NoSlices
<1>8. slices \in [Conns -> SlicesOf] BY <1>6 DEF SlicesOf, NoSlices
<1>9. /\ idle \in [stack : [Conns -> Conns], top : 0 .. MaxConns]
      /\ \A k \in 0 .. idle.top - 1 : k \in Conns /\ idle.stack[k] = k
  BY <1>6, PoolAssumption DEF Conns
<1>10. QED BY <1>4, <1>5, <1>6, <1>7, <1>8, <1>9 DEF PoolInv, NoSlices

(* The invariant says that every slice is lent once, and that none was refused. *)
LEMMA PoolInvMeans == PoolInv => LentOnce /\ NeverStarved
<1> SUFFICES ASSUME PoolInv PROVE LentOnce /\ NeverStarved OBVIOUS
<1> USE MaxCountType
<1> DEFINE held == UNION { Held(c) : c \in Conns }
<1>0. PoolOK(pool) /\ held = Used(pool) BY DEF PoolInv
<1>1. \A c, d \in Conns : c # d => Held(c) \cap Held(d) = {} BY DEF PoolInv
<1>2. \A c \in Conns : slices[c].recv # Null =>
            /\ slices[c].send # Null
            /\ slices[c].recv # slices[c].send
            /\ slices[c].upstream \notin {slices[c].recv, slices[c].send}
  BY DEF PoolInv
<1> HIDE DEF held
<1>3. OnStack(pool) \cap held = {} BY <1>0 DEF OnStack, PoolOK
<1>4. OnStack(pool) \cup held = 0 .. pool.count - 1
  <2>1. /\ pool.stack \in [Slices -> Slices] /\ pool.count \in 0 .. MaxCount /\ pool.top \in 0 .. MaxCount
    BY <1>0 DEF PoolOK, PoolType
  <2>2. \A k \in 0 .. pool.top - 1 : k \in Slices BY <2>1 DEF Slices
  <2>3. \A s \in OnStack(pool) : s \in Slices /\ s < pool.count BY <1>0, <2>1, <2>2 DEF OnStack, PoolOK
  <2>4. \A s \in Used(pool) : s \in Slices /\ s < pool.count BY <1>0 DEF PoolOK, Used
  <2>5. \A s \in Slices \ Used(pool) : s < pool.count => s \in OnStack(pool) BY <1>0 DEF OnStack, PoolOK
  <2>6. \A s : s \in 0 .. pool.count - 1 <=> s \in Slices /\ s < pool.count BY <2>1 DEF Slices
  <2>7. QED BY <1>0, <2>3, <2>4, <2>5, <2>6
<1>5. \A j, k \in 0 .. pool.top - 1 : pool.stack[j] = pool.stack[k] => j = k BY <1>0 DEF PoolOK
<1>6. ~refused BY DEF PoolInv
<1>7. QED BY <1>1, <1>2, <1>3, <1>4, <1>5, <1>6 DEF LentOnce, NeverStarved, held

(* While a connection has no slice for its upstream, and x is the only one that was taken  *)
(* and is not held yet, some slice is free.                                               *)
LEMMA OneIsFree ==
    ASSUME slices \in [Conns -> SlicesOf], NEW c \in Conns, slices[c].upstream = Null,
           NEW x \in Slices \cup {Null}, x # Null => slices[c].recv = Null
    PROVE  (UNION { Held(d) : d \in Conns }) \cup ({x} \ {Null}) # Slices
<1> DEFINE Place(d, i) == IF i = 1 THEN (IF d = c /\ x # Null THEN x ELSE slices[d].recv)
                          ELSE IF i = 2 THEN slices[d].send ELSE slices[d].upstream
           place == [q \in SlicePlaces |-> Place(q[1], q[2])]
<1>1. \A q \in SlicePlaces : q[1] \in Conns /\ Place(q[1], q[2]) \in Slices \cup {Null} BY HeldType DEF SlicePlaces
<1>2. \A d \in Conns : /\ <<d, 1>> \in SlicePlaces /\ place[<<d, 1>>] = Place(d, 1)
                       /\ <<d, 2>> \in SlicePlaces /\ place[<<d, 2>>] = slices[d].send
                       /\ <<d, 3>> \in SlicePlaces /\ place[<<d, 3>>] = slices[d].upstream
  BY DEF SlicePlaces
<1>3. place \in [SlicePlaces -> Slices \cup {Null}] BY <1>1
<1> HIDE DEF place
<1>4. <<c, 3>> \in SlicePlaces /\ place[<<c, 3>>] = Null BY <1>2, Zenon
<1>5. PICK s \in Slices : \A q \in SlicePlaces : place[q] # s BY <1>3, <1>4, SliceLeft
<1>6. \A d \in Conns : Place(d, 1) # s /\ slices[d].send # s /\ slices[d].upstream # s BY <1>2, <1>5, Zenon
<1>7. \A d \in Conns : s \notin Held(d)
  <2> SUFFICES ASSUME NEW d \in Conns PROVE s \notin Held(d) OBVIOUS
  <2>1. slices[d].recv # s BY <1>6, MaxCountType
  <2>2. QED BY <2>1, <1>6 DEF Held
<1>8. s \notin {x} \ {Null} BY <1>6
<1>9. QED BY <1>7, <1>8

(* alloc_upstream_buf keeps the invariant. *)
LEMMA AllocUpstreamBufKeeps ==
    ASSUME PoolInv, NEW c \in Conns, AllocUpstreamBuf(c)
    PROVE  PoolInv'
<1> USE MaxCountType
<1>1. /\ slices[c].recv # Null /\ slices[c].upstream = Null /\ idle' = idle
  BY DEF AllocUpstreamBuf
<1>2. PICK a \in Allocs(pool) : /\ refused' = (refused \/ (a.slice = Null /\ Exhausted(pool)))
                               /\ pool' = a.pool
                               /\ slices' = [slices EXCEPT ![c].upstream = a.slice]
  BY Zenon DEF AllocUpstreamBuf
<1>3. PoolOK(pool) /\ slices \in [Conns -> SlicesOf] /\ Used(pool) = UNION { Held(d) : d \in Conns } /\ ~refused
  BY DEF PoolInv
<1>4. /\ PoolOK(pool')
      /\ \/ a.slice = Null /\ pool' = pool
         \/ a.slice \in Slices \ Used(pool) /\ Used(pool') = Used(pool) \cup {a.slice}
  BY <1>2, <1>3, AllocLends
<1>5. a.slice \in Slices \cup {Null} BY <1>4
<1>6. ~refused'
  <2>1. Used(pool) # Slices
    <3>1. (UNION { Held(d) : d \in Conns }) \cup ({Null} \ {Null}) # Slices BY <1>1, <1>3, OneIsFree
    <3>2. QED BY <3>1, <1>3
  <2>2. ~Exhausted(pool) BY <2>1, <1>3, ExhaustedPool
  <2>3. QED BY <2>2, <1>2, <1>3, Zenon
<1>7. /\ slices' \in [Conns -> SlicesOf]
      /\ \A d \in Conns : d # c => slices'[d] = slices[d]
      /\ slices'[c].recv = slices[c].recv /\ slices'[c].send = slices[c].send /\ slices'[c].upstream = a.slice
  BY <1>2, <1>3, <1>5 DEF SlicesOf
<1>8. /\ \A d \in Conns : d # c => Held(d)' = Held(d)
      /\ Held(c)' = Held(c) \cup ({a.slice} \ {Null})
  BY <1>1, <1>7 DEF Held
<1>9. \A d \in Conns : Held(d) \subseteq Used(pool) BY <1>3
<1>10. Used(pool)' = UNION { Held(d)' : d \in Conns }
  <2>1. Used(pool') = Used(pool) \cup ({a.slice} \ {Null}) BY <1>4
  <2>2. QED BY <2>1, <1>3, <1>8 DEF Used
<1>11. \A d, e \in Conns : d # e => Held(d)' \cap Held(e)' = {}
  <2>1. \A d, e \in Conns : d # e => Held(d) \cap Held(e) = {} BY DEF PoolInv
  <2>2. \A d \in Conns : (({a.slice} \ {Null}) \cap Held(d)) = {} BY <1>4, <1>9
  <2>3. QED BY <2>1, <2>2, <1>8
<1>12. \A k \in 0 .. idle'.top - 1 : slices'[idle'.stack[k]] = NoSlices
  <2>1. \A k \in 0 .. idle.top - 1 : idle.stack[k] \in Conns BY IdleType
  <2>2. \A k \in 0 .. idle.top - 1 : slices[idle.stack[k]] = NoSlices BY DEF PoolInv
  <2>3. \A k \in 0 .. idle.top - 1 : idle.stack[k] # c BY <2>2, <1>1 DEF NoSlices
  <2>4. QED BY <2>1, <2>2, <2>3, <1>1, <1>7
<1>13. \A d \in Conns : IF slices'[d].recv = Null THEN slices'[d] = NoSlices
                        ELSE /\ slices'[d].send # Null
                             /\ slices'[d].recv # slices'[d].send
                             /\ slices'[d].upstream \notin {slices'[d].recv, slices'[d].send}
  <2>1. \A d \in Conns : IF slices[d].recv = Null THEN slices[d] = NoSlices
                        ELSE /\ slices[d].send # Null
                             /\ slices[d].recv # slices[d].send
                             /\ slices[d].upstream \notin {slices[d].recv, slices[d].send}
    BY DEF PoolInv
  <2>2. slices[c].recv \in Used(pool) /\ slices[c].send \in Used(pool)
    BY <2>1, <1>1, <1>9 DEF Held
  <2>3. a.slice \notin {slices[c].recv, slices[c].send} BY <2>1, <2>2, <1>1, <1>4
  <2>4. QED BY <2>1, <2>3, <1>1, <1>7
<1>14. /\ idle' \in [stack : [Conns -> Conns], top : 0 .. MaxConns]
       /\ \A j, k \in 0 .. idle'.top - 1 : idle'.stack[j] = idle'.stack[k] => j = k
  BY <1>1 DEF PoolInv
<1>15. PoolOK(pool)' BY <1>4 DEF PoolOK, PoolType, Used
<1>16. QED BY <1>6, <1>7, <1>10, <1>11, <1>12, <1>13, <1>14, <1>15 DEF PoolInv

(* free_conn keeps the invariant: what it gives back was lent to it alone. *)
LEMMA FreeConnKeeps ==
    ASSUME PoolInv, NEW c \in Conns, FreeConn(c)
    PROVE  PoolInv'
<1> USE MaxCountType
<1>1. /\ slices[c].recv # Null /\ refused' = refused
      /\ pool' = free(free(free(pool, slices[c].recv), slices[c].send), slices[c].upstream)
      /\ idle' = [stack |-> [idle.stack EXCEPT ![idle.top] = c], top |-> idle.top + 1]
      /\ slices' = [slices EXCEPT ![c] = NoSlices]
  BY Zenon DEF FreeConn
<1>2. /\ PoolOK(pool) /\ slices \in [Conns -> SlicesOf] /\ Used(pool) = UNION { Held(d) : d \in Conns }
      /\ ~refused /\ \A d, e \in Conns : d # e => Held(d) \cap Held(e) = {}
  BY DEF PoolInv
<1>3. PoolOK(pool') /\ Used(pool') = Used(pool) \ Held(c)
  <2> DEFINE p1 == free(pool, slices[c].recv)
             p2 == free(p1, slices[c].send)
  <2>1. PoolOK(p1) /\ Used(p1) = Used(pool) \ {slices[c].recv} BY <1>2, HeldType, FreeGivesBack, Zenon
  <2> HIDE DEF p1
  <2>2. PoolOK(p2) /\ Used(p2) = Used(p1) \ {slices[c].send} BY <1>2, <2>1, HeldType, FreeGivesBack, Zenon
  <2> HIDE DEF p2
  <2>3. PoolOK(pool') /\ Used(pool') = Used(p2) \ {slices[c].upstream}
    <3>1. pool' = free(p2, slices[c].upstream) BY <1>1 DEF p1, p2
    <3>2. slices[c].upstream \in Slices \cup {Null} BY <1>2, HeldType
    <3>3. QED BY <3>1, <3>2, <2>2, FreeGivesBack
  <2>4. Null \notin Used(pool) BY DEF Used
  <2>5. QED BY <2>1, <2>2, <2>3, <2>4 DEF Held
<1>4. /\ slices' \in [Conns -> SlicesOf] /\ slices'[c] = NoSlices
      /\ \A d \in Conns : d # c => slices'[d] = slices[d]
  <2>1. NoSlices \in SlicesOf BY DEF NoSlices, SlicesOf
  <2>2. QED BY <2>1, <1>1, <1>2
<1>5. Held(c)' = {} /\ \A d \in Conns : d # c => Held(d)' = Held(d) BY <1>4 DEF Held, NoSlices
<1>6. Used(pool)' = UNION { Held(d)' : d \in Conns }
  <2>1. Used(pool)' = Used(pool') BY DEF Used
  <2>2. \A s : s \in Used(pool') <=> \E d \in Conns : d # c /\ s \in Held(d) BY <1>2, <1>3
  <2>3. \A s : s \in Used(pool') <=> \E d \in Conns : s \in Held(d)' BY <2>2, <1>5
  <2>4. QED BY <2>1, <2>3
<1>7. \A d, e \in Conns : d # e => Held(d)' \cap Held(e)' = {} BY <1>2, <1>5
<1>8. \A k \in 0 .. idle.top - 1 : idle.stack[k] \in Conns /\ idle.stack[k] # c /\ k \in Conns
  BY <1>1, IdleType DEF PoolInv, NoSlices
<1>9. \A j, k \in 0 .. idle.top - 1 : idle.stack[j] = idle.stack[k] => j = k BY DEF PoolInv
<1>10. idle.top \in 0 .. MaxConns - 1 /\ idle.top \in Conns
  <2>1. MaxConns \in Nat /\ c \in 0 .. MaxConns - 1 BY PoolAssumption, ZenonT(60) DEF Conns
  <2>2. idle.top \in 0 .. MaxConns /\ idle.stack \in [0 .. MaxConns - 1 -> 0 .. MaxConns - 1]
    BY IdleType DEF Conns
  <2>3. \A k \in 0 .. idle.top - 1 : idle.stack[k] # c BY <1>8
  <2>4. idle.top < MaxConns BY <2>1, <2>2, <2>3, <1>9, StackRoom, ZenonT(60)
  <2>5. QED BY <2>1, <2>2, <2>4 DEF Conns
<1>11. /\ idle'.top = idle.top + 1 /\ idle'.stack[idle.top] = c
       /\ \A k \in 0 .. idle.top - 1 : idle'.stack[k] = idle.stack[k]
       /\ \A k \in 0 .. idle'.top - 1 : k \in 0 .. idle.top - 1 \/ k = idle.top
       /\ idle' \in [stack : [Conns -> Conns], top : 0 .. MaxConns]
  <2>1. idle.stack \in [Conns -> Conns] BY IdleType
  <2>2. [idle.stack EXCEPT ![idle.top] = c] \in [Conns -> Conns] BY <2>1, Zenon
  <2>3. \A k \in 0 .. idle.top - 1 : k # idle.top BY <1>10
  <2>4. idle'.top = idle.top + 1 /\ idle'.stack = [idle.stack EXCEPT ![idle.top] = c] BY <1>1
  <2>5. /\ idle'.stack[idle.top] = c /\ \A k \in 0 .. idle.top - 1 : idle'.stack[k] = idle.stack[k]
    BY <2>1, <2>3, <2>4, <1>8, <1>10
  <2>6. idle.top + 1 \in 0 .. MaxConns BY <1>10, PoolAssumption
  <2>7. idle' \in [stack : [Conns -> Conns], top : 0 .. MaxConns] BY <1>1, <2>2, <2>6
  <2>8. \A k \in 0 .. idle'.top - 1 : k \in 0 .. idle.top - 1 \/ k = idle.top BY <2>4, <1>10
  <2>9. QED BY <2>4, <2>5, <2>7, <2>8
<1>12. \A k \in 0 .. idle'.top - 1 : slices'[idle'.stack[k]] = NoSlices
  <2>1. \A k \in 0 .. idle.top - 1 : slices[idle.stack[k]] = NoSlices BY DEF PoolInv
  <2>2. QED BY <2>1, <1>4, <1>8, <1>11
<1>13. \A j, k \in 0 .. idle'.top - 1 : idle'.stack[j] = idle'.stack[k] => j = k BY <1>8, <1>9, <1>11
<1>14. \A d \in Conns : IF slices'[d].recv = Null THEN slices'[d] = NoSlices
                        ELSE /\ slices'[d].send # Null
                             /\ slices'[d].recv # slices'[d].send
                             /\ slices'[d].upstream \notin {slices'[d].recv, slices'[d].send}
  <2>1. NoSlices.recv = Null BY DEF NoSlices
  <2>2. \A d \in Conns : IF slices[d].recv = Null THEN slices[d] = NoSlices
                        ELSE /\ slices[d].send # Null
                             /\ slices[d].recv # slices[d].send
                             /\ slices[d].upstream \notin {slices[d].recv, slices[d].send}
    BY DEF PoolInv
  <2>3. QED BY <2>1, <2>2, <1>4
<1>15. PoolOK(pool)' BY <1>3 DEF PoolOK, PoolType, Used
<1>16. QED BY <1>1, <1>2, <1>4, <1>6, <1>7, <1>11, <1>12, <1>13, <1>14, <1>15 DEF PoolInv

(* alloc_conn keeps the invariant, on success and on each of its failures. *)
LEMMA AllocConnKeeps ==
    ASSUME PoolInv, AllocConn
    PROVE  PoolInv'
<1> USE MaxCountType
<1> DEFINE t == idle.top - 1
<1> DEFINE Step(rs, ss) ==
        /\ refused' = (refused \/ (rs.slice = Null /\ Exhausted(pool))
                               \/ (ss.slice = Null /\ Exhausted(rs.pool)))
        /\ IF rs.slice = Null \/ ss.slice = Null
           THEN pool' = free(free(ss.pool, rs.slice), ss.slice) /\ UNCHANGED <<idle, slices>>
           ELSE /\ pool' = ss.pool
                /\ idle' = [stack |-> [idle.stack EXCEPT ![idle.top - 1] = 0], top |-> idle.top - 1]
                /\ slices' = [slices EXCEPT ![idle.stack[idle.top - 1]] =
                                  [recv |-> rs.slice, send |-> ss.slice, upstream |-> Null]]
<1>0. PICK rs \in Allocs(pool) : \E ss \in Allocs(rs.pool) : Step(rs, ss) BY DEF AllocConn
<1>1. PICK ss \in Allocs(rs.pool) : Step(rs, ss) BY <1>0
<1>2. /\ PoolOK(pool) /\ slices \in [Conns -> SlicesOf] /\ Used(pool) = UNION { Held(d) : d \in Conns }
      /\ ~refused /\ \A d, e \in Conns : d # e => Held(d) \cap Held(e) = {}
  BY DEF PoolInv
<1>3. PICK c \in Conns : /\ c = idle.stack[t] /\ slices[c] = NoSlices
                         /\ t \in 0 .. idle.top - 1 /\ t \in Conns /\ idle.top \in 1 .. MaxConns
  <2>1. idle.top > 0 BY DEF AllocConn
  <2>2. idle.top \in 0 .. MaxConns BY IdleType
  <2>3. t \in 0 .. idle.top - 1 /\ idle.top \in 1 .. MaxConns BY <2>1, <2>2, PoolAssumption
  <2>4. QED BY <2>3, IdleType DEF PoolInv
<1>4. /\ PoolOK(rs.pool)
      /\ \/ rs.slice = Null /\ rs.pool = pool
         \/ rs.slice \in Slices \ Used(pool) /\ Used(rs.pool) = Used(pool) \cup {rs.slice}
  BY <1>2, AllocLends
<1>5. /\ PoolOK(ss.pool)
      /\ \/ ss.slice = Null /\ ss.pool = rs.pool
         \/ ss.slice \in Slices \ Used(rs.pool) /\ Used(ss.pool) = Used(rs.pool) \cup {ss.slice}
  BY <1>4, AllocLends
<1>6. Used(rs.pool) = Used(pool) \cup ({rs.slice} \ {Null}) BY <1>4
<1>7. Used(ss.pool) = Used(rs.pool) \cup ({ss.slice} \ {Null}) BY <1>5
<1>8. ~refused'
  <2>1. slices[c].upstream = Null /\ slices[c].recv = Null BY <1>3 DEF NoSlices
  <2>2. Used(pool) # Slices
    <3>1. (UNION { Held(d) : d \in Conns }) \cup ({Null} \ {Null}) # Slices BY <1>2, <1>3, <2>1, OneIsFree
    <3>2. QED BY <3>1, <1>2
  <2>3. Used(rs.pool) # Slices
    <3>1. rs.slice \in Slices \cup {Null} BY <1>4
    <3>2. (UNION { Held(d) : d \in Conns }) \cup ({rs.slice} \ {Null}) # Slices
      BY <1>2, <1>3, <2>1, <3>1, OneIsFree
    <3>3. QED BY <3>2, <1>2, <1>6
  <2>4. ~Exhausted(pool) /\ ~Exhausted(rs.pool) BY <1>2, <1>4, <2>2, <2>3, ExhaustedPool
  <2>5. QED BY <1>1, <1>2, <2>4, ZenonT(60)
<1>9. CASE rs.slice = Null \/ ss.slice = Null
  <2>1. UNCHANGED <<idle, slices>> /\ pool' = free(free(ss.pool, rs.slice), ss.slice) BY <1>1, <1>9
  <2>2. PoolOK(pool') /\ Used(pool') = Used(pool)
    <3> DEFINE p1 == free(ss.pool, rs.slice)
    <3>1. PoolOK(p1) /\ Used(p1) = Used(ss.pool) \ {rs.slice} BY <1>4, <1>5, FreeGivesBack
    <3>2. pool' = free(p1, ss.slice) /\ ss.slice \in Slices \cup {Null} BY <2>1, <1>5
    <3> HIDE DEF p1
    <3>3. PoolOK(pool') /\ Used(pool') = Used(p1) \ {ss.slice} BY <3>1, <3>2, FreeGivesBack
    <3>4. Null \notin Used(pool) BY DEF Used
    <3>5. QED BY <3>1, <3>3, <3>4, <1>4, <1>5, <1>6, <1>7
  <2>3. Used(pool)' = Used(pool) /\ PoolOK(pool)' BY <2>2 DEF PoolOK, PoolType, Used
  <2>4. \A d \in Conns : Held(d)' = Held(d) BY <2>1 DEF Held
  <2>5. QED BY <2>1, <2>3, <2>4, <1>8 DEF PoolInv
<1>10. CASE ~(rs.slice = Null \/ ss.slice = Null)
  <2>1. /\ pool' = ss.pool
        /\ idle' = [stack |-> [idle.stack EXCEPT ![t] = 0], top |-> t]
        /\ slices' = [slices EXCEPT ![c] = [recv |-> rs.slice, send |-> ss.slice, upstream |-> Null]]
    BY <1>1, <1>3, <1>10
  <2>2. /\ rs.slice \in Slices \ Used(pool) /\ ss.slice \in Slices \ Used(pool) /\ rs.slice # ss.slice
        /\ Used(pool') = Used(pool) \cup {rs.slice, ss.slice}
    BY <1>4, <1>5, <1>10, <2>1
  <2>3. idle'.top = t /\ idle'.stack = [idle.stack EXCEPT ![t] = 0]
        /\ idle' \in [stack : [Conns -> Conns], top : 0 .. MaxConns]
    <3>1. idle \in [stack : [Conns -> Conns], top : 0 .. MaxConns] BY DEF PoolInv
    <3>2. 0 \in Conns /\ t \in 0 .. MaxConns BY <1>3, PoolAssumption DEF Conns
    <3> HIDE DEF t
    <3>3. QED BY <3>1, <3>2, <2>1, Zenon
  <2>4. \A k \in 0 .. idle'.top - 1 : /\ k \in 0 .. idle.top - 1 /\ k \in Conns
                                      /\ idle'.stack[k] = idle.stack[k] /\ idle.stack[k] # c
    <3>1. \A k \in 0 .. idle'.top - 1 : k \in 0 .. idle.top - 1 /\ k # t BY <2>3, <1>3
    <3>2. \A k \in 0 .. idle.top - 1 : k \in Conns BY IdleType
    <3>3. idle.stack \in [Conns -> Conns] BY IdleType
    <3>4. \A j, k \in 0 .. idle.top - 1 : idle.stack[j] = idle.stack[k] => j = k BY DEF PoolInv
    <3>5. QED BY <3>1, <3>2, <3>3, <3>4, <2>3, <1>3
  <2>5. /\ slices' \in [Conns -> SlicesOf]
        /\ \A d \in Conns : d # c => slices'[d] = slices[d]
        /\ slices'[c] = [recv |-> rs.slice, send |-> ss.slice, upstream |-> Null]
    <3>1. [recv |-> rs.slice, send |-> ss.slice, upstream |-> Null] \in SlicesOf BY <2>2 DEF SlicesOf
    <3>2. QED BY <3>1, <2>1, <1>2, <1>3
  <2>6. Held(c)' = {rs.slice, ss.slice} /\ \A d \in Conns : d # c => Held(d)' = Held(d)
    BY <2>2, <2>5, <1>3 DEF Held
  <2>7. Held(c) = {} BY <1>3 DEF Held, NoSlices
  <2>8. Used(pool)' = UNION { Held(d)' : d \in Conns }
    <3>1. Used(pool)' = Used(pool') BY DEF Used
    <3>2. QED BY <3>1, <2>2, <2>6, <2>7, <1>2, <1>3
  <2>9. \A d, e \in Conns : d # e => Held(d)' \cap Held(e)' = {}
    <3>1. \A d \in Conns : rs.slice \notin Held(d) /\ ss.slice \notin Held(d) BY <2>2, <1>2
    <3>2. QED BY <3>1, <2>6, <1>2
  <2>10. \A k \in 0 .. idle'.top - 1 : slices'[idle'.stack[k]] = NoSlices
    <3>1. \A k \in 0 .. idle.top - 1 : idle.stack[k] \in Conns /\ slices[idle.stack[k]] = NoSlices
      BY IdleType DEF PoolInv
    <3>2. QED BY <3>1, <2>4, <2>5
  <2>11. \A j, k \in 0 .. idle'.top - 1 : idle'.stack[j] = idle'.stack[k] => j = k
    <3>1. \A j, k \in 0 .. idle.top - 1 : idle.stack[j] = idle.stack[k] => j = k BY DEF PoolInv
    <3>2. QED BY <3>1, <2>4
  <2>12. \A d \in Conns : IF slices'[d].recv = Null THEN slices'[d] = NoSlices
                          ELSE /\ slices'[d].send # Null
                               /\ slices'[d].recv # slices'[d].send
                               /\ slices'[d].upstream \notin {slices'[d].recv, slices'[d].send}
    <3>1. \A d \in Conns : IF slices[d].recv = Null THEN slices[d] = NoSlices
                           ELSE /\ slices[d].send # Null
                                /\ slices[d].recv # slices[d].send
                                /\ slices[d].upstream \notin {slices[d].recv, slices[d].send}
      BY DEF PoolInv
    <3>2. /\ slices'[c].recv = rs.slice /\ slices'[c].send = ss.slice /\ slices'[c].upstream = Null
      BY <2>5
    <3>3. QED BY <3>1, <3>2, <2>2, <2>5
  <2>13. PoolOK(pool)' BY <1>5, <2>1 DEF PoolOK, PoolType, Used
  <2>14. QED BY <1>8, <2>3, <2>5, <2>8, <2>9, <2>10, <2>11, <2>12, <2>13 DEF PoolInv
<1>11. QED BY <1>9, <1>10

(* A step of another component keeps the invariant. *)
LEMMA PoolStutterKeeps == PoolInv /\ UNCHANGED pool_vars => PoolInv'
<1> SUFFICES ASSUME PoolInv, UNCHANGED pool_vars PROVE PoolInv' OBVIOUS
<1>1. pool' = pool /\ idle' = idle /\ slices' = slices /\ refused' = refused BY DEF pool_vars
<1>2. PoolOK(pool)' = PoolOK(pool) /\ Used(pool)' = Used(pool) BY <1>1 DEF PoolOK, PoolType, Used
<1>3. \A d \in Conns : Held(d)' = Held(d) BY <1>1 DEF Held
<1>4. QED BY <1>1, <1>2, <1>3 DEF PoolInv

-----------------------------------------------------------------------------

(* Every slice the pool has committed is on the free stack or with one connection, for   *)
(* any number of connections, whatever allocations and commits failed (alloc_conn_impl,  *)
(* alloc_upstream_buf, free_conn_impl).                                                  *)
THEOREM LentOnceHolds == PoolSpec => []LentOnce
<1>1. PoolInv /\ [PoolNext]_pool_vars => PoolInv'
  BY AllocConnKeeps, AllocUpstreamBufKeeps, FreeConnKeeps, PoolStutterKeeps DEF PoolNext
<1>2. QED BY <1>1, PoolInitInv, PoolInvMeans, PTL DEF PoolSpec

(* A pool of three slices per connection never has to refuse one: alloc fails only when  *)
(* the kernel commits no memory (kMaxConns * 3 of slice_pool's init).                    *)
THEOREM NeverStarvedHolds == PoolSpec => []NeverStarved
<1>1. PoolInv /\ [PoolNext]_pool_vars => PoolInv'
  BY AllocConnKeeps, AllocUpstreamBufKeeps, FreeConnKeeps, PoolStutterKeeps DEF PoolNext
<1>2. QED BY <1>1, PoolInitInv, PoolInvMeans, PTL DEF PoolSpec
=============================================================================
