---------------------------- MODULE GatewayProofs ----------------------------
(* Proofs about Gateway for every number of shards: run_shards, with any of *)
(* its steps failing, never lets a thread use what is not there, and leaves *)
(* nothing behind.                                                          *)
EXTENDS Gateway, TLAPS

\* The steps of run_shards that are about one shard, and the others.
ShardOps == {"listen", "ring", "spawn", "drain", "stop", "join", "release"}
MainOps == {"bound", "open", "start", "sigwait", "flstop", "fljoin", "endframe", "close"}
Instr == (ShardOps \X Shards) \cup (MainOps \X {0})

\* The order of run_shards: what it acquires, stage by stage, and the rest.
Stage(op) ==
    CASE op = "listen" -> 1
      [] op = "bound" -> 2
      [] op = "open" -> 3
      [] op = "ring" -> 4
      [] op = "spawn" -> 5
      [] op = "start" -> 6
      [] OTHER -> 7

\* Step x is still to be taken; and wherever y is, x comes before it.
In(x, T) == \E k \in DOMAIN T : T[k] = x
First(x, y, T) == \A k \in DOMAIN T : T[k] = y => \E j \in 1..(k - 1) : T[j] = x

\* The steps left go up the stages, and after the start of the flusher nothing is
\* acquired.
Ordered(T) ==
    \A j, k \in DOMAIN T :
        j < k => /\ Stage(T[j][1]) <= Stage(T[k][1])
                 /\ T[j][1] = "start" => Stage(T[k][1]) = 7
\* After the listen step of a shard come those of the shards above it, and no other.
Listens(T) ==
    \A k \in DOMAIN T : T[k][1] = "listen" =>
        \A s \in Shards : s > T[k][2] <=> \E j \in DOMAIN T : j > k /\ T[j] = <<"listen", s>>

\* What run_shards holds for a shard.
ShardRecord ==
    [loop : BOOLEAN, ring : BOOLEAN, spawned : BOOLEAN, running : BOOLEAN, draining : BOOLEAN,
     thread : {"none", "run", "gone"}]

TypeOK ==
    /\ main = [todo |-> main.todo, rc |-> main.rc, stall |-> main.stall, mode |-> main.mode]
    /\ main.todo \in Seq(Instr)
    /\ shard \in [Shards -> ShardRecord]
    /\ "thread" \in DOMAIN fl /\ fd \in BOOLEAN

\* What a shard has, and what is still to be done with it.  What it acquired is
\* released later; a spawned shard is joined later, and before its release; a thread
\* that runs has what it uses; and before a spawn the loop and the ring are there, or
\* are on the way.
ShardOK(logging, s, r, T) ==
    /\ In(<<"listen", s>>, T) => ~r.loop
    /\ \A q \in Shards : In(<<"listen", q>>, T) => ~r.ring /\ ~r.spawned
    /\ r.loop \/ r.ring \/ In(<<"listen", s>>, T) \/ In(<<"ring", s>>, T) => In(<<"release", s>>, T)
    /\ r.spawned \/ In(<<"spawn", s>>, T) =>
         In(<<"join", s>>, T) /\ First(<<"join", s>>, <<"release", s>>, T)
    /\ r.thread = "run" => r.spawned /\ r.loop /\ (logging => r.ring)
    /\ In(<<"spawn", s>>, T) =>
         /\ r.loop \/ In(<<"listen", s>>, T)
         /\ logging => r.ring \/ In(<<"ring", s>>, T)

\* The same of the flusher: it is joined before the file is closed and before any ring
\* is unmapped, and while it runs nothing more is acquired, so no step can fail.
FlusherOK(thread, open, sh, T) ==
    /\ thread = "run" \/ In(<<"start", 0>>, T) =>
         /\ In(<<"fljoin", 0>>, T) /\ First(<<"fljoin", 0>>, <<"close", 0>>, T)
         /\ \A s \in Shards : First(<<"fljoin", 0>>, <<"release", s>>, T)
    /\ In(<<"start", 0>>, T) =>
         /\ open \/ In(<<"open", 0>>, T)
         /\ \A s \in Shards : sh[s].ring \/ In(<<"ring", s>>, T)
    /\ thread = "run" =>
         /\ open /\ \A s \in Shards : sh[s].ring
         /\ \A k \in DOMAIN T : Stage(T[k][1]) = 7

\* The inductive invariant.
IInv ==
    /\ TypeOK
    /\ Ordered(main.todo) /\ Listens(main.todo)
    /\ \A s \in Shards : ShardOK(Logging, s, shard[s], main.todo)
    /\ FlusherOK(fl.thread, fd, shard, main.todo)

-----------------------------------------------------------------------------

\* The steps left after the first one.
LEMMA TailIs ==
    ASSUME NEW T \in Seq(Instr), T # <<>>
    PROVE  /\ Tail(T) \in Seq(Instr) /\ T[1] \in Instr /\ Head(T) = T[1]
           /\ 1 \in DOMAIN T
           /\ \A k \in DOMAIN Tail(T) : k \in Nat /\ k >= 1 /\ k + 1 \in DOMAIN T /\ Tail(T)[k] = T[k + 1]
           /\ \A k \in DOMAIN T : k \in Nat /\ k >= 1 /\ (k > 1 => k - 1 \in DOMAIN Tail(T) /\ Tail(T)[k - 1] = T[k])
OBVIOUS

\* A step that was not the first is still to be taken.
LEMMA TailIn ==
    ASSUME NEW T \in Seq(Instr), T # <<>>, NEW x
    PROVE  In(x, T) <=> T[1] = x \/ In(x, Tail(T))
<1>1. ASSUME In(x, T), T[1] # x PROVE In(x, Tail(T))
  <2>1. PICK k \in DOMAIN T : T[k] = x
    BY <1>1 DEF In
  <2>2. k - 1 \in DOMAIN Tail(T) /\ Tail(T)[k - 1] = x
    BY <1>1, <2>1, TailIs
  <2> QED BY <2>2 DEF In
<1>2. ASSUME In(x, Tail(T)) PROVE In(x, T)
  BY <1>2, TailIs DEF In
<1> QED BY <1>1, <1>2, TailIs DEF In

\* Taking a step other than x leaves x before y.
LEMMA TailFirst ==
    ASSUME NEW T \in Seq(Instr), T # <<>>, NEW x, NEW y, First(x, y, T)
    PROVE  T[1] # y /\ (T[1] # x => First(x, y, Tail(T)))
<1>1. T[1] # y
  BY TailIs DEF First
<1>2. ASSUME T[1] # x PROVE First(x, y, Tail(T))
  <2> SUFFICES ASSUME NEW k \in DOMAIN Tail(T), Tail(T)[k] = y
               PROVE  \E j \in 1..(k - 1) : Tail(T)[j] = x
    BY DEF First
  <2>1. k + 1 \in DOMAIN T /\ T[k + 1] = y /\ k \in Nat
    BY TailIs
  <2>2. PICK j \in 1..k : T[j] = x
    BY <2>1 DEF First
  <2>3. j # 1 /\ j \in DOMAIN T
    BY <1>2, <2>1, <2>2
  <2>4. j - 1 \in 1..(k - 1) /\ Tail(T)[j - 1] = x
    BY <2>1, <2>2, <2>3, TailIs
  <2> QED BY <2>4
<1> QED BY <1>1, <1>2

\* The stages still go up after the first step.
LEMMA TailOrdered ==
    ASSUME NEW T \in Seq(Instr), T # <<>>, Ordered(T)
    PROVE  /\ Ordered(Tail(T))
           /\ \A k \in DOMAIN Tail(T) : /\ Stage(T[1][1]) <= Stage(Tail(T)[k][1])
                                        /\ T[1][1] = "start" => Stage(Tail(T)[k][1]) = 7
<1>1. \A k \in DOMAIN Tail(T) : 1 < k + 1
  BY TailIs
<1>2. \A k \in DOMAIN Tail(T) : /\ Stage(T[1][1]) <= Stage(Tail(T)[k][1])
                                /\ T[1][1] = "start" => Stage(Tail(T)[k][1]) = 7
  BY <1>1, TailIs DEF Ordered
<1>3. ASSUME NEW j \in DOMAIN Tail(T), NEW k \in DOMAIN Tail(T), j < k
      PROVE  /\ Stage(Tail(T)[j][1]) <= Stage(Tail(T)[k][1])
             /\ Tail(T)[j][1] = "start" => Stage(Tail(T)[k][1]) = 7
  <2>1. /\ j + 1 \in DOMAIN T /\ k + 1 \in DOMAIN T /\ j + 1 < k + 1
        /\ Tail(T)[j] = T[j + 1] /\ Tail(T)[k] = T[k + 1]
    BY <1>3, TailIs
  <2> QED BY <2>1 DEF Ordered
<1> QED BY <1>2, <1>3 DEF Ordered

\* After a listen step the listens of the shards above are left.
LEMMA TailListens ==
    ASSUME NEW T \in Seq(Instr), T # <<>>, Listens(T)
    PROVE  /\ Listens(Tail(T))
           /\ \A s \in Shards : T[1] = <<"listen", s>> => ~In(<<"listen", s>>, Tail(T))
<1>1. Listens(Tail(T))
  <2> SUFFICES ASSUME NEW k \in DOMAIN Tail(T), Tail(T)[k][1] = "listen", NEW s \in Shards
               PROVE  s > Tail(T)[k][2] <=> \E j \in DOMAIN Tail(T) : j > k /\ Tail(T)[j] = <<"listen", s>>
    BY Zenon DEF Listens
  <2>1. k + 1 \in DOMAIN T /\ T[k + 1] = Tail(T)[k] /\ k \in Nat /\ k >= 1
    BY TailIs
  <2>2. s > T[k + 1][2] <=> \E j \in DOMAIN T : j > k + 1 /\ T[j] = <<"listen", s>>
    BY <2>1 DEF Listens
  <2>3. ASSUME NEW j \in DOMAIN T, j > k + 1, T[j] = <<"listen", s>>
        PROVE  j - 1 \in DOMAIN Tail(T) /\ j - 1 > k /\ Tail(T)[j - 1] = <<"listen", s>>
    BY <2>1, <2>3, TailIs
  <2>4. ASSUME NEW j \in DOMAIN Tail(T), j > k, Tail(T)[j] = <<"listen", s>>
        PROVE  j + 1 \in DOMAIN T /\ j + 1 > k + 1 /\ T[j + 1] = <<"listen", s>>
    BY <2>1, <2>4, TailIs
  <2> QED BY <2>1, <2>2, <2>3, <2>4, Zenon
<1>2. ASSUME NEW s \in Shards, T[1] = <<"listen", s>>, In(<<"listen", s>>, Tail(T)) PROVE FALSE
  <2>1. PICK k \in DOMAIN Tail(T) : Tail(T)[k] = <<"listen", s>>
    BY <1>2 DEF In
  <2>2. k + 1 \in DOMAIN T /\ T[k + 1] = <<"listen", s>> /\ k + 1 > 1
    BY <2>1, TailIs
  <2>3. T[1][1] = "listen" /\ T[1][2] = s /\ 1 \in DOMAIN T
    BY <1>2, TailIs
  <2>4. s > s
    BY <2>2, <2>3 DEF Listens
  <2> QED BY <2>4, GatewayAssumption DEF Shards
<1> QED BY <1>1, <1>2

-----------------------------------------------------------------------------

\* What is where in two programs run one after the other.
LEMMA ConcatIs ==
    ASSUME NEW a \in Seq(Instr), NEW b \in Seq(Instr)
    PROVE  /\ a \o b \in Seq(Instr)
           /\ Len(a) \in Nat
           /\ \A k \in DOMAIN a : k \in DOMAIN (a \o b) /\ (a \o b)[k] = a[k] /\ k \in Nat /\ 1 <= k /\ k <= Len(a)
           /\ \A k \in DOMAIN b : k + Len(a) \in DOMAIN (a \o b) /\ (a \o b)[k + Len(a)] = b[k] /\ k \in Nat /\ 1 <= k
           /\ \A k \in DOMAIN (a \o b) :
                /\ k \in Nat /\ 1 <= k
                /\ \/ k <= Len(a) /\ k \in DOMAIN a /\ (a \o b)[k] = a[k]
                   \/ k > Len(a) /\ k - Len(a) \in DOMAIN b /\ (a \o b)[k] = b[k - Len(a)]
OBVIOUS

\* A step of the whole is a step of one of the two.
LEMMA ConcatIn ==
    ASSUME NEW a \in Seq(Instr), NEW b \in Seq(Instr), NEW x
    PROVE  In(x, a \o b) <=> In(x, a) \/ In(x, b)
BY ConcatIs DEF In

\* If x is in the first program or before y in the second, it is before y.
LEMMA ConcatFirst ==
    ASSUME NEW a \in Seq(Instr), NEW b \in Seq(Instr), NEW x, NEW y,
           First(x, y, a), In(x, a) \/ First(x, y, b)
    PROVE  First(x, y, a \o b)
<1> SUFFICES ASSUME NEW k \in DOMAIN (a \o b), (a \o b)[k] = y
             PROVE  \E j \in 1..(k - 1) : (a \o b)[j] = x
  BY SMTT(30) DEF First
<1>1. CASE k <= Len(a) /\ k \in DOMAIN a /\ (a \o b)[k] = a[k]
  <2>1. PICK j \in 1..(k - 1) : a[j] = x
    BY <1>1 DEF First
  <2>2. j \in DOMAIN a
    BY <1>1, <2>1
  <2> QED BY <2>1, <2>2, ConcatIs
<1>2. CASE k > Len(a) /\ k - Len(a) \in DOMAIN b /\ (a \o b)[k] = b[k - Len(a)]
  <2>1. CASE In(x, a)
    <3>1. PICK j \in DOMAIN a : a[j] = x
      BY <2>1 DEF In
    <3>2. j \in 1..(k - 1)
      BY <1>2, <3>1, ConcatIs
    <3> QED BY <3>1, <3>2, ConcatIs
  <2>2. CASE First(x, y, b)
    <3>1. PICK j \in 1..((k - Len(a)) - 1) : b[j] = x
      BY <1>2, <2>2 DEF First
    <3>2. DOMAIN b = 1..Len(b) /\ Len(b) \in Nat /\ Len(a) \in Nat /\ k \in Nat
      BY ConcatIs
    <3>3. j \in DOMAIN b /\ j + Len(a) \in 1..(k - 1)
      BY <1>2, <3>1, <3>2
    <3> QED BY <3>1, <3>3, ConcatIs
  <2> QED BY <2>1, <2>2
<1> QED BY <1>1, <1>2, ConcatIs, ZenonT(60)

\* Programs one above the other in their stages go up as a whole.
LEMMA ConcatRises ==
    ASSUME NEW a \in Seq(Instr), NEW b \in Seq(Instr), NEW m \in 1..7,
           Ordered(a), \A k \in DOMAIN a : Stage(a[k][1]) \in 1..m,
           \A k \in DOMAIN b : Stage(b[k][1]) = m /\ (b[k][1] = "start" => Len(b) = 1),
           \A k \in DOMAIN a : a[k][1] = "start" => m = 7
    PROVE  Ordered(a \o b) /\ \A k \in DOMAIN (a \o b) : Stage((a \o b)[k][1]) \in 1..m
<1> DEFINE c == a \o b
<1>1. ASSUME NEW k \in DOMAIN c PROVE Stage(c[k][1]) \in 1..m
  <2>1. (\E j \in DOMAIN a : c[k] = a[j]) \/ (\E j \in DOMAIN b : c[k] = b[j])
    BY <1>1, ConcatIs
  <2> QED BY <2>1
<1>2. ASSUME NEW j \in DOMAIN c, NEW k \in DOMAIN c, j < k
      PROVE  Stage(c[j][1]) <= Stage(c[k][1]) /\ (c[j][1] = "start" => Stage(c[k][1]) = 7)
  <2>1. CASE k <= Len(a)
    <3>1. j \in DOMAIN a /\ k \in DOMAIN a /\ c[j] = a[j] /\ c[k] = a[k]
      BY <1>2, <2>1, ConcatIs
    <3> QED BY <1>2, <3>1 DEF Ordered
  <2>2. CASE k > Len(a)
    <3>1. k - Len(a) \in DOMAIN b /\ c[k] = b[k - Len(a)]
      BY <1>2, <2>2, ConcatIs
    <3>2. Stage(c[k][1]) = m
      BY <3>1
    <3>3. CASE j <= Len(a)
      <4>1. j \in DOMAIN a /\ c[j] = a[j]
        BY <1>2, <3>3, ConcatIs
      <4> QED BY <3>2, <4>1
    <3>4. CASE j > Len(a)
      <4>1. j - Len(a) \in DOMAIN b /\ c[j] = b[j - Len(a)] /\ j - Len(a) < k - Len(a)
        BY <1>2, <3>4, ConcatIs
      <4>2. Len(b) # 1
        BY <3>1, <4>1
      <4> QED BY <3>2, <4>1, <4>2
    <3> QED BY <1>2, <3>3, <3>4, ConcatIs, Zenon
  <2> QED BY <1>2, <2>1, <2>2, ConcatIs, Zenon
<1> QED BY <1>1, <1>2, Zenon DEF Ordered

\* Steps other than listens may follow.
LEMMA ConcatListens ==
    ASSUME NEW a \in Seq(Instr), NEW b \in Seq(Instr),
           Listens(a), \A k \in DOMAIN b : b[k][1] # "listen"
    PROVE  Listens(a \o b)
<1> DEFINE c == a \o b
<1> SUFFICES ASSUME NEW k \in DOMAIN c, c[k][1] = "listen", NEW s \in Shards
             PROVE  s > c[k][2] <=> \E j \in DOMAIN c : j > k /\ c[j] = <<"listen", s>>
  BY Zenon DEF Listens
<1>1. k \in DOMAIN a /\ c[k] = a[k]
  BY ConcatIs
<1>2. s > a[k][2] <=> \E j \in DOMAIN a : j > k /\ a[j] = <<"listen", s>>
  BY <1>1 DEF Listens
<1>3. \A j \in DOMAIN c : c[j] = <<"listen", s>> => j \in DOMAIN a /\ c[j] = a[j]
  <2> SUFFICES ASSUME NEW j \in DOMAIN c, c[j] = <<"listen", s>> PROVE j \in DOMAIN a /\ c[j] = a[j]
    OBVIOUS
  <2>1. c[j][1] = "listen"
    OBVIOUS
  <2>2. \/ j <= Len(a) /\ j \in DOMAIN a /\ c[j] = a[j]
        \/ j > Len(a) /\ j - Len(a) \in DOMAIN b /\ c[j] = b[j - Len(a)]
    BY ConcatIs, Zenon
  <2> QED BY <2>1, <2>2, Zenon
<1>4. \A j \in DOMAIN a : j \in DOMAIN c /\ c[j] = a[j]
  BY ConcatIs
<1> QED BY <1>1, <1>2, <1>3, <1>4, Zenon

-----------------------------------------------------------------------------

\* Each: one step for each of the first n shards.
LEMMA EachIs ==
    ASSUME NEW op \in ShardOps, NEW n \in 0..N
    PROVE  /\ Each(op, n) \in Seq(Instr)
           /\ \A k \in DOMAIN Each(op, n) : Each(op, n)[k][1] = op
           /\ \A s \in 1..n : In(<<op, s>>, Each(op, n))
           /\ \A x : In(x, Each(op, n)) => x[1] = op
<1>1. n \in Nat /\ \A k \in 1..n : k \in Shards /\ <<op, k>> \in Instr
  BY GatewayAssumption DEF Shards, Instr
<1>2. Each(op, n) \in [1..n -> Instr]
  BY <1>1 DEF Each
<1>3. Each(op, n) \in Seq(Instr)
  BY <1>1, <1>2
<1>4. DOMAIN Each(op, n) = 1..n /\ \A k \in 1..n : Each(op, n)[k] = <<op, k>>
  BY DEF Each
<1> QED BY <1>3, <1>4 DEF In

\* A single step that is not about a shard.
LEMMA OnceIs ==
    ASSUME NEW op \in MainOps
    PROVE  /\ << <<op, 0>> >> \in Seq(Instr) /\ Len(<< <<op, 0>> >>) = 1
           /\ \A k \in DOMAIN << <<op, 0>> >> : << <<op, 0>> >>[k][1] = op
           /\ \A x : In(x, << <<op, 0>> >>) <=> x = <<op, 0>>
<1>1. <<op, 0>> \in Instr
  BY DEF Instr
<1> QED BY <1>1 DEF In

\* Shutdown: each of the first n shards is stopped, joined and then released.
LEMMA ShutdownIs ==
    ASSUME NEW n \in 0..N
    PROVE  /\ Shutdown(n) \in Seq(Instr)
           /\ \A k \in DOMAIN Shutdown(n) : Shutdown(n)[k][1] \in {"stop", "join", "release"}
           /\ \A s \in 1..n : In(<<"join", s>>, Shutdown(n)) /\ In(<<"release", s>>, Shutdown(n))
           /\ \A s \in Shards : First(<<"join", s>>, <<"release", s>>, Shutdown(n))
<1> DEFINE Op(k) == <<"stop", "join", "release">>[1 + ((k - 1) % 3)]
           At3(k) == 1 + ((k - 1) \div 3)
<1>1. n \in Nat /\ n <= N /\ N \in Nat
  BY GatewayAssumption
<1>2. \A k \in 1..(3 * n) : (k - 1) % 3 \in 0..2 /\ At3(k) \in 1..n
  BY <1>1
<1>3. \A k \in 1..(3 * n) : Op(k) \in {"stop", "join", "release"}
  BY <1>2
<1>4. \A k \in 1..(3 * n) : <<Op(k), At3(k)>> \in Instr
  BY <1>1, <1>2, <1>3 DEF Instr, ShardOps, Shards
<1>5. DOMAIN Shutdown(n) = 1..(3 * n) /\ \A k \in 1..(3 * n) : Shutdown(n)[k] = <<Op(k), At3(k)>>
  BY DEF Shutdown
<1>6. Shutdown(n) \in Seq(Instr)
  <2>1. Shutdown(n) \in [1..(3 * n) -> Instr]
    BY <1>4, <1>5 DEF Shutdown
  <2> QED BY <1>1, <2>1
<1>7. ASSUME NEW s \in 1..n
      PROVE  /\ 3 * s - 1 \in 1..(3 * n) /\ 3 * s \in 1..(3 * n)
             /\ Shutdown(n)[3 * s - 1] = <<"join", s>> /\ Shutdown(n)[3 * s] = <<"release", s>>
  <2>1. 3 * s - 1 \in 1..(3 * n) /\ 3 * s \in 1..(3 * n) /\ s \in Nat
    BY <1>1, <1>7
  <2>2. (3 * s - 1 - 1) % 3 = 1 /\ (3 * s - 1 - 1) \div 3 = s - 1
    BY <2>1
  <2>3. (3 * s - 1) % 3 = 2 /\ (3 * s - 1) \div 3 = s - 1
    BY <2>1
  <2>4. Op(3 * s - 1) = "join" /\ At3(3 * s - 1) = s
    BY <2>1, <2>2
  <2>5. Op(3 * s) = "release" /\ At3(3 * s) = s
    BY <2>1, <2>3
  <2> HIDE DEF Op, At3
  <2>6. Shutdown(n)[3 * s - 1] = <<"join", s>>
    BY <1>5, <2>1, <2>4
  <2>7. Shutdown(n)[3 * s] = <<"release", s>>
    BY <1>5, <2>1, <2>5
  <2> QED BY <2>1, <2>6, <2>7
<1>8. ASSUME NEW s \in Shards, NEW k \in 1..(3 * n), Shutdown(n)[k] = <<"release", s>>
      PROVE  k - 1 \in 1..(3 * n) /\ Shutdown(n)[k - 1] = <<"join", s>> /\ k - 1 \in 1..(k - 1)
  <2>1. Op(k) = "release" /\ At3(k) = s
    BY <1>5, <1>8
  <2>2. (k - 1) % 3 = 2
    BY <1>2, <2>1
  <2>3. k - 1 \in 1..(3 * n) /\ (k - 1 - 1) % 3 = 1 /\ (k - 1 - 1) \div 3 = (k - 1) \div 3
    BY <1>1, <2>2
  <2>4. Op(k - 1) = "join" /\ At3(k - 1) = s
    BY <2>1, <2>3
  <2> HIDE DEF Op, At3
  <2>5. Shutdown(n)[k - 1] = <<"join", s>>
    BY <1>5, <2>3, <2>4
  <2>6. k - 1 \in 1..(k - 1)
    BY <2>3
  <2> QED BY <2>3, <2>5, <2>6
<1> HIDE DEF Op, At3
<1>9. \A k \in DOMAIN Shutdown(n) : Shutdown(n)[k][1] \in {"stop", "join", "release"}
  BY <1>3, <1>5
<1>10. \A s \in 1..n : In(<<"join", s>>, Shutdown(n)) /\ In(<<"release", s>>, Shutdown(n))
  BY <1>5, <1>7, Zenon DEF In
<1>11. \A s \in Shards : First(<<"join", s>>, <<"release", s>>, Shutdown(n))
  BY <1>5, <1>8 DEF First
<1> QED BY <1>6, <1>9, <1>10, <1>11

-----------------------------------------------------------------------------

\* The stages of the steps.
LEMMA StageIs ==
    /\ Stage("listen") = 1 /\ Stage("bound") = 2 /\ Stage("open") = 3 /\ Stage("ring") = 4
    /\ Stage("spawn") = 5 /\ Stage("start") = 6
    /\ \A op : op \notin {"listen", "bound", "open", "ring", "spawn", "start"} => Stage(op) = 7
<1>1. ASSUME NEW op, op \notin {"listen", "bound", "open", "ring", "spawn", "start"}
      PROVE  Stage(op) = 7
  BY <1>1 DEF Stage
<1> QED BY <1>1 DEF Stage

\* A program whose steps are of stages up to m.
Rising(T, m) ==
    /\ T \in Seq(Instr) /\ Ordered(T) /\ Listens(T)
    /\ \A k \in DOMAIN T : Stage(T[k][1]) \in 1..m

\* A rising program may be extended with steps of a stage not below its own.
LEMMA Extend ==
    ASSUME NEW a, NEW b \in Seq(Instr), NEW m \in 1..7, NEW n \in 2..7,
           Rising(a, m), m <= n, m < 6 \/ n = 7,
           \A k \in DOMAIN b : Stage(b[k][1]) = n /\ (b[k][1] = "start" => Len(b) = 1)
    PROVE  Rising(a \o b, n)
<1>1. a \in Seq(Instr) /\ a \o b \in Seq(Instr)
  BY ConcatIs DEF Rising
<1>2. \A k \in DOMAIN a : Stage(a[k][1]) \in 1..n
  BY DEF Rising
<1>3. \A k \in DOMAIN a : a[k][1] = "start" => n = 7
  BY StageIs DEF Rising
<1>4. Ordered(a \o b) /\ \A k \in DOMAIN (a \o b) : Stage((a \o b)[k][1]) \in 1..n
  <2>1. Ordered(a) /\ n \in 1..7
    BY DEF Rising
  <2> QED BY <1>1, <1>2, <1>3, <2>1, ConcatRises, Zenon
<1>5. \A k \in DOMAIN b : b[k][1] # "listen"
  BY StageIs
<1>6. Listens(a \o b)
  BY <1>1, <1>5, ConcatListens DEF Rising
<1> QED BY <1>1, <1>4, <1>6 DEF Rising

\* Steps that are taken only with --access-log.
LEMMA IfIs ==
    ASSUME NEW l \in BOOLEAN, NEW a \in Seq(Instr)
    PROVE  /\ If(l, a) \in Seq(Instr) /\ (\A k \in DOMAIN If(l, a) : k \in DOMAIN a /\ If(l, a)[k] = a[k])
           /\ DOMAIN If(l, a) # {} => Len(If(l, a)) = Len(a)
           /\ \A x : In(x, If(l, a)) <=> l /\ In(x, a)
<1>1. CASE l
  BY <1>1 DEF If
<1>2. CASE ~l
  <2>1. If(l, a) = <<>> /\ DOMAIN If(l, a) = {}
    BY <1>2 DEF If
  <2> QED BY <1>2, <2>1 DEF In
<1> QED BY <1>1, <1>2

\* StopLog joins the flusher before it closes the file.
LEMMA StopLogIs ==
    /\ StopLog \in Seq(Instr) /\ \A k \in DOMAIN StopLog : Stage(StopLog[k][1]) = 7
    /\ \A x : In(x, StopLog) => x[1] \in {"flstop", "fljoin", "endframe", "close"}
    /\ In(<<"fljoin", 0>>, StopLog) /\ First(<<"fljoin", 0>>, <<"close", 0>>, StopLog)
<1>1. \A op \in MainOps : <<op, 0>> \in Instr
  BY DEF Instr
<1>2. StopLog \in Seq(Instr) /\ DOMAIN StopLog = 1..4
  BY <1>1 DEF StopLog, MainOps
<1>3. /\ StopLog[1] = <<"flstop", 0>> /\ StopLog[2] = <<"fljoin", 0>>
      /\ StopLog[3] = <<"endframe", 0>> /\ StopLog[4] = <<"close", 0>>
  BY DEF StopLog
<1>4. \A k \in DOMAIN StopLog : k = 1 \/ k = 2 \/ k = 3 \/ k = 4
  BY <1>2
<1>5. \A k \in DOMAIN StopLog : StopLog[k][1] \in {"flstop", "fljoin", "endframe", "close"}
  BY <1>3, <1>4
<1>6. \A k \in DOMAIN StopLog : Stage(StopLog[k][1]) = 7
  BY <1>5, StageIs
<1>7. 2 \in DOMAIN StopLog
  BY <1>2
<1>8. First(<<"fljoin", 0>>, <<"close", 0>>, StopLog)
  <2> SUFFICES ASSUME NEW k \in DOMAIN StopLog, StopLog[k] = <<"close", 0>>
               PROVE  \E j \in 1..(k - 1) : StopLog[j] = <<"fljoin", 0>>
    BY DEF First
  <2>1. k = 4
    BY <1>3, <1>4
  <2> QED BY <1>3, <2>1
<1> QED BY <1>2, <1>3, <1>5, <1>6, <1>7, <1>8 DEF In

\* Setup: it rises to the start of the flusher, and acquires every loop and, with
\* --access-log, the file and every ring.
LEMMA SetupIs ==
    ASSUME NEW l \in BOOLEAN
    PROVE  /\ Rising(Setup(l), 6)
           /\ \A s \in Shards : /\ In(<<"listen", s>>, Setup(l)) /\ In(<<"spawn", s>>, Setup(l))
                                /\ l => In(<<"ring", s>>, Setup(l))
           /\ l => In(<<"open", 0>>, Setup(l))
           /\ ~l => ~In(<<"start", 0>>, Setup(l)) /\ \A s \in Shards : ~In(<<"ring", s>>, Setup(l))
<1> DEFINE a1 == Each("listen", N)
           b2 == << <<"bound", 0>> >>
           a2 == a1 \o b2
           b3 == If(l, << <<"open", 0>> >>)
           a3 == a2 \o b3
           b4 == If(l, Each("ring", N))
           a4 == a3 \o b4
           b5 == Each("spawn", N)
           a5 == a4 \o b5
           b6 == If(l, << <<"start", 0>> >>)
           a6 == a5 \o b6
<1>0. N \in 0..N /\ Shards = 1..N
  BY GatewayAssumption DEF Shards
<1>1. /\ a1 \in Seq(Instr) /\ \A k \in DOMAIN a1 : a1[k][1] = "listen"
      /\ \A s \in Shards : In(<<"listen", s>>, a1)
      /\ \A x : In(x, a1) => x[1] = "listen"
  BY <1>0, EachIs, SMTT(30) DEF ShardOps
<1>2. /\ b2 \in Seq(Instr) /\ \A k \in DOMAIN b2 : b2[k][1] = "bound"
      /\ \A x : In(x, b2) <=> x = <<"bound", 0>>
  BY OnceIs DEF MainOps
<1>3. /\ b3 \in Seq(Instr) /\ \A k \in DOMAIN b3 : b3[k][1] = "open"
      /\ \A x : In(x, b3) <=> l /\ x = <<"open", 0>>
  <2>1. "open" \in MainOps
    BY DEF MainOps
  <2>2. << <<"open", 0>> >> \in Seq(Instr)
    BY <2>1, OnceIs, Zenon
  <2> QED BY <2>1, <2>2, OnceIs, IfIs
<1>4. /\ b4 \in Seq(Instr) /\ \A k \in DOMAIN b4 : b4[k][1] = "ring"
      /\ \A s \in Shards : In(<<"ring", s>>, b4) <=> l
      /\ \A x : In(x, b4) => x[1] = "ring"
  <2>1. "ring" \in ShardOps
    BY DEF ShardOps
  <2>2. Each("ring", N) \in Seq(Instr)
    BY <1>0, <2>1, EachIs
  <2> QED BY <1>0, <2>1, <2>2, EachIs, IfIs
<1>5. /\ b5 \in Seq(Instr) /\ \A k \in DOMAIN b5 : b5[k][1] = "spawn"
      /\ \A s \in Shards : In(<<"spawn", s>>, b5)
      /\ \A x : In(x, b5) => x[1] = "spawn"
  BY <1>0, EachIs, SMTT(30) DEF ShardOps
<1>6. /\ b6 \in Seq(Instr) /\ \A k \in DOMAIN b6 : b6[k][1] = "start" /\ Len(b6) = 1
      /\ \A x : In(x, b6) <=> l /\ x = <<"start", 0>>
  <2>1. "start" \in MainOps
    BY DEF MainOps
  <2>2. << <<"start", 0>> >> \in Seq(Instr) /\ Len(<< <<"start", 0>> >>) = 1
    BY <2>1, OnceIs, Zenon
  <2> QED BY <2>1, <2>2, OnceIs, IfIs
<1>7. Setup(l) = a6
  BY DEF Setup
<1>8. Rising(a1, 1)
  <2>1. \A k \in DOMAIN a1 : a1[k] = <<"listen", k>>
    BY DEF Each
  <2>2. DOMAIN a1 = Shards
    BY <1>0 DEF Each
  <2>3. Listens(a1)
    BY <1>0, <2>1, <2>2, GatewayAssumption DEF Listens, Shards
  <2>4. \A k \in DOMAIN a1 : Stage(a1[k][1]) = 1 /\ a1[k][1] # "start"
    BY <1>1, StageIs, Zenon
  <2>5. Ordered(a1)
    BY <2>4 DEF Ordered
  <2> QED BY <1>1, <2>3, <2>4, <2>5 DEF Rising
<1> HIDE DEF a1, a2, a3, a4, a5, a6, b2, b3, b4, b5, b6
<1>9. Rising(a2, 2)
  BY <1>2, <1>8, StageIs, Extend DEF a2
<1>10. Rising(a3, 3)
  BY <1>3, <1>9, StageIs, Extend DEF a3
<1>11. Rising(a4, 4)
  BY <1>4, <1>10, StageIs, Extend DEF a4
<1>12. Rising(a5, 5)
  BY <1>5, <1>11, StageIs, Extend DEF a5
<1>13. Rising(a6, 6)
  BY <1>6, <1>12, StageIs, Extend DEF a6
<1>14. /\ a2 \in Seq(Instr) /\ a3 \in Seq(Instr) /\ a4 \in Seq(Instr) /\ a5 \in Seq(Instr)
  BY <1>9, <1>10, <1>11, <1>12 DEF Rising
<1>15. \A x : In(x, a6) <=> In(x, a1) \/ In(x, b2) \/ In(x, b3) \/ In(x, b4) \/ In(x, b5) \/ In(x, b6)
  BY <1>1, <1>2, <1>3, <1>4, <1>5, <1>6, <1>14, ConcatIn, ZenonT(60) DEF a2, a3, a4, a5, a6
<1>16. \A s \in Shards : /\ In(<<"listen", s>>, a6) /\ In(<<"spawn", s>>, a6)
                         /\ l => In(<<"ring", s>>, a6)
  BY <1>1, <1>4, <1>5, <1>15, Zenon
<1>17. l => In(<<"open", 0>>, a6)
  BY <1>3, <1>15
<1>18. ~l => ~In(<<"start", 0>>, a6) /\ \A s \in Shards : ~In(<<"ring", s>>, a6)
  <2>1. \A x : x \in {<<"start", 0>>} \cup ({"ring"} \X Shards) =>
            ~In(x, a1) /\ ~In(x, b2) /\ ~In(x, b3) /\ ~In(x, b5)
    BY <1>1, <1>2, <1>3, <1>5
  <2>2. ~l => \A x : ~In(x, b6)
    BY <1>6
  <2>3. ~l => ~In(<<"start", 0>>, b4) /\ \A s \in Shards : ~In(<<"ring", s>>, b4)
    BY <1>4
  <2> QED BY <1>15, <2>1, <2>2, <2>3
<1> QED BY <1>7, <1>13, <1>16, <1>17, <1>18

\* What comes after the set-up can be appended to it.
LEMMA SevenIs ==
    ASSUME NEW T \in Seq(Instr), NEW ops, ops \cap {"listen", "bound", "open", "ring", "spawn", "start"} = {},
           \A k \in DOMAIN T : T[k][1] \in ops
    PROVE  /\ \A k \in DOMAIN T : Stage(T[k][1]) = 7 /\ T[k][1] # "start"
           /\ \A x : In(x, T) => x[1] \in ops
<1>1. \A k \in DOMAIN T : Stage(T[k][1]) = 7 /\ T[k][1] # "start"
  BY StageIs
<1>2. \A x : In(x, T) => x[1] \in ops
  BY DEF In
<1> QED BY <1>1, <1>2

\* run_shards as it is written: everything it acquires is released later, in an order
\* in which each shard is joined before its release, and the flusher before the close of
\* the file and the release of any ring.
LEMMA ProgramIs ==
    ASSUME NEW l \in BOOLEAN
    PROVE  /\ Program(l) \in Seq(Instr) /\ Ordered(Program(l)) /\ Listens(Program(l))
           /\ \A s \in Shards :
                /\ In(<<"listen", s>>, Program(l)) /\ In(<<"release", s>>, Program(l))
                /\ In(<<"join", s>>, Program(l))
                /\ First(<<"join", s>>, <<"release", s>>, Program(l))
                /\ l => In(<<"ring", s>>, Program(l)) /\ First(<<"fljoin", 0>>, <<"release", s>>, Program(l))
           /\ l => /\ In(<<"open", 0>>, Program(l)) /\ In(<<"fljoin", 0>>, Program(l))
                   /\ First(<<"fljoin", 0>>, <<"close", 0>>, Program(l))
           /\ ~l => ~In(<<"start", 0>>, Program(l))
<1> DEFINE a0 == Setup(l)
           b1 == << <<"sigwait", 0>> >>
           a1 == a0 \o b1
           b2 == Each("drain", N)
           a2 == a1 \o b2
           b3 == Each("join", N)
           a3 == a2 \o b3
           b4 == If(l, StopLog)
           a4 == a3 \o b4
           b5 == Shutdown(N)
           a5 == a4 \o b5
<1>0. N \in 0..N /\ Shards = 1..N
  BY GatewayAssumption DEF Shards
<1>1. /\ b1 \in Seq(Instr) /\ (\A k \in DOMAIN b1 : b1[k][1] \in {"sigwait"})
  BY OnceIs DEF MainOps
<1>2. /\ b2 \in Seq(Instr) /\ (\A k \in DOMAIN b2 : b2[k][1] \in {"drain"})
  BY <1>0, EachIs, SMTT(30) DEF ShardOps
<1>3. /\ b3 \in Seq(Instr) /\ (\A k \in DOMAIN b3 : b3[k][1] \in {"join"})
      /\ \A s \in Shards : In(<<"join", s>>, b3)
  BY <1>0, EachIs, SMTT(30) DEF ShardOps
<1>4. /\ b4 \in Seq(Instr)
      /\ (\A k \in DOMAIN b4 : b4[k][1] \in {"flstop", "fljoin", "endframe", "close"})
      /\ In(<<"fljoin", 0>>, b4) <=> l
  <2>1. \A k \in DOMAIN StopLog : StopLog[k][1] \in {"flstop", "fljoin", "endframe", "close"}
    BY StopLogIs DEF In
  <2> QED BY <2>1, StopLogIs, IfIs
<1>5. l => First(<<"fljoin", 0>>, <<"close", 0>>, b4)
  BY StopLogIs DEF If
<1>6. /\ b5 \in Seq(Instr)
      /\ (\A k \in DOMAIN b5 : b5[k][1] \in {"stop", "join", "release"})
      /\ \A s \in Shards : /\ In(<<"release", s>>, b5)
                           /\ First(<<"join", s>>, <<"release", s>>, b5)
  BY <1>0, ShutdownIs
<1>7. Program(l) = a5
  BY DEF Program
<1>8. Rising(a0, 6)
  BY SetupIs
<1> HIDE DEF a0, a1, a2, a3, a4, a5, b1, b2, b3, b4, b5
<1>9. /\ \A k \in DOMAIN b1 : Stage(b1[k][1]) = 7 /\ b1[k][1] # "start"
      /\ \A x : In(x, b1) => x[1] \in {"sigwait"}
  BY <1>1, SevenIs, Zenon
<1>10. /\ \A k \in DOMAIN b2 : Stage(b2[k][1]) = 7 /\ b2[k][1] # "start"
       /\ \A x : In(x, b2) => x[1] \in {"drain"}
  BY <1>2, SevenIs, Zenon
<1>11. /\ \A k \in DOMAIN b3 : Stage(b3[k][1]) = 7 /\ b3[k][1] # "start"
       /\ \A x : In(x, b3) => x[1] \in {"join"}
  BY <1>3, SevenIs, Zenon
<1>12. /\ \A k \in DOMAIN b4 : Stage(b4[k][1]) = 7 /\ b4[k][1] # "start"
       /\ \A x : In(x, b4) => x[1] \in {"flstop", "fljoin", "endframe", "close"}
  BY <1>4, SevenIs, Zenon
<1>13. /\ \A k \in DOMAIN b5 : Stage(b5[k][1]) = 7 /\ b5[k][1] # "start"
       /\ \A x : In(x, b5) => x[1] \in {"stop", "join", "release"}
  BY <1>6, SevenIs, Zenon
<1>14. Rising(a1, 7)
  BY <1>1, <1>8, <1>9, Extend DEF a1
<1>15. Rising(a2, 7)
  BY <1>2, <1>14, <1>10, Extend DEF a2
<1>16. Rising(a3, 7)
  BY <1>3, <1>15, <1>11, Extend DEF a3
<1>17. Rising(a4, 7)
  BY <1>4, <1>16, <1>12, Extend DEF a4
<1>18. Rising(a5, 7)
  BY <1>6, <1>17, <1>13, Extend DEF a5
<1>19. /\ a0 \in Seq(Instr) /\ a1 \in Seq(Instr) /\ a2 \in Seq(Instr) /\ a3 \in Seq(Instr)
       /\ a4 \in Seq(Instr)
  BY <1>8, <1>14, <1>15, <1>16, <1>17 DEF Rising
<1>20. \A x : In(x, a3) <=> In(x, a0) \/ In(x, b1) \/ In(x, b2) \/ In(x, b3)
  BY <1>1, <1>2, <1>3, <1>19, ConcatIn, Zenon DEF a1, a2, a3
<1>21. \A x : /\ In(x, a4) <=> In(x, a3) \/ In(x, b4)
              /\ In(x, a5) <=> In(x, a4) \/ In(x, b5)
  BY <1>4, <1>6, <1>19, ConcatIn, Zenon DEF a4, a5
<1>22. \A x : In(x, a0) => Stage(x[1]) \in 1..6
  BY <1>8 DEF Rising, In
<1>23. \A x : x[1] \in {"release", "close"} => ~In(x, a3)
  <2> SUFFICES ASSUME NEW x, x[1] \in {"release", "close"} PROVE ~In(x, a3)
    OBVIOUS
  <2>1. Stage(x[1]) = 7
    BY StageIs
  <2>2. ~In(x, a0)
    BY <1>22, <2>1
  <2> QED BY <2>2, <1>20, <1>9, <1>10, <1>11
<1>24. \A s \in Shards : ~In(<<"release", s>>, a4)
  BY <1>12, <1>21, <1>23
<1>25. \A s \in Shards : First(<<"join", s>>, <<"release", s>>, a5)
  <2> TAKE s \in Shards
  <2>1. First(<<"join", s>>, <<"release", s>>, a4)
    BY <1>24 DEF First, In
  <2> QED BY <2>1, <1>6, <1>19, ConcatFirst DEF a5
<1>26. ASSUME l PROVE \A s \in Shards : First(<<"fljoin", 0>>, <<"release", s>>, a5)
  <2> TAKE s \in Shards
  <2>1. First(<<"fljoin", 0>>, <<"release", s>>, a4)
    BY <1>24 DEF First, In
  <2>2. In(<<"fljoin", 0>>, a4)
    BY <1>26, <1>4, <1>21
  <2> QED BY <2>1, <2>2, <1>6, <1>19, ConcatFirst DEF a5
<1>27. ASSUME l PROVE First(<<"fljoin", 0>>, <<"close", 0>>, a5)
  <2>1. First(<<"fljoin", 0>>, <<"close", 0>>, a3)
    BY <1>23 DEF First, In
  <2>2. First(<<"fljoin", 0>>, <<"close", 0>>, a4)
    BY <2>1, <1>5, <1>27, <1>4, <1>19, ConcatFirst DEF a4
  <2>3. In(<<"fljoin", 0>>, a4)
    BY <1>27, <1>4, <1>21
  <2> QED BY <2>2, <2>3, <1>6, <1>19, ConcatFirst DEF a5
<1>28. \A x : In(x, a0) => In(x, a5)
  BY <1>20, <1>21
<1>29. \A s \in Shards : /\ In(<<"listen", s>>, a5) /\ In(<<"release", s>>, a5)
                         /\ In(<<"join", s>>, a5)
                         /\ l => In(<<"ring", s>>, a5)
  BY <1>28, <1>3, <1>6, <1>20, <1>21, SetupIs, Zenon DEF a0
<1>30. l => In(<<"open", 0>>, a5) /\ In(<<"fljoin", 0>>, a5)
  BY <1>28, <1>4, <1>21, SetupIs, Zenon DEF a0
<1>31. ASSUME ~l PROVE ~In(<<"start", 0>>, a5)
  <2>1. ~In(<<"start", 0>>, a0)
    BY <1>31, SetupIs DEF a0
  <2> QED BY <2>1, <1>9, <1>10, <1>11, <1>12, <1>13, <1>20, <1>21
<1>32. a5 \in Seq(Instr) /\ Ordered(a5) /\ Listens(a5)
  BY <1>18 DEF Rising
<1> QED BY <1>7, <1>25, <1>26, <1>27, <1>29, <1>30, <1>31, <1>32

\* A cleanup that joins and releases the first n shards and acquires nothing.
Undoes(T, n) ==
    /\ T \in Seq(Instr)
    /\ \A k \in DOMAIN T : T[k][1] \in {"stop", "join", "release", "close"}
    /\ \A s \in Shards : First(<<"join", s>>, <<"release", s>>, T)
    /\ \A s \in 1..n : In(<<"join", s>>, T) /\ In(<<"release", s>>, T)

\* Stops, joins and the close of the file may come before a cleanup.
LEMMA UndoesAfter ==
    ASSUME NEW n \in 0..N, NEW a \in Seq(Instr), NEW b, Undoes(b, n),
           \A k \in DOMAIN a : a[k][1] \in {"stop", "join", "close"}
    PROVE  Undoes(a \o b, n)
<1>1. b \in Seq(Instr) /\ a \o b \in Seq(Instr)
  BY ConcatIs DEF Undoes
<1>2. \A k \in DOMAIN (a \o b) : (a \o b)[k][1] \in {"stop", "join", "release", "close"}
  <2> TAKE k \in DOMAIN (a \o b)
  <2>1. (\E j \in DOMAIN a : (a \o b)[k] = a[j]) \/ (\E j \in DOMAIN b : (a \o b)[k] = b[j])
    BY <1>1, ConcatIs, ZenonT(60)
  <2> QED BY <2>1 DEF Undoes
<1>3. \A s \in Shards : First(<<"join", s>>, <<"release", s>>, a \o b)
  <2> TAKE s \in Shards
  <2>1. First(<<"join", s>>, <<"release", s>>, a)
    <3>1. \A k \in DOMAIN a : a[k] # <<"release", s>>
      OBVIOUS
    <3> QED BY <3>1 DEF First
  <2>2. First(<<"join", s>>, <<"release", s>>, b)
    BY DEF Undoes
  <2> QED BY <1>1, <2>1, <2>2, ConcatFirst
<1>4. \A s \in 1..n : In(<<"join", s>>, a \o b) /\ In(<<"release", s>>, a \o b)
  BY <1>1, ConcatIn, Zenon DEF Undoes
<1> QED BY <1>1, <1>2, <1>3, <1>4 DEF Undoes

\* The cleanup of each failure undoes the shards that were set up: those before the one
\* whose listen step failed, or all of them.
LEMMA CleanupIs ==
    ASSUME NEW op \in {"listen", "bound", "open", "ring", "spawn", "start"}, NEW i,
           <<op, i>> \in Instr
    PROVE  Undoes(Cleanup(op, i), IF op = "listen" THEN i - 1 ELSE N)
<1>0. N \in Nat /\ N \in 0..N
  BY GatewayAssumption
<1>1. ASSUME op \in {"listen", "spawn"} PROVE i \in Shards /\ i - 1 \in 0..N
  BY <1>0, <1>1 DEF Instr, MainOps, Shards
<1>2. ASSUME NEW n \in 0..N PROVE Undoes(Shutdown(n), n)
  <2>1. \A k \in DOMAIN Shutdown(n) : Shutdown(n)[k][1] \in {"stop", "join", "release", "close"}
    BY ShutdownIs
  <2> QED BY <2>1, ShutdownIs DEF Undoes
<1>3. /\ << <<"close", 0>> >> \in Seq(Instr)
      /\ \A k \in DOMAIN << <<"close", 0>> >> : << <<"close", 0>> >>[k][1] \in {"stop", "join", "close"}
  BY OnceIs DEF MainOps
<1>4. ASSUME NEW n \in 0..N
      PROVE  Undoes((Each("stop", n) \o Each("join", n)) \o Shutdown(N), N)
  <2> DEFINE a == Each("stop", n)
             b == Each("join", n)
             c == a \o b
  <2>1. /\ a \in Seq(Instr) /\ (\A k \in DOMAIN a : a[k][1] = "stop")
        /\ b \in Seq(Instr) /\ (\A k \in DOMAIN b : b[k][1] = "join")
    BY EachIs DEF ShardOps
  <2> HIDE DEF a, b
  <2>2. c \in Seq(Instr) /\ \A k \in DOMAIN c : c[k][1] \in {"stop", "join", "close"}
    <3>1. \A k \in DOMAIN c : (\E j \in DOMAIN a : c[k] = a[j]) \/ (\E j \in DOMAIN b : c[k] = b[j])
      BY <2>1, ConcatIs
    <3>2. c \in Seq(Instr)
      BY <2>1, ConcatIs
    <3>3. \A k \in DOMAIN c : c[k][1] = "stop" \/ c[k][1] = "join"
      <4> HIDE DEF c
      <4> QED BY <2>1, <3>1
    <3> QED BY <3>2, <3>3
  <2> HIDE DEF c
  <2>3. Undoes(Shutdown(N), N)
    BY <1>0, <1>2
  <2>4. Undoes(c \o Shutdown(N), N)
    BY <1>0, <2>2, <2>3, UndoesAfter
  <2> QED BY <2>4 DEF a, b, c
<1>5. CASE op = "listen"
  BY <1>1, <1>2, <1>5 DEF Cleanup
<1>6. CASE op \in {"bound", "open"}
  BY <1>0, <1>2, <1>6 DEF Cleanup
<1>7. CASE op = "ring"
  <2>1. Cleanup(op, i) = << <<"close", 0>> >> \o Shutdown(N)
    BY <1>7 DEF Cleanup
  <2> QED BY <1>0, <1>2, <1>3, <1>7, <2>1, UndoesAfter, Zenon
<1>8. CASE op = "spawn"
  <2>1. Cleanup(op, i) = (Each("stop", i - 1) \o Each("join", i - 1)) \o Shutdown(N)
    BY <1>8 DEF Cleanup
  <2> QED BY <1>1, <1>4, <1>8, <2>1, Zenon
<1>9. CASE op = "start"
  <2> DEFINE a == (Each("stop", N) \o Each("join", N)) \o Shutdown(N)
             b == << <<"close", 0>> >>
  <2>1. Cleanup(op, i) = a \o b
    BY <1>9 DEF Cleanup
  <2>2. Undoes(a, N)
    BY <1>0, <1>4
  <2>3. b \in Seq(Instr) /\ \A k \in DOMAIN b : b[k] = <<"close", 0>>
    BY <1>3
  <2> HIDE DEF a, b
  <2>4. a \in Seq(Instr)
    BY <2>2 DEF Undoes
  <2>5. \A k \in DOMAIN (a \o b) : (a \o b)[k][1] \in {"stop", "join", "release", "close"}
    <3> TAKE k \in DOMAIN (a \o b)
    <3>1. (\E j \in DOMAIN a : (a \o b)[k] = a[j]) \/ (\E j \in DOMAIN b : (a \o b)[k] = b[j])
      BY <2>3, <2>4, ConcatIs, Zenon
    <3> QED BY <2>2, <2>3, <3>1 DEF Undoes
  <2>6. \A s \in Shards : First(<<"join", s>>, <<"release", s>>, a \o b)
    <3> TAKE s \in Shards
    <3>1. First(<<"join", s>>, <<"release", s>>, a)
      BY <2>2 DEF Undoes
    <3>2. First(<<"join", s>>, <<"release", s>>, b)
      BY <2>3 DEF First
    <3> QED BY <2>3, <2>4, <3>1, <3>2, ConcatFirst
  <2>7. \A s \in 1..N : In(<<"join", s>>, a \o b) /\ In(<<"release", s>>, a \o b)
    BY <2>2, <2>3, <2>4, ConcatIn, Zenon DEF Undoes
  <2>8. Undoes(a \o b, N)
    BY <2>3, <2>4, <2>5, <2>6, <2>7, ConcatIs DEF Undoes
  <2> QED BY <1>9, <2>1, <2>8, Zenon
<1> QED BY <1>5, <1>6, <1>7, <1>8, <1>9

-----------------------------------------------------------------------------

\* No step left is of an earlier stage than the one being taken.
LEMMA TailStage ==
    ASSUME NEW T \in Seq(Instr), T # <<>>, Ordered(T), NEW x, In(x, Tail(T))
    PROVE  Stage(T[1][1]) <= Stage(x[1]) /\ (T[1][1] = "start" => Stage(x[1]) = 7)
BY TailOrdered DEF In

\* A step that is not about a shard leaves it in order.
LEMMA OtherStep ==
    ASSUME NEW T \in Seq(Instr), T # <<>>, NEW l \in BOOLEAN, NEW s \in Shards,
           NEW r \in ShardRecord, ShardOK(l, s, r, T),
           T[1] \notin {"listen", "ring", "spawn", "join", "release"} \X {s}
    PROVE  ShardOK(l, s, r, Tail(T))
<1>1. \A op \in {"listen", "ring", "spawn", "join", "release"} :
        T[1] # <<op, s>> /\ (In(<<op, s>>, T) <=> In(<<op, s>>, Tail(T)))
  BY TailIn
<1>2. \A x : In(x, Tail(T)) => In(x, T)
  BY TailIn
<1>3. First(<<"join", s>>, <<"release", s>>, T) => First(<<"join", s>>, <<"release", s>>, Tail(T))
  BY <1>1, TailFirst
<1> QED BY <1>1, <1>2, <1>3 DEF ShardOK

\* What each step leaves of the shard it is about: listen and Shard::init.
LEMMA ListenStep ==
    ASSUME NEW T \in Seq(Instr), T # <<>>, NEW l \in BOOLEAN, NEW s \in Shards,
           NEW r \in ShardRecord, ShardOK(l, s, r, T), Ordered(T), Listens(T),
           T[1] = <<"listen", s>>
    PROVE  ShardOK(l, s, [r EXCEPT !.loop = TRUE, !.running = TRUE], Tail(T))
<1> DEFINE p == [r EXCEPT !.loop = TRUE, !.running = TRUE]
<1>1. p.loop = TRUE /\ p.ring = r.ring /\ p.spawned = r.spawned /\ p.thread = r.thread
  BY DEF ShardRecord
<1>2. \A op \in {"ring", "spawn", "join", "release"} : In(<<op, s>>, T) <=> In(<<op, s>>, Tail(T))
  BY TailIn
<1>3. \A q \in Shards : In(<<"listen", q>>, Tail(T)) => In(<<"listen", q>>, T)
  BY TailIn
<1>4. ~In(<<"listen", s>>, Tail(T)) /\ In(<<"listen", s>>, T)
  BY TailListens, TailIn
<1>5. First(<<"join", s>>, <<"release", s>>, T) => First(<<"join", s>>, <<"release", s>>, Tail(T))
  BY TailFirst
<1> HIDE DEF p
<1>6. ShardOK(l, s, p, Tail(T))
  BY <1>1, <1>2, <1>3, <1>4, <1>5 DEF ShardOK
<1> QED BY <1>6 DEF p

\* Shard::init_access_log maps the ring before the shard is spawned.
LEMMA RingStep ==
    ASSUME NEW T \in Seq(Instr), T # <<>>, NEW l \in BOOLEAN, NEW s \in Shards,
           NEW r \in ShardRecord, ShardOK(l, s, r, T), Ordered(T), T[1] = <<"ring", s>>
    PROVE  ShardOK(l, s, [r EXCEPT !.ring = TRUE], Tail(T))
<1> DEFINE p == [r EXCEPT !.ring = TRUE]
<1>1. p.loop = r.loop /\ p.ring = TRUE /\ p.spawned = r.spawned /\ p.thread = r.thread
  BY DEF ShardRecord
<1>2. \A op \in {"spawn", "join", "release"} : In(<<op, s>>, T) <=> In(<<op, s>>, Tail(T))
  BY TailIn
<1>3. \A q \in Shards : ~In(<<"listen", q>>, Tail(T))
  BY TailStage, StageIs
<1>4. In(<<"ring", s>>, T)
  BY TailIn
<1>5. First(<<"join", s>>, <<"release", s>>, T) => First(<<"join", s>>, <<"release", s>>, Tail(T))
  BY TailFirst
<1>6. In(<<"spawn", s>>, Tail(T)) => r.loop
  <2>1. ~In(<<"listen", s>>, T)
    BY <1>3, TailIn
  <2> QED BY <1>2, <2>1 DEF ShardOK
<1> HIDE DEF p
<1>7. ShardOK(l, s, p, Tail(T))
  BY <1>1, <1>2, <1>3, <1>4, <1>5, <1>6 DEF ShardOK
<1> QED BY <1>7 DEF p

\* Shard::spawn finds a mapped loop and, with --access-log, a mapped ring.
LEMMA SpawnStep ==
    ASSUME NEW T \in Seq(Instr), T # <<>>, NEW l \in BOOLEAN, NEW s \in Shards,
           NEW r \in ShardRecord, ShardOK(l, s, r, T), Ordered(T), T[1] = <<"spawn", s>>
    PROVE  ShardOK(l, s, [r EXCEPT !.spawned = TRUE, !.thread = "run"], Tail(T))
<1> DEFINE p == [r EXCEPT !.spawned = TRUE, !.thread = "run"]
<1>1. p.loop = r.loop /\ p.ring = r.ring /\ p.spawned = TRUE /\ p.thread = "run"
  BY DEF ShardRecord
<1>2. \A op \in {"join", "release"} : In(<<op, s>>, T) <=> In(<<op, s>>, Tail(T))
  BY TailIn
<1>3. \A q \in Shards : ~In(<<"listen", q>>, Tail(T)) /\ ~In(<<"ring", q>>, Tail(T))
  BY TailStage, StageIs
<1>4. In(<<"spawn", s>>, T) /\ ~In(<<"listen", s>>, T) /\ ~In(<<"ring", s>>, T)
  BY <1>3, TailIn, SMTT(30)
<1>5. First(<<"join", s>>, <<"release", s>>, T) => First(<<"join", s>>, <<"release", s>>, Tail(T))
  BY TailFirst
<1> HIDE DEF p
<1>6. ShardOK(l, s, p, Tail(T))
  BY <1>1, <1>2, <1>3, <1>4, <1>5, Zenon DEF ShardOK
<1> QED BY <1>6 DEF p

\* Shard::join returns when the thread is gone.
LEMMA JoinStep ==
    ASSUME NEW T \in Seq(Instr), T # <<>>, NEW l \in BOOLEAN, NEW s \in Shards,
           NEW r \in ShardRecord, ShardOK(l, s, r, T), Ordered(T), T[1] = <<"join", s>>,
           r.spawned => r.thread = "gone"
    PROVE  ShardOK(l, s, [r EXCEPT !.spawned = FALSE], Tail(T))
<1> DEFINE p == [r EXCEPT !.spawned = FALSE]
<1>1. p.loop = r.loop /\ p.ring = r.ring /\ p.spawned = FALSE /\ p.thread = r.thread
  BY DEF ShardRecord
<1>2. In(<<"release", s>>, T) <=> In(<<"release", s>>, Tail(T))
  BY TailIn
<1>3. \A q \in Shards :
        ~In(<<"listen", q>>, Tail(T)) /\ ~In(<<"ring", q>>, Tail(T)) /\ ~In(<<"spawn", q>>, Tail(T))
  BY TailStage, StageIs, SMTT(30)
<1>4. r.thread # "run"
  BY DEF ShardOK
<1> HIDE DEF p
<1>5. ShardOK(l, s, p, Tail(T))
  BY <1>1, <1>2, <1>3, <1>4, Zenon DEF ShardOK
<1> QED BY <1>5 DEF p

\* Shard::shutdown releases what no thread uses any more.
LEMMA ReleaseStep ==
    ASSUME NEW T \in Seq(Instr), T # <<>>, NEW l \in BOOLEAN, NEW s \in Shards,
           NEW r \in ShardRecord, ShardOK(l, s, r, T), Ordered(T), T[1] = <<"release", s>>
    PROVE  ShardOK(l, s, [r EXCEPT !.ring = FALSE, !.loop = FALSE], Tail(T))
<1> DEFINE p == [r EXCEPT !.ring = FALSE, !.loop = FALSE]
<1>1. p.loop = FALSE /\ p.ring = FALSE /\ p.spawned = r.spawned /\ p.thread = r.thread
  BY DEF ShardRecord
<1>3. \A q \in Shards :
        ~In(<<"listen", q>>, Tail(T)) /\ ~In(<<"ring", q>>, Tail(T)) /\ ~In(<<"spawn", q>>, Tail(T))
  BY TailStage, StageIs, SMTT(30)
<1>4. 1 \in DOMAIN T /\ 1..(1 - 1) = {}
  OBVIOUS
<1>5. ~First(<<"join", s>>, <<"release", s>>, T)
  BY <1>4 DEF First
<1>6. ~r.spawned /\ r.thread # "run"
  BY <1>5 DEF ShardOK
<1> HIDE DEF p
<1>7. ShardOK(l, s, p, Tail(T))
  BY <1>1, <1>3, <1>6 DEF ShardOK
<1> QED BY <1>7 DEF p

\* A step that neither acquires nor releases what the flusher uses.
LEMMA FlusherOther ==
    ASSUME NEW T \in Seq(Instr), T # <<>>, NEW t, NEW o, NEW h, NEW g, FlusherOK(t, o, h, T),
           T[1][1] \notin {"open", "close", "ring", "start", "fljoin", "release"},
           \A s \in Shards : g[s].ring = h[s].ring
    PROVE  FlusherOK(t, o, g, Tail(T))
<1>1. \A op \in {"open", "start", "fljoin"} :
        T[1] # <<op, 0>> /\ (In(<<op, 0>>, T) <=> In(<<op, 0>>, Tail(T)))
  BY TailIn
<1>2. \A s \in Shards : In(<<"ring", s>>, T) <=> In(<<"ring", s>>, Tail(T))
  <2> TAKE s \in Shards
  <2>1. T[1] # <<"ring", s>>
    OBVIOUS
  <2> QED BY <2>1, TailIn
<1>3. First(<<"fljoin", 0>>, <<"close", 0>>, T) => First(<<"fljoin", 0>>, <<"close", 0>>, Tail(T))
  BY <1>1, TailFirst
<1>4. \A s \in Shards :
        First(<<"fljoin", 0>>, <<"release", s>>, T) => First(<<"fljoin", 0>>, <<"release", s>>, Tail(T))
  BY <1>1, TailFirst
<1>5. \A k \in DOMAIN Tail(T) : \E j \in DOMAIN T : Tail(T)[k] = T[j]
  BY TailIs
<1>6. (\A k \in DOMAIN T : Stage(T[k][1]) = 7) => \A k \in DOMAIN Tail(T) : Stage(Tail(T)[k][1]) = 7
  BY <1>5
<1> QED BY <1>1, <1>2, <1>3, <1>4, <1>6, Zenon DEF FlusherOK

\* A flusher that does not run, and will not be started, asks for nothing.
LEMMA FlusherIdle ==
    ASSUME NEW T, NEW t, NEW o, NEW h, t # "run", ~In(<<"start", 0>>, T)
    PROVE  FlusherOK(t, o, h, T)
BY DEF FlusherOK

\* Opening the file and mapping a ring, before the flusher starts.
LEMMA FlusherAcquires ==
    ASSUME NEW T \in Seq(Instr), T # <<>>, NEW t, NEW o, NEW h, NEW p, NEW g,
           FlusherOK(t, o, h, T), T[1][1] \in {"open", "ring"},
           o \/ T[1][1] = "open" => p,
           \A s \in Shards : h[s].ring \/ T[1] = <<"ring", s>> => g[s].ring
    PROVE  FlusherOK(t, p, g, Tail(T))
<1>0. T[1] # <<"fljoin", 0>> /\ T[1] # <<"start", 0>> /\ T[1] # <<"close", 0>>
  OBVIOUS
<1>1. t # "run"
  <2>1. Stage(T[1][1]) # 7
    BY StageIs
  <2>2. 1 \in DOMAIN T
    OBVIOUS
  <2> QED BY <2>1, <2>2 DEF FlusherOK
<1>2. SUFFICES ASSUME In(<<"start", 0>>, Tail(T)) PROVE FlusherOK(t, p, g, Tail(T))
  BY <1>1 DEF FlusherOK
<1>3. In(<<"start", 0>>, T)
  BY <1>2, TailIn
<1>4. In(<<"fljoin", 0>>, Tail(T))
  BY <1>0, <1>3, TailIn DEF FlusherOK
<1>5. First(<<"fljoin", 0>>, <<"close", 0>>, Tail(T))
  BY <1>0, <1>3, TailFirst DEF FlusherOK
<1>6. \A s \in Shards : First(<<"fljoin", 0>>, <<"release", s>>, Tail(T))
  BY <1>0, <1>3, TailFirst, Zenon DEF FlusherOK
<1>7. p \/ In(<<"open", 0>>, Tail(T))
  <2>1. CASE T[1][1] = "open" BY <2>1
  <2>2. CASE T[1][1] # "open"
    BY <2>2, <1>3, TailIn DEF FlusherOK
  <2> QED BY <2>1, <2>2
<1>8. \A s \in Shards : g[s].ring \/ In(<<"ring", s>>, Tail(T))
  BY <1>3, TailIn, Zenon DEF FlusherOK
<1> QED BY <1>1, <1>4, <1>5, <1>6, <1>7, <1>8 DEF FlusherOK

\* AccessLogFlusher::start finds an open file and every ring.
LEMMA FlusherStarts ==
    ASSUME NEW T \in Seq(Instr), T # <<>>, NEW t, NEW o \in BOOLEAN, NEW h \in [Shards -> ShardRecord],
           FlusherOK(t, o, h, T), Ordered(T), T[1] = <<"start", 0>>
    PROVE  FlusherOK("run", o, h, Tail(T))
<1>1. In(<<"start", 0>>, T)
  BY TailIn
<1>2. \A x : In(x, Tail(T)) => Stage(x[1]) = 7
  BY TailStage
<1>3. ~In(<<"open", 0>>, T) /\ \A s \in Shards : ~In(<<"ring", s>>, T)
  <2>1. ~In(<<"open", 0>>, Tail(T)) /\ \A s \in Shards : ~In(<<"ring", s>>, Tail(T))
    BY <1>2, StageIs
  <2> QED BY <2>1, TailIn
<1>4. \A k \in DOMAIN Tail(T) : Stage(Tail(T)[k][1]) = 7
  BY <1>2 DEF In
<1>5. In(<<"fljoin", 0>>, Tail(T)) /\ First(<<"fljoin", 0>>, <<"close", 0>>, Tail(T))
  BY <1>1, TailIn, TailFirst DEF FlusherOK
<1>6. \A s \in Shards : First(<<"fljoin", 0>>, <<"release", s>>, Tail(T))
  <2>1. T[1] # <<"fljoin", 0>>
    OBVIOUS
  <2>2. \A s \in Shards : First(<<"fljoin", 0>>, <<"release", s>>, T)
    BY <1>1, Zenon DEF FlusherOK
  <2> QED BY <2>1, <2>2, TailFirst, Zenon
<1>7. o /\ \A s \in Shards : h[s].ring
  BY <1>1, <1>3, Zenon DEF FlusherOK
<1> QED BY <1>4, <1>5, <1>6, <1>7 DEF FlusherOK

\* What every step of the main thread that succeeds does to the program.
LEMMA Advances ==
    ASSUME IInv, main.todo # <<>>, Advance
    PROVE  /\ main' = [todo |-> main'.todo, rc |-> main'.rc, stall |-> main'.stall, mode |-> main'.mode]
           /\ main.todo \in Seq(Instr) /\ main.todo[1] \in Instr /\ main.todo[1] = Head(main.todo)
           /\ main'.todo = Tail(main.todo) /\ main'.todo \in Seq(Instr)
           /\ Ordered(main'.todo) /\ Listens(main'.todo)
           /\ Logging' = Logging /\ Logging \in BOOLEAN
<1>1. main.todo \in Seq(Instr) /\ Ordered(main.todo) /\ Listens(main.todo)
  BY DEF IInv, TypeOK
<1>2. /\ main'.todo = Tail(main.todo) /\ main'.mode = main.mode
      /\ main' = [todo |-> main'.todo, rc |-> main'.rc, stall |-> main'.stall, mode |-> main'.mode]
  BY Zenon DEF Advance, IInv, TypeOK
<1>3. Tail(main.todo) \in Seq(Instr) /\ main.todo[1] \in Instr /\ main.todo[1] = Head(main.todo)
  BY <1>1
<1>4. Ordered(Tail(main.todo))
  BY <1>1, TailOrdered
<1>5. Listens(Tail(main.todo))
  BY <1>1, TailListens
<1>6. Logging' = Logging /\ Logging \in BOOLEAN
  BY <1>2 DEF Logging
<1> QED BY <1>1, <1>2, <1>3, <1>4, <1>5, <1>6

\* The shard a step is about is one of the shards.
LEMMA AtShard ==
    ASSUME IInv, NEW op \in ShardOps, At(op)
    PROVE  Here \in Shards /\ main.todo[1] = <<op, Here>>
<1>1. main.todo \in Seq(Instr) /\ main.todo # <<>> /\ Head(main.todo)[1] = op
  BY DEF IInv, TypeOK, At
<1>2. Head(main.todo) = main.todo[1] /\ main.todo[1] \in Instr
  BY <1>1
<1>3. op \notin MainOps
  BY DEF ShardOps, MainOps
<1> QED BY <1>1, <1>2, <1>3 DEF Instr, Here

\* A step that is about no shard.
LEMMA AtMain ==
    ASSUME IInv, NEW op \in MainOps, At(op)
    PROVE  main.todo[1] = <<op, 0>> /\ \A s \in Shards, o \in ShardOps : main.todo[1] # <<o, s>>
<1>1. main.todo \in Seq(Instr) /\ main.todo # <<>> /\ Head(main.todo)[1] = op
  BY DEF IInv, TypeOK, At
<1>2. Head(main.todo) = main.todo[1] /\ main.todo[1] \in Instr
  BY <1>1
<1>3. op \notin ShardOps
  BY DEF ShardOps, MainOps
<1>4. main.todo[1] = <<op, 0>>
  BY <1>1, <1>2, <1>3 DEF Instr
<1> QED BY <1>3, <1>4

\* A step of the main thread that touches one shard.
LEMMA ShardAdvances ==
    ASSUME IInv, NEW op \in ShardOps, At(op), Advance, NEW r \in ShardRecord,
           shard' = [shard EXCEPT ![Here] = r],
           ShardOK(Logging, Here, r, Tail(main.todo)),
           FlusherOK(fl'.thread, fd', shard', Tail(main.todo)),
           "thread" \in DOMAIN fl', fd' \in BOOLEAN
    PROVE  IInv'
<1> DEFINE T == main.todo
<1>0. T # <<>>
  BY DEF At
<1>1. Here \in Shards /\ T[1] = <<op, Here>>
  BY AtShard
<1>2. /\ main' = [todo |-> main'.todo, rc |-> main'.rc, stall |-> main'.stall, mode |-> main'.mode]
      /\ T \in Seq(Instr) /\ main'.todo = Tail(T) /\ main'.todo \in Seq(Instr)
      /\ Ordered(main'.todo) /\ Listens(main'.todo)
      /\ Logging' = Logging /\ Logging \in BOOLEAN
  BY <1>0, Advances
<1>3. /\ shard \in [Shards -> ShardRecord] /\ shard' \in [Shards -> ShardRecord]
      /\ shard'[Here] = r /\ \A s \in Shards \ {Here} : shard'[s] = shard[s]
  BY <1>1 DEF IInv, TypeOK
<1>4. \A s \in Shards : ShardOK(Logging, s, shard'[s], Tail(T))
  <2> TAKE s \in Shards
  <2>1. CASE s = Here
    BY <2>1, <1>3
  <2>2. CASE s # Here
    <3>1. T[1] \notin {"listen", "ring", "spawn", "join", "release"} \X {s}
      BY <1>1, <2>2
    <3>2. ShardOK(Logging, s, shard[s], T)
      BY DEF IInv
    <3>3. shard[s] \in ShardRecord
      BY <1>3
    <3>4. ShardOK(Logging, s, shard[s], Tail(T))
      BY <1>0, <1>2, <3>1, <3>2, <3>3, OtherStep
    <3> QED BY <3>4, <2>2, <1>3
  <2> QED BY <2>1, <2>2
<1>5. TypeOK'
  BY <1>2, <1>3 DEF TypeOK
<1> QED BY <1>2, <1>4, <1>5 DEF IInv

\* A step of the main thread that touches none.
LEMMA OtherAdvances ==
    ASSUME IInv, NEW op \in MainOps, At(op), Advance, shard' = shard,
           FlusherOK(fl'.thread, fd', shard, Tail(main.todo)),
           "thread" \in DOMAIN fl', fd' \in BOOLEAN
    PROVE  IInv'
<1> DEFINE T == main.todo
<1>0. T # <<>>
  BY DEF At
<1>1. T[1] = <<op, 0>> /\ \A s \in Shards, o \in ShardOps : T[1] # <<o, s>>
  BY AtMain
<1>2. /\ main' = [todo |-> main'.todo, rc |-> main'.rc, stall |-> main'.stall, mode |-> main'.mode]
      /\ T \in Seq(Instr) /\ main'.todo = Tail(T) /\ main'.todo \in Seq(Instr)
      /\ Ordered(main'.todo) /\ Listens(main'.todo)
      /\ Logging' = Logging /\ Logging \in BOOLEAN
  BY <1>0, Advances
<1>4. \A s \in Shards : ShardOK(Logging, s, shard[s], Tail(T))
  <2> TAKE s \in Shards
  <2>1. T[1] \notin {"listen", "ring", "spawn", "join", "release"} \X {s}
    BY <1>1 DEF ShardOps
  <2>2. ShardOK(Logging, s, shard[s], T) /\ shard[s] \in ShardRecord
    BY DEF IInv, TypeOK
  <2> QED BY <1>0, <1>2, <2>1, <2>2, OtherStep
<1>5. TypeOK'
  BY <1>2 DEF TypeOK, IInv
<1> QED BY <1>2, <1>4, <1>5 DEF IInv

\* What a step of the main thread can use of the invariant.
LEMMA Known ==
    ASSUME IInv, main.todo # <<>>
    PROVE  /\ main.todo \in Seq(Instr) /\ Ordered(main.todo) /\ Listens(main.todo)
           /\ shard \in [Shards -> ShardRecord]
           /\ \A s \in Shards : shard[s] \in ShardRecord /\ ShardOK(Logging, s, shard[s], main.todo)
           /\ FlusherOK(fl.thread, fd, shard, main.todo)
           /\ "thread" \in DOMAIN fl /\ fd \in BOOLEAN /\ Logging \in BOOLEAN
BY DEF IInv, TypeOK, Logging

\* The steps of run_shards preserve the invariant, one by one: listen, and Shard::init.
LEMMA MainListenOK == ASSUME IInv, MainListen PROVE IInv'
<1> DEFINE T == main.todo
<1> DEFINE r == [shard[Here] EXCEPT !.loop = TRUE, !.running = TRUE]
<1>1. At("listen") /\ Advance /\ fl' = fl /\ fd' = fd /\ T # <<>> /\ "listen" \in ShardOps
  BY DEF MainListen, At, ShardOps
<1>2. Here \in Shards /\ T[1] = <<"listen", Here>>
  BY <1>1, AtShard
<1>3. /\ T \in Seq(Instr) /\ Ordered(T) /\ Listens(T) /\ shard \in [Shards -> ShardRecord]
      /\ \A s \in Shards : shard[s] \in ShardRecord /\ ShardOK(Logging, s, shard[s], T)
      /\ FlusherOK(fl.thread, fd, shard, T) /\ "thread" \in DOMAIN fl /\ fd \in BOOLEAN /\ Logging \in BOOLEAN
  BY <1>1, Known
<1>4. shard' = [shard EXCEPT ![Here] = r] /\ r \in ShardRecord /\ r.ring = shard[Here].ring
  BY <1>2, <1>3, ZenonT(60) DEF MainListen, ShardRecord
<1>5. ShardOK(Logging, Here, r, Tail(T))
  BY <1>1, <1>2, <1>3, ListenStep, Zenon
<1>6. FlusherOK(fl'.thread, fd', shard', Tail(T))
  <2>1. \A s \in Shards : shard'[s].ring = shard[s].ring
    BY <1>2, <1>3, <1>4
  <2>2. T[1][1] \notin {"open", "close", "ring", "start", "fljoin", "release"}
    BY <1>2
  <2> QED BY <1>1, <1>3, <2>1, <2>2, FlusherOther
<1> HIDE DEF r
<1> QED BY <1>1, <1>3, <1>4, <1>5, <1>6, ShardAdvances, Zenon

\* Once the cleanup has begun the flusher is not started any more.
LEMMA NoStart ==
    ASSUME NEW T \in Seq(Instr), T # <<>>, Ordered(T), T[1][1] \in {"fljoin", "close", "release"}
    PROVE  ~In(<<"start", 0>>, Tail(T))
<1>1. Stage(T[1][1]) = 7
  BY StageIs
<1>2. Stage("start") = 6
  BY StageIs
<1> QED BY <1>1, <1>2, TailStage

\* Shard::init_access_log.
LEMMA MainRingOK == ASSUME IInv, MainRing PROVE IInv'
<1> DEFINE T == main.todo
<1> DEFINE r == [shard[Here] EXCEPT !.ring = TRUE]
<1>1. At("ring") /\ Advance /\ fl' = fl /\ fd' = fd /\ T # <<>> /\ "ring" \in ShardOps
  BY DEF MainRing, At, ShardOps
<1>2. Here \in Shards /\ T[1] = <<"ring", Here>>
  BY <1>1, AtShard
<1>3. /\ T \in Seq(Instr) /\ Ordered(T) /\ Listens(T) /\ shard \in [Shards -> ShardRecord]
      /\ \A s \in Shards : shard[s] \in ShardRecord /\ ShardOK(Logging, s, shard[s], T)
      /\ FlusherOK(fl.thread, fd, shard, T) /\ "thread" \in DOMAIN fl /\ fd \in BOOLEAN /\ Logging \in BOOLEAN
  BY <1>1, Known
<1>4. shard' = [shard EXCEPT ![Here] = r] /\ r \in ShardRecord /\ r.ring = TRUE
  BY <1>2, <1>3, Zenon DEF MainRing, ShardRecord
<1>5. ShardOK(Logging, Here, r, Tail(T))
  BY <1>1, <1>2, <1>3, RingStep, SMTT(30)
<1>6. FlusherOK(fl'.thread, fd', shard', Tail(T))
  <2>1. \A s \in Shards : shard[s].ring \/ T[1] = <<"ring", s>> => shard'[s].ring
    BY <1>2, <1>3, <1>4
  <2>2. T[1][1] \in {"open", "ring"} /\ (fd \/ T[1][1] = "open" => fd)
    BY <1>2
  <2> QED BY <1>1, <1>3, <2>1, <2>2, FlusherAcquires
<1> HIDE DEF r
<1> QED BY <1>1, <1>3, <1>4, <1>5, <1>6, ShardAdvances, Zenon

\* Shard::spawn.
LEMMA MainSpawnOK == ASSUME IInv, MainSpawn PROVE IInv'
<1> DEFINE T == main.todo
<1> DEFINE r == [shard[Here] EXCEPT !.spawned = TRUE, !.thread = "run"]
<1>1. At("spawn") /\ Advance /\ fl' = fl /\ fd' = fd /\ T # <<>> /\ "spawn" \in ShardOps
  BY DEF MainSpawn, At, ShardOps
<1>2. Here \in Shards /\ T[1] = <<"spawn", Here>>
  BY <1>1, AtShard
<1>3. /\ T \in Seq(Instr) /\ Ordered(T) /\ Listens(T) /\ shard \in [Shards -> ShardRecord]
      /\ \A s \in Shards : shard[s] \in ShardRecord /\ ShardOK(Logging, s, shard[s], T)
      /\ FlusherOK(fl.thread, fd, shard, T) /\ "thread" \in DOMAIN fl /\ fd \in BOOLEAN /\ Logging \in BOOLEAN
  BY <1>1, Known
<1>4. shard' = [shard EXCEPT ![Here] = r] /\ r \in ShardRecord /\ r.ring = shard[Here].ring
  BY <1>2, <1>3, ZenonT(60) DEF MainSpawn, ShardRecord
<1>5. ShardOK(Logging, Here, r, Tail(T))
  BY <1>1, <1>2, <1>3, SpawnStep, Zenon
<1>6. FlusherOK(fl'.thread, fd', shard', Tail(T))
  <2>1. \A s \in Shards : shard'[s].ring = shard[s].ring
    BY <1>2, <1>3, <1>4
  <2>2. T[1][1] \notin {"open", "close", "ring", "start", "fljoin", "release"}
    BY <1>2
  <2> QED BY <1>1, <1>3, <2>1, <2>2, FlusherOther
<1> HIDE DEF r
<1> QED BY <1>1, <1>3, <1>4, <1>5, <1>6, ShardAdvances, Zenon

\* Shard::drain changes what the thread does, and nothing it uses.
LEMMA MainDrainOK == ASSUME IInv, MainDrain PROVE IInv'
<1> DEFINE T == main.todo
<1> DEFINE r == [shard[Here] EXCEPT !.draining = TRUE]
<1>1. At("drain") /\ Advance /\ fl' = fl /\ fd' = fd /\ T # <<>> /\ "drain" \in ShardOps
  BY DEF MainDrain, At, ShardOps
<1>2. Here \in Shards /\ T[1] = <<"drain", Here>>
  BY <1>1, AtShard
<1>3. /\ T \in Seq(Instr) /\ Ordered(T) /\ Listens(T) /\ shard \in [Shards -> ShardRecord]
      /\ \A s \in Shards : shard[s] \in ShardRecord /\ ShardOK(Logging, s, shard[s], T)
      /\ FlusherOK(fl.thread, fd, shard, T) /\ "thread" \in DOMAIN fl /\ fd \in BOOLEAN /\ Logging \in BOOLEAN
  BY <1>1, Known
<1>4. shard' = [shard EXCEPT ![Here] = r] /\ r \in ShardRecord /\ r.ring = shard[Here].ring
      /\ r.loop = shard[Here].loop /\ r.spawned = shard[Here].spawned /\ r.thread = shard[Here].thread
  BY <1>2, <1>3, ZenonT(60) DEF MainDrain, ShardRecord
<1> HIDE DEF r
<1>5. ShardOK(Logging, Here, r, Tail(T))
  <2>1. ShardOK(Logging, Here, shard[Here], T)
    BY <1>2, <1>3
  <2>2. ShardOK(Logging, Here, r, T)
    BY <1>4, <2>1 DEF ShardOK
  <2>3. T[1] \notin {"listen", "ring", "spawn", "join", "release"} \X {Here}
    BY <1>2, SMTT(30)
  <2> QED BY <1>1, <1>2, <1>3, <1>4, <2>2, <2>3, OtherStep
<1>6. FlusherOK(fl'.thread, fd', shard', Tail(T))
  <2>1. \A s \in Shards : shard'[s].ring = shard[s].ring
    BY <1>2, <1>3, <1>4
  <2>2. T[1][1] \notin {"open", "close", "ring", "start", "fljoin", "release"}
    BY <1>2
  <2> QED BY <1>1, <1>3, <2>1, <2>2, FlusherOther, ZenonT(60)
<1> QED BY <1>1, <1>3, <1>4, <1>5, <1>6, ShardAdvances, Zenon

\* Shard::stop changes what the thread does, and nothing it uses.
LEMMA MainStopOK == ASSUME IInv, MainStop PROVE IInv'
<1> DEFINE T == main.todo
<1> DEFINE r == [shard[Here] EXCEPT !.running = FALSE]
<1>1. At("stop") /\ Advance /\ fl' = fl /\ fd' = fd /\ T # <<>> /\ "stop" \in ShardOps
  BY DEF MainStop, At, ShardOps
<1>2. Here \in Shards /\ T[1] = <<"stop", Here>>
  BY <1>1, AtShard
<1>3. /\ T \in Seq(Instr) /\ Ordered(T) /\ Listens(T) /\ shard \in [Shards -> ShardRecord]
      /\ \A s \in Shards : shard[s] \in ShardRecord /\ ShardOK(Logging, s, shard[s], T)
      /\ FlusherOK(fl.thread, fd, shard, T) /\ "thread" \in DOMAIN fl /\ fd \in BOOLEAN /\ Logging \in BOOLEAN
  BY <1>1, Known
<1>4. shard' = [shard EXCEPT ![Here] = r] /\ r \in ShardRecord /\ r.ring = shard[Here].ring
      /\ r.loop = shard[Here].loop /\ r.spawned = shard[Here].spawned /\ r.thread = shard[Here].thread
  BY <1>2, <1>3, ZenonT(60) DEF MainStop, ShardRecord
<1> HIDE DEF r
<1>5. ShardOK(Logging, Here, r, Tail(T))
  <2>1. ShardOK(Logging, Here, shard[Here], T)
    BY <1>2, <1>3
  <2>2. ShardOK(Logging, Here, r, T)
    BY <1>4, <2>1 DEF ShardOK
  <2>3. T[1] \notin {"listen", "ring", "spawn", "join", "release"} \X {Here}
    BY <1>2, SMTT(30)
  <2> QED BY <1>1, <1>2, <1>3, <1>4, <2>2, <2>3, OtherStep
<1>6. FlusherOK(fl'.thread, fd', shard', Tail(T))
  <2>1. \A s \in Shards : shard'[s].ring = shard[s].ring
    BY <1>2, <1>3, <1>4
  <2>2. T[1][1] \notin {"open", "close", "ring", "start", "fljoin", "release"}
    BY <1>2
  <2> QED BY <1>1, <1>3, <2>1, <2>2, FlusherOther, ZenonT(60)
<1> QED BY <1>1, <1>3, <1>4, <1>5, <1>6, ShardAdvances, Zenon

\* Shard::join.
LEMMA MainJoinOK == ASSUME IInv, MainJoin PROVE IInv'
<1> DEFINE T == main.todo
<1> DEFINE r == [shard[Here] EXCEPT !.spawned = FALSE]
<1>1. At("join") /\ Advance /\ fl' = fl /\ fd' = fd /\ T # <<>> /\ "join" \in ShardOps
  BY DEF MainJoin, At, ShardOps
<1>2. Here \in Shards /\ T[1] = <<"join", Here>>
  BY <1>1, AtShard
<1>3. /\ T \in Seq(Instr) /\ Ordered(T) /\ Listens(T) /\ shard \in [Shards -> ShardRecord]
      /\ \A s \in Shards : shard[s] \in ShardRecord /\ ShardOK(Logging, s, shard[s], T)
      /\ FlusherOK(fl.thread, fd, shard, T) /\ "thread" \in DOMAIN fl /\ fd \in BOOLEAN /\ Logging \in BOOLEAN
  BY <1>1, Known
<1>4. shard' = [shard EXCEPT ![Here] = r] /\ r \in ShardRecord /\ r.ring = shard[Here].ring
  BY <1>2, <1>3, Zenon DEF MainJoin, ShardRecord
<1>5. ShardOK(Logging, Here, r, Tail(T))
  <2>1. shard[Here].spawned => shard[Here].thread = "gone"
    BY SMTT(30) DEF MainJoin
  <2> QED BY <1>1, <1>2, <1>3, <2>1, JoinStep
<1>6. FlusherOK(fl'.thread, fd', shard', Tail(T))
  <2>1. \A s \in Shards : shard'[s].ring = shard[s].ring
    BY <1>2, <1>3, <1>4
  <2>2. T[1][1] \notin {"open", "close", "ring", "start", "fljoin", "release"}
    BY <1>2
  <2> QED BY <1>1, <1>3, <2>1, <2>2, FlusherOther
<1> HIDE DEF r
<1> QED BY <1>1, <1>3, <1>4, <1>5, <1>6, ShardAdvances, Zenon

\* Shard::shutdown: the flusher was joined before.
LEMMA MainReleaseOK == ASSUME IInv, MainRelease PROVE IInv'
<1> DEFINE T == main.todo
<1> DEFINE r == [shard[Here] EXCEPT !.ring = FALSE, !.loop = FALSE]
<1>1. At("release") /\ Advance /\ fl' = fl /\ fd' = fd /\ T # <<>> /\ "release" \in ShardOps
  BY DEF MainRelease, At, ShardOps
<1>2. Here \in Shards /\ T[1] = <<"release", Here>>
  BY <1>1, AtShard
<1>3. /\ T \in Seq(Instr) /\ Ordered(T) /\ Listens(T) /\ shard \in [Shards -> ShardRecord]
      /\ \A s \in Shards : shard[s] \in ShardRecord /\ ShardOK(Logging, s, shard[s], T)
      /\ FlusherOK(fl.thread, fd, shard, T) /\ "thread" \in DOMAIN fl /\ fd \in BOOLEAN /\ Logging \in BOOLEAN
  BY <1>1, Known
<1>4. shard' = [shard EXCEPT ![Here] = r] /\ r \in ShardRecord /\ r.ring = FALSE
  BY <1>2, <1>3, ZenonT(60) DEF MainRelease, ShardRecord
<1>5. ShardOK(Logging, Here, r, Tail(T))
  BY <1>1, <1>2, <1>3, ReleaseStep, Zenon
<1>6. FlusherOK(fl'.thread, fd', shard', Tail(T))
  <2>1. 1 \in DOMAIN T /\ 1..(1 - 1) = {}
    BY <1>1, <1>3
  <2>2. ~First(<<"fljoin", 0>>, <<"release", Here>>, T)
    BY <2>1, <1>2, SMTT(30) DEF First
  <2>3. fl.thread # "run"
    BY <1>2, <1>3, <2>2 DEF FlusherOK
  <2>4. ~In(<<"start", 0>>, Tail(T))
    BY <1>1, <1>2, <1>3, NoStart, SMTT(30)
  <2> QED BY <1>1, <2>3, <2>4, FlusherIdle, SMTT(30)
<1> HIDE DEF r
<1> QED BY <1>1, <1>3, <1>4, <1>5, <1>6, ShardAdvances, Zenon

\* getsockname.
LEMMA MainBoundOK == ASSUME IInv, MainBound PROVE IInv'
<1> DEFINE T == main.todo
<1>1. At("bound") /\ Advance /\ shard' = shard /\ fl' = fl /\ fd' = fd /\ T # <<>> /\ "bound" \in MainOps
  BY DEF MainBound, At, MainOps
<1>2. T[1] = <<"bound", 0>>
  BY <1>1, AtMain
<1>3. /\ T \in Seq(Instr) /\ Ordered(T) /\ Listens(T) /\ shard \in [Shards -> ShardRecord]
      /\ \A s \in Shards : shard[s] \in ShardRecord /\ ShardOK(Logging, s, shard[s], T)
      /\ FlusherOK(fl.thread, fd, shard, T) /\ "thread" \in DOMAIN fl /\ fd \in BOOLEAN /\ Logging \in BOOLEAN
  BY <1>1, Known, SMTT(30)
<1>6. FlusherOK(fl'.thread, fd', shard, Tail(T))
  <2>1. T[1][1] \notin {"open", "close", "ring", "start", "fljoin", "release"}
    BY <1>2
  <2> QED BY <1>1, <1>3, <2>1, FlusherOther
<1> QED BY <1>1, <1>3, <1>6, OtherAdvances

\* sigwait.
LEMMA MainSigwaitOK == ASSUME IInv, MainSigwait PROVE IInv'
<1> DEFINE T == main.todo
<1>1. At("sigwait") /\ Advance /\ shard' = shard /\ fl' = fl /\ fd' = fd /\ T # <<>> /\ "sigwait" \in MainOps
  BY DEF MainSigwait, At, MainOps
<1>2. T[1] = <<"sigwait", 0>>
  BY <1>1, AtMain
<1>3. /\ T \in Seq(Instr) /\ Ordered(T) /\ Listens(T) /\ shard \in [Shards -> ShardRecord]
      /\ \A s \in Shards : shard[s] \in ShardRecord /\ ShardOK(Logging, s, shard[s], T)
      /\ FlusherOK(fl.thread, fd, shard, T) /\ "thread" \in DOMAIN fl /\ fd \in BOOLEAN /\ Logging \in BOOLEAN
  BY <1>1, Known, SMTT(30)
<1>6. FlusherOK(fl'.thread, fd', shard, Tail(T))
  <2>1. T[1][1] \notin {"open", "close", "ring", "start", "fljoin", "release"}
    BY <1>2
  <2> QED BY <1>1, <1>3, <2>1, FlusherOther
<1> QED BY <1>1, <1>3, <1>6, OtherAdvances

\* The open of the log file.
LEMMA MainOpenOK == ASSUME IInv, MainOpen PROVE IInv'
<1> DEFINE T == main.todo
<1>1. At("open") /\ Advance /\ shard' = shard /\ fl' = fl /\ fd' = TRUE /\ T # <<>> /\ "open" \in MainOps
  BY DEF MainOpen, At, MainOps
<1>2. T[1] = <<"open", 0>>
  BY <1>1, AtMain, SMTT(30)
<1>3. /\ T \in Seq(Instr) /\ Ordered(T) /\ Listens(T) /\ shard \in [Shards -> ShardRecord]
      /\ \A s \in Shards : shard[s] \in ShardRecord /\ ShardOK(Logging, s, shard[s], T)
      /\ FlusherOK(fl.thread, fd, shard, T) /\ "thread" \in DOMAIN fl /\ fd \in BOOLEAN /\ Logging \in BOOLEAN
  BY <1>1, Known
<1>6. FlusherOK(fl'.thread, fd', shard, Tail(T))
  <2>1. \A s \in Shards : shard[s].ring \/ T[1] = <<"ring", s>> => shard[s].ring
    BY <1>2
  <2>2. T[1][1] \in {"open", "ring"} /\ (fd \/ T[1][1] = "open" => fd')
    BY <1>1, <1>2
  <2> QED BY <1>1, <1>3, <2>1, <2>2, FlusherAcquires, Zenon
<1> QED BY <1>1, <1>3, <1>6, OtherAdvances, Zenon

\* AccessLogFlusher::start.
LEMMA MainStartOK == ASSUME IInv, MainStart PROVE IInv'
<1> DEFINE T == main.todo
<1>1. At("start") /\ Advance /\ shard' = shard /\ fd' = fd /\ fl' = [fl EXCEPT !.thread = "run", !.running = TRUE] /\ T # <<>> /\ "start" \in MainOps
  BY DEF MainStart, At, MainOps
<1>2. T[1] = <<"start", 0>>
  BY <1>1, AtMain
<1>3. /\ T \in Seq(Instr) /\ Ordered(T) /\ Listens(T) /\ shard \in [Shards -> ShardRecord]
      /\ \A s \in Shards : shard[s] \in ShardRecord /\ ShardOK(Logging, s, shard[s], T)
      /\ FlusherOK(fl.thread, fd, shard, T) /\ "thread" \in DOMAIN fl /\ fd \in BOOLEAN /\ Logging \in BOOLEAN
  BY <1>1, Known
<1>4. fl'.thread = "run" /\ "thread" \in DOMAIN fl'
  BY <1>1, <1>3
<1>5. fd \in BOOLEAN
  BY DEF IInv, TypeOK
<1>6. FlusherOK(fl'.thread, fd', shard, Tail(T))
  BY <1>1, <1>2, <1>3, <1>4, <1>5, FlusherStarts
<1> QED BY <1>1, <1>3, <1>4, <1>6, OtherAdvances

\* AccessLogFlusher::stop asks the thread to end.
LEMMA MainFlusherStopOK == ASSUME IInv, MainFlusherStop PROVE IInv'
<1> DEFINE T == main.todo
<1>1. At("flstop") /\ Advance /\ shard' = shard /\ fd' = fd /\ fl' = [fl EXCEPT !.running = FALSE] /\ T # <<>> /\ "flstop" \in MainOps
  BY DEF MainFlusherStop, At, MainOps
<1>2. T[1] = <<"flstop", 0>>
  BY <1>1, AtMain
<1>3. /\ T \in Seq(Instr) /\ Ordered(T) /\ Listens(T) /\ shard \in [Shards -> ShardRecord]
      /\ \A s \in Shards : shard[s] \in ShardRecord /\ ShardOK(Logging, s, shard[s], T)
      /\ FlusherOK(fl.thread, fd, shard, T) /\ "thread" \in DOMAIN fl /\ fd \in BOOLEAN /\ Logging \in BOOLEAN
  BY <1>1, Known
<1>4. fl'.thread = fl.thread /\ "thread" \in DOMAIN fl'
  BY <1>1, <1>3
<1>6. FlusherOK(fl'.thread, fd', shard, Tail(T))
  <2>1. T[1][1] \notin {"open", "close", "ring", "start", "fljoin", "release"}
    BY <1>2
  <2> QED BY <1>1, <1>3, <1>4, <2>1, FlusherOther
<1> QED BY <1>1, <1>3, <1>4, <1>6, OtherAdvances

\* AccessLogFlusher::stop waits for it.
LEMMA MainFlusherJoinOK == ASSUME IInv, MainFlusherJoin PROVE IInv'
<1> DEFINE T == main.todo
<1>1. At("fljoin") /\ Advance /\ shard' = shard /\ fd' = fd /\ fl' = fl /\ fl.thread = "gone" /\ T # <<>> /\ "fljoin" \in MainOps
  BY DEF MainFlusherJoin, At, MainOps
<1>2. T[1] = <<"fljoin", 0>>
  BY <1>1, AtMain
<1>3. /\ T \in Seq(Instr) /\ Ordered(T) /\ Listens(T) /\ shard \in [Shards -> ShardRecord]
      /\ \A s \in Shards : shard[s] \in ShardRecord /\ ShardOK(Logging, s, shard[s], T)
      /\ FlusherOK(fl.thread, fd, shard, T) /\ "thread" \in DOMAIN fl /\ fd \in BOOLEAN /\ Logging \in BOOLEAN
  BY <1>1, Known
<1>6. FlusherOK(fl'.thread, fd', shard, Tail(T))
  <2>1. ~In(<<"start", 0>>, Tail(T))
    BY <1>1, <1>2, <1>3, NoStart
  <2> QED BY <1>1, <2>1, FlusherIdle
<1> QED BY <1>1, <1>3, <1>6, OtherAdvances

\* The close of the log file: the flusher was joined before.
LEMMA MainCloseOK == ASSUME IInv, MainClose PROVE IInv'
<1> DEFINE T == main.todo
<1>1. At("close") /\ Advance /\ shard' = shard /\ fl' = fl /\ fd' = FALSE /\ T # <<>> /\ "close" \in MainOps
  BY DEF MainClose, At, MainOps
<1>2. T[1] = <<"close", 0>>
  BY <1>1, AtMain
<1>3. /\ T \in Seq(Instr) /\ Ordered(T) /\ Listens(T) /\ shard \in [Shards -> ShardRecord]
      /\ \A s \in Shards : shard[s] \in ShardRecord /\ ShardOK(Logging, s, shard[s], T)
      /\ FlusherOK(fl.thread, fd, shard, T) /\ "thread" \in DOMAIN fl /\ fd \in BOOLEAN /\ Logging \in BOOLEAN
  BY <1>1, Known
<1>6. FlusherOK(fl'.thread, fd', shard, Tail(T))
  <2>1. 1 \in DOMAIN T /\ 1..(1 - 1) = {}
    BY <1>1, <1>3
  <2>2. ~First(<<"fljoin", 0>>, <<"close", 0>>, T)
    BY <2>1, <1>2, SMTT(30) DEF First
  <2>3. fl.thread # "run"
    BY <1>3, <2>2, SMTT(30) DEF FlusherOK
  <2>4. ~In(<<"start", 0>>, Tail(T))
    BY <1>1, <1>2, <1>3, NoStart
  <2> QED BY <1>1, <2>3, <2>4, FlusherIdle
<1> QED BY <1>1, <1>3, <1>6, OtherAdvances, Zenon

\* The end of the zstd frame, written or not.
LEMMA MainEndFrameOK == ASSUME IInv, MainEndFrame PROVE IInv'
<1> DEFINE T == main.todo
<1>1. At("endframe") /\ shard' = shard /\ fl' = fl /\ fd' = fd /\ T # <<>> /\ "endframe" \in MainOps
  BY DEF MainEndFrame, At, MainOps
<1>2. T[1] = <<"endframe", 0>>
  BY <1>1, AtMain, SMTT(30)
<1>3. /\ T \in Seq(Instr) /\ Ordered(T) /\ Listens(T) /\ shard \in [Shards -> ShardRecord]
      /\ \A s \in Shards : shard[s] \in ShardRecord /\ ShardOK(Logging, s, shard[s], T)
      /\ FlusherOK(fl.thread, fd, shard, T) /\ "thread" \in DOMAIN fl /\ fd \in BOOLEAN /\ Logging \in BOOLEAN
  BY <1>1, Known
<1>4. Advance \/ \E n : main' = [main EXCEPT !.stall = n]
  BY DEF MainEndFrame
<1>5. CASE Advance
  <2>1. T[1][1] \notin {"open", "close", "ring", "start", "fljoin", "release"}
    BY <1>2, SMTT(30)
  <2>2. FlusherOK(fl'.thread, fd', shard, Tail(T))
    BY <1>1, <1>3, <2>1, FlusherOther
  <2> QED BY <1>1, <1>3, <1>5, <2>2, OtherAdvances
<1>6. CASE \E n : main' = [main EXCEPT !.stall = n]
  <2>1. /\ main'.todo = main.todo /\ main'.mode = main.mode
        /\ main' = [todo |-> main'.todo, rc |-> main'.rc, stall |-> main'.stall, mode |-> main'.mode]
    BY <1>6 DEF IInv, TypeOK
  <2>2. TypeOK'
    BY <1>1, <1>3, <2>1 DEF TypeOK, IInv
  <2> QED BY <1>1, <2>1, <2>2 DEF IInv, Logging
<1> QED BY <1>4, <1>5, <1>6

\* A step that fails leaves a cleanup that covers what was acquired: when listen fails
\* at shard i only the shards below i hold anything, otherwise every shard is undone; and
\* the flusher does not run yet.
LEMMA FailsOK == ASSUME IInv, Fails PROVE IInv'
<1> DEFINE T == main.todo
<1>1. PICK op \in Faults : At(op) /\ main' = [main EXCEPT !.todo = Cleanup(op, Here), !.rc = 1]
  BY Zenon DEF Fails
<1>2. shard' = shard /\ fl' = fl /\ fd' = fd
  BY DEF Fails
<1> DEFINE C == Cleanup(op, Here)
<1> DEFINE n == IF op = "listen" THEN Here - 1 ELSE N
<1>3. /\ T \in Seq(Instr) /\ Ordered(T) /\ Listens(T) /\ shard \in [Shards -> ShardRecord]
      /\ \A s \in Shards : shard[s] \in ShardRecord /\ ShardOK(Logging, s, shard[s], T)
      /\ FlusherOK(fl.thread, fd, shard, T) /\ "thread" \in DOMAIN fl /\ fd \in BOOLEAN /\ Logging \in BOOLEAN
  BY <1>1, Known DEF At
<1>4. op \in {"listen", "bound", "open", "ring", "spawn", "start"}
  BY GatewayAssumption
<1>5. T # <<>> /\ T[1] = Head(T) /\ T[1][1] = op /\ T[1] \in Instr /\ 1 \in DOMAIN T
  BY <1>1, <1>3 DEF At
<1>6. T[1] = <<op, Here>>
  BY <1>5 DEF Here, Instr
<1>7. Undoes(C, n)
  BY <1>4, <1>5, <1>6, CleanupIs, Zenon
<1>8. /\ main'.todo = C /\ main'.mode = main.mode /\ Logging' = Logging
      /\ main' = [todo |-> main'.todo, rc |-> main'.rc, stall |-> main'.stall, mode |-> main'.mode]
  BY <1>1, Zenon DEF IInv, TypeOK, Logging
<1>9. op = "listen" => Here \in Shards
  BY <1>5, <1>6 DEF Instr, MainOps
<1>10. \A s \in Shards : shard[s].loop \/ shard[s].ring \/ shard[s].spawned => s \in 1..n
  <2> TAKE s \in Shards
  <2>1. CASE op # "listen"
    BY <2>1 DEF Shards
  <2>2. CASE op = "listen"
    <3>1. In(<<"listen", Here>>, T) /\ Here \in Shards
      BY <1>5, <1>6, <1>9, <2>2 DEF In
    <3>2. ~shard[s].ring /\ ~shard[s].spawned
      BY <1>3, <3>1, Zenon DEF ShardOK
    <3>3. shard[s].loop => ~In(<<"listen", s>>, T)
      BY <1>3, Zenon DEF ShardOK
    <3>4. s > T[1][2] <=> \E j \in DOMAIN T : j > 1 /\ T[j] = <<"listen", s>>
      BY <1>3, <1>5, <2>2, Zenon DEF Listens
    <3>5. s > Here => In(<<"listen", s>>, T)
      BY <3>4, <1>6 DEF In
    <3>6. shard[s].loop => ~(s > Here) /\ s # Here
      BY <3>1, <3>3, <3>5
    <3>7. s \in Int /\ Here \in Int /\ s >= 1 /\ n = Here - 1
      BY <3>1, <2>2, GatewayAssumption DEF Shards
    <3>8. shard[s].loop => s \in 1..(Here - 1)
      BY <3>6, <3>7
    <3> QED BY <2>2, <3>2, <3>8
  <2> QED BY <2>1, <2>2
<1> HIDE DEF C, n
<1>11. /\ C \in Seq(Instr) /\ \A k \in DOMAIN C : C[k][1] \in {"stop", "join", "release", "close"}
       /\ \A s \in Shards : First(<<"join", s>>, <<"release", s>>, C)
       /\ \A s \in 1..n : In(<<"join", s>>, C) /\ In(<<"release", s>>, C)
  BY <1>7 DEF Undoes
<1>12. \A k \in DOMAIN C : Stage(C[k][1]) = 7
  BY <1>11, StageIs
<1>13. \A o \in {"listen", "ring", "spawn", "start"} : \A j : ~In(<<o, j>>, C)
  BY <1>11 DEF In
<1>14. Ordered(C) /\ Listens(C)
  <2>1. \A k \in DOMAIN C : C[k][1] # "listen" /\ C[k][1] # "start"
    BY <1>11
  <2> QED BY <1>12, <2>1 DEF Ordered, Listens
<1>15. \A s \in Shards : ShardOK(Logging, s, shard[s], C)
  <2> TAKE s \in Shards
  <2>1. shard[s].loop \/ shard[s].ring => In(<<"release", s>>, C)
    BY <1>10, <1>11, Zenon
  <2>2. shard[s].spawned => In(<<"join", s>>, C) /\ First(<<"join", s>>, <<"release", s>>, C)
    BY <1>10, <1>11
  <2>3. shard[s].thread = "run" => shard[s].spawned /\ shard[s].loop /\ (Logging => shard[s].ring)
    BY <1>3, Zenon DEF ShardOK
  <2> QED BY <1>13, <2>1, <2>2, <2>3 DEF ShardOK
<1>16. FlusherOK(fl.thread, fd, shard, C)
  <2>1. Stage(T[1][1]) # 7
    BY <1>4, <1>5, StageIs, SMTT(30)
  <2>2. fl.thread # "run"
    BY <1>3, <1>5, <2>1 DEF FlusherOK
  <2> QED BY <1>13, <2>2, FlusherIdle
<1>17. TypeOK'
  BY <1>2, <1>3, <1>8, <1>11 DEF TypeOK
<1> QED BY <1>2, <1>8, <1>14, <1>15, <1>16, <1>17 DEF IInv

\* run_shards begins with nothing acquired and the whole program ahead.
LEMMA InitOK == ASSUME Init PROVE IInv
<1>1. PICK m \in LogModes : main = [todo |-> Program(m # "none"), rc |-> 0, stall |-> 0, mode |-> m]
  BY DEF Init
<1> DEFINE l == m # "none"
<1>2. main.todo = Program(l) /\ Logging = l /\ l \in BOOLEAN
  BY <1>1 DEF Logging
<1>3. /\ main = [todo |-> main.todo, rc |-> main.rc, stall |-> main.stall, mode |-> main.mode]
  BY <1>1
<1> HIDE DEF l
<1>4. /\ Program(l) \in Seq(Instr) /\ Ordered(Program(l)) /\ Listens(Program(l))
      /\ \A s \in Shards :
           /\ In(<<"listen", s>>, Program(l)) /\ In(<<"release", s>>, Program(l))
           /\ In(<<"join", s>>, Program(l))
           /\ First(<<"join", s>>, <<"release", s>>, Program(l))
           /\ l => In(<<"ring", s>>, Program(l)) /\ First(<<"fljoin", 0>>, <<"release", s>>, Program(l))
      /\ l => /\ In(<<"open", 0>>, Program(l)) /\ In(<<"fljoin", 0>>, Program(l))
              /\ First(<<"fljoin", 0>>, <<"close", 0>>, Program(l))
      /\ ~l => ~In(<<"start", 0>>, Program(l))
  BY <1>2, ProgramIs
<1>5. \A s \in Shards : /\ shard[s] \in ShardRecord /\ shard[s].loop = FALSE /\ shard[s].ring = FALSE
                        /\ shard[s].spawned = FALSE /\ shard[s].thread = "none"
  BY DEF Init, ShardRecord
<1>6. shard \in [Shards -> ShardRecord]
  BY <1>5 DEF Init
<1>7. fl.thread = "none" /\ "thread" \in DOMAIN fl /\ fd \in BOOLEAN
  BY Zenon DEF Init, NoFlusher
<1>8. \A s \in Shards : ShardOK(l, s, shard[s], Program(l))
  <2> TAKE s \in Shards
  <2> DEFINE P == Program(l)
  <2>1. /\ In(<<"listen", s>>, P) /\ In(<<"release", s>>, P) /\ In(<<"join", s>>, P)
        /\ First(<<"join", s>>, <<"release", s>>, P) /\ (l => In(<<"ring", s>>, P))
    BY <1>4, SMTT(30)
  <2> HIDE DEF P
  <2>2. ShardOK(l, s, shard[s], P)
    BY <1>5, <2>1 DEF ShardOK
  <2> QED BY <2>2 DEF P
<1>9. FlusherOK(fl.thread, fd, shard, Program(l))
  BY <1>4, <1>7, Zenon DEF FlusherOK
<1>10. TypeOK
  BY <1>2, <1>3, <1>4, <1>6, <1>7 DEF TypeOK
<1> QED BY <1>2, <1>4, <1>8, <1>9, <1>10 DEF IInv

\* A shard thread that leaves its loop uses less.
LEMMA ShardExitsOK == ASSUME IInv, NEW s \in Shards, ShardExits(s) PROVE IInv'
<1>1. main' = main /\ fl' = fl /\ fd' = fd
      /\ shard' = [shard EXCEPT ![s] = [@ EXCEPT !.thread = "gone", !.running = FALSE]]
  BY DEF ShardExits
<1>2. shard \in [Shards -> ShardRecord]
  BY DEF IInv, TypeOK
<1>3. /\ shard' \in [Shards -> ShardRecord]
      /\ \A q \in Shards : /\ shard'[q].loop = shard[q].loop /\ shard'[q].ring = shard[q].ring
                           /\ shard'[q].spawned = shard[q].spawned
                           /\ shard'[q].thread = "run" => shard[q].thread = "run"
  BY <1>1, <1>2, ZenonT(60) DEF ShardRecord
<1>4. Logging' = Logging
  BY <1>1 DEF Logging
<1>5. \A q \in Shards : ShardOK(Logging, q, shard'[q], main.todo)
  <2> TAKE q \in Shards
  <2>1. ShardOK(Logging, q, shard[q], main.todo)
    BY SMTT(30) DEF IInv
  <2> QED BY <2>1, <1>3 DEF ShardOK
<1>6. FlusherOK(fl.thread, fd, shard', main.todo)
  <2>1. FlusherOK(fl.thread, fd, shard, main.todo)
    BY DEF IInv
  <2> QED BY <2>1, <1>3 DEF FlusherOK
<1>7. TypeOK'
  BY <1>1, <1>3 DEF TypeOK, IInv
<1> QED BY <1>1, <1>4, <1>5, <1>6, <1>7 DEF IInv

\* The flusher only reads, writes and ends: it changes nothing it depends on.
LEMMA FlusherStepOK == ASSUME IInv, FlusherStep PROVE IInv'
<1>0. "thread" \in DOMAIN fl
  BY DEF IInv, TypeOK
<1>1. /\ main' = main /\ shard' = shard /\ fd' = fd
      /\ "thread" \in DOMAIN fl' /\ fl'.thread \in {fl.thread, "gone"}
  <2>1. CASE FlusherWhile BY <1>0, <2>1 DEF FlusherWhile
  <2>2. CASE FlusherPops
    <3>1. \E x, y, z : \/ fl' = [fl EXCEPT !.pc = "flush", !.entry = x, !.data = y, !.stall = 0]
                       \/ fl' = [fl EXCEPT !.batch = z]
      BY <2>2, Zenon DEF FlusherPops
    <3> QED BY <1>0, <2>2, <3>1 DEF FlusherPops
  <2>3. CASE FlusherFindsNone BY <1>0, <2>3 DEF FlusherFindsNone
  <2>4. CASE FlusherRest BY <1>0, <2>4 DEF FlusherRest
  <2>5. CASE FlusherWrites
    <3>1. \E x, y : \/ fl' = [fl EXCEPT !.stall = x, !.data = y]
                    \/ fl' = [fl EXCEPT !.stall = x]
                    \/ fl' = [fl EXCEPT !.pc = "return", !.data = <<>>, !.stall = 0]
      BY <2>5, ZenonT(60) DEF FlusherWrites
    <3> QED BY <1>0, <2>5, <3>1, Zenon DEF FlusherWrites
  <2>6. CASE FlusherFlushed BY <1>0, <2>6 DEF FlusherFlushed
  <2>7. CASE FlusherReturns BY <1>0, <2>7 DEF FlusherReturns
  <2> QED BY <2>1, <2>2, <2>3, <2>4, <2>5, <2>6, <2>7 DEF FlusherStep
<1>2. Logging' = Logging
  BY <1>1 DEF Logging
<1>3. FlusherOK(fl'.thread, fd, shard, main.todo)
  <2>1. FlusherOK(fl.thread, fd, shard, main.todo)
    BY DEF IInv
  <2> QED BY <1>1, <2>1 DEF FlusherOK
<1>4. TypeOK'
  BY <1>1 DEF TypeOK, IInv
<1> QED BY <1>1, <1>2, <1>3, <1>4 DEF IInv

\* The other steps change nothing the invariant is about.
LEMMA Unmoved == ASSUME IInv, UNCHANGED <<main, shard, fl, fd>> PROVE IInv'
BY DEF IInv, TypeOK, Logging

\* Every step preserves the invariant.
LEMMA NextOK == ASSUME IInv, [Next]_vars PROVE IInv'
<1>1. CASE Fails BY <1>1, FailsOK
<1>2. CASE MainListen BY <1>2, MainListenOK, SMTT(30)
<1>3. CASE MainBound BY <1>3, MainBoundOK
<1>4. CASE MainOpen BY <1>4, MainOpenOK
<1>5. CASE MainRing BY <1>5, MainRingOK
<1>6. CASE MainSpawn BY <1>6, MainSpawnOK
<1>7. CASE MainStart BY <1>7, MainStartOK
<1>8. CASE MainSigwait BY <1>8, MainSigwaitOK
<1>9. CASE MainDrain BY <1>9, MainDrainOK
<1>10. CASE MainStop BY <1>10, MainStopOK
<1>11. CASE MainJoin BY <1>11, MainJoinOK
<1>12. CASE MainRelease BY <1>12, MainReleaseOK
<1>13. CASE MainFlusherStop BY <1>13, MainFlusherStopOK
<1>14. CASE MainFlusherJoin BY <1>14, MainFlusherJoinOK
<1>15. CASE MainEndFrame BY <1>15, MainEndFrameOK
<1>16. CASE MainClose BY <1>16, MainCloseOK
<1>17. ASSUME NEW s \in Shards, ShardLogs(s) PROVE IInv'
  BY <1>17, Unmoved DEF ShardLogs
<1>18. ASSUME NEW s \in Shards, ShardExits(s) PROVE IInv'
  BY <1>18, ShardExitsOK
<1>19. CASE FlusherStep BY <1>19, FlusherStepOK
<1>20. CASE SinkChanges BY <1>20, Unmoved DEF SinkChanges
<1>21. CASE Done \/ UNCHANGED vars BY <1>21, Unmoved DEF Done, vars
<1> QED
  BY <1>1, <1>2, <1>3, <1>4, <1>5, <1>6, <1>7, <1>8, <1>9, <1>10, <1>11, <1>12, <1>13, <1>14,
     <1>15, <1>16, <1>17, <1>18, <1>19, <1>20, <1>21, SMTT(30) DEF Next, MainStep

\* For every number of shards, in every log mode and whichever steps fail: a shard thread
\* runs on a mapped loop and pushes into a mapped ring, and the flusher pops from mapped
\* rings and writes to an open file.
THEOREM UsesWhatExistsHolds == Spec => []UsesWhatExists
<1>1. Init => IInv
  BY InitOK
<1>2. IInv /\ [Next]_vars => IInv'
  BY NextOK
<1>3. IInv => UsesWhatExists
  BY Zenon DEF IInv, ShardOK, FlusherOK, UsesWhatExists
<1> QED BY <1>1, <1>2, <1>3, PTL DEF Spec

\* For every number of shards, in every log mode and whichever steps fail: when run_shards
\* returns no thread is left and every loop and ring is released.
THEOREM LeavesNothingHolds == Spec => []LeavesNothing
<1>1. Init => IInv
  BY InitOK
<1>2. IInv /\ [Next]_vars => IInv'
  BY NextOK
<1>3. IInv => LeavesNothing
  <2> SUFFICES ASSUME IInv, main.todo = <<>>
               PROVE  /\ fl.thread # "run"
                      /\ \A s \in Shards : /\ ~shard[s].loop /\ ~shard[s].ring /\ ~shard[s].spawned
                                           /\ shard[s].thread # "run"
    BY DEF LeavesNothing
  <2>1. \A x : ~In(x, main.todo)
    BY SMTT(30) DEF In
  <2>2. \A s \in Shards : ShardOK(Logging, s, shard[s], main.todo)
    BY SMTT(30) DEF IInv
  <2>3. FlusherOK(fl.thread, fd, shard, main.todo)
    BY DEF IInv
  <2> QED BY <2>1, <2>2, <2>3, Zenon DEF ShardOK, FlusherOK
<1> QED BY <1>1, <1>2, <1>3, PTL DEF Spec
=============================================================================
