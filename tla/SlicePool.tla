----------------------------- MODULE SlicePool -----------------------------
(***************************************************************************)
(* The pool of 16 KB buffer slices of a shard (slice_pool.h) and the       *)
(* connections of the epoll loop that borrow from it: two slices when a    *)
(* connection is accepted, a third when it begins to proxy, all of them    *)
(* given back when it is closed.                                           *)
(*                                                                         *)
(* A stack is an array and a top, as in the code; what lies above the top  *)
(* is never read, and is 0 here.  Committing more of the reserved memory   *)
(* (mprotect) may fail at any time.                                        *)
(***************************************************************************)
EXTENDS Integers

CONSTANTS
    MaxConns,  \* kMaxConns
    GrowStep   \* kGrowStep: slices committed at a time

ASSUME PoolAssumption == MaxConns \in Nat \ {0} /\ GrowStep \in Nat \ {0}

Conns == 0 .. MaxConns - 1
MaxCount == 3 * MaxConns
Slices == 0 .. MaxCount - 1
Null == -1

VARIABLES
    pool,     \* [stack, top, used, count]: free_stack, free_top, in_use_map, count
    idle,     \* [stack, top]: the loop's own free_stack, of connections
    slices,   \* the slices of each connection: recv, send, upstream
    refused   \* history: alloc() has returned null although mprotect did not fail

pool_vars == <<pool, idle, slices, refused>>

NoSlices == [recv |-> Null, send |-> Null, upstream |-> Null]

Held(c) == { slices[c].recv, slices[c].send, slices[c].upstream } \ {Null}

----------------------------------------------------------------------------
(* Operations of the pool. *)

Smaller(a, b) == IF a < b THEN a ELSE b

\* grow(), when mprotect succeeds.
Grown(p) ==
    LET step == Smaller(GrowStep, MaxCount - p.count)
    IN  [stack |-> [k \in Slices |-> IF k \in p.top .. p.top + step - 1
                                      THEN p.count + (k - p.top) ELSE p.stack[k]],
         top |-> p.top + step, used |-> p.used, count |-> p.count + step]

Taken(p) ==
    LET s == p.stack[p.top - 1]
    IN  [slice |-> s,
         pool |-> [stack |-> [p.stack EXCEPT ![p.top - 1] = 0], top |-> p.top - 1,
                   used |-> [p.used EXCEPT ![s] = TRUE], count |-> p.count]]

\* The outcomes of alloc().
Allocs(p) ==
    IF p.top > 0 THEN {Taken(p)}
    ELSE {[slice |-> Null, pool |-> p]} \cup IF p.count < MaxCount THEN {Taken(Grown(p))} ELSE {}

\* alloc() fails although memory could be committed.
Exhausted(p) == p.top = 0 /\ p.count >= MaxCount

\* free(): a pointer that is null, outside the committed slices or free already is
\* ignored.
free(p, s) ==
    IF s < 0 \/ s >= p.count \/ p.top >= MaxCount THEN p
    ELSE IF ~p.used[s] THEN p
    ELSE [stack |-> [p.stack EXCEPT ![p.top] = s], top |-> p.top + 1,
          used |-> [p.used EXCEPT ![s] = FALSE], count |-> p.count]

----------------------------------------------------------------------------
(* The event loop. *)

\* init(): some steps of slices may be committed in advance; all connections idle.
PoolInit ==
    /\ \E steps \in 0 .. MaxCount :
        LET n == Smaller(steps * GrowStep, MaxCount)
        IN  pool = [stack |-> [k \in Slices |-> IF k < n THEN k ELSE 0], top |-> n,
                    used |-> [s \in Slices |-> FALSE], count |-> n]
    /\ idle = [stack |-> [k \in Conns |-> k], top |-> MaxConns]
    /\ slices = [c \in Conns |-> NoSlices]
    /\ refused = FALSE

\* Mutant: when the second slice is missing the first is kept.
AllocConn_Leaks ==
    /\ idle.top > 0
    /\ \E rs \in Allocs(pool) : \E ss \in Allocs(rs.pool) :
        /\ refused' = (refused \/ (rs.slice = Null /\ Exhausted(pool))
                               \/ (ss.slice = Null /\ Exhausted(rs.pool)))
        /\ IF rs.slice = Null \/ ss.slice = Null
           THEN pool' = ss.pool /\ UNCHANGED <<idle, slices>>
           ELSE /\ pool' = ss.pool
                /\ idle' = [stack |-> [idle.stack EXCEPT ![idle.top - 1] = 0], top |-> idle.top - 1]
                /\ slices' = [slices EXCEPT ![idle.stack[idle.top - 1]] =
                                  [recv |-> rs.slice, send |-> ss.slice, upstream |-> Null]]

\* alloc_conn_impl
AllocConn ==
    /\ idle.top > 0
    /\ \E rs \in Allocs(pool) : \E ss \in Allocs(rs.pool) :
        /\ refused' = (refused \/ (rs.slice = Null /\ Exhausted(pool))
                               \/ (ss.slice = Null /\ Exhausted(rs.pool)))
        /\ IF rs.slice = Null \/ ss.slice = Null
           THEN pool' = free(free(ss.pool, rs.slice), ss.slice) /\ UNCHANGED <<idle, slices>>
           ELSE /\ pool' = ss.pool
                /\ idle' = [stack |-> [idle.stack EXCEPT ![idle.top - 1] = 0], top |-> idle.top - 1]
                /\ slices' = [slices EXCEPT ![idle.stack[idle.top - 1]] =
                                  [recv |-> rs.slice, send |-> ss.slice, upstream |-> Null]]

\* Mutant: the slice it already has is not looked at.
AllocUpstreamBuf_Again(c) ==
    /\ slices[c].recv # Null
    /\ \E s \in Allocs(pool) :
        /\ refused' = (refused \/ (s.slice = Null /\ Exhausted(pool)))
        /\ pool' = s.pool
        /\ slices' = [slices EXCEPT ![c].upstream = s.slice]
    /\ UNCHANGED idle

\* alloc_upstream_buf of an open connection
AllocUpstreamBuf(c) ==
    /\ slices[c].recv # Null /\ slices[c].upstream = Null
    /\ \E s \in Allocs(pool) :
        /\ refused' = (refused \/ (s.slice = Null /\ Exhausted(pool)))
        /\ pool' = s.pool
        /\ slices' = [slices EXCEPT ![c].upstream = s.slice]
    /\ UNCHANGED idle

\* free_conn_impl of an open connection
FreeConn(c) ==
    /\ slices[c].recv # Null
    /\ pool' = free(free(free(pool, slices[c].recv), slices[c].send), slices[c].upstream)
    /\ idle' = [stack |-> [idle.stack EXCEPT ![idle.top] = c], top |-> idle.top + 1]
    /\ slices' = [slices EXCEPT ![c] = NoSlices]
    /\ UNCHANGED refused

PoolNext ==
    \/ AllocConn
    \/ \E c \in Conns : AllocUpstreamBuf(c) \/ FreeConn(c)

PoolSpec == PoolInit /\ [][PoolNext]_pool_vars

----------------------------------------------------------------------------
OnStack(p) == { p.stack[k] : k \in 0 .. p.top - 1 }

\* A slice is lent to one connection, for one purpose, at a time, and none is lost:
\* every committed slice is either on the free stack, once, or with the one
\* connection that holds it, whatever failed half way (the second slice of a new
\* connection, a commit of memory).
LentOnce ==
    /\ \A c, d \in Conns : c # d => Held(c) \cap Held(d) = {}
    /\ \A c \in Conns : slices[c].recv # Null =>
            /\ slices[c].send # Null
            /\ slices[c].recv # slices[c].send
            /\ slices[c].upstream \notin {slices[c].recv, slices[c].send}
    /\ OnStack(pool) \cap UNION { Held(c) : c \in Conns } = {}
    /\ OnStack(pool) \cup UNION { Held(c) : c \in Conns } = 0 .. pool.count - 1
    /\ \A j, k \in 0 .. pool.top - 1 : pool.stack[j] = pool.stack[k] => j = k

\* With three slices per connection the pool is never the reason to refuse one:
\* alloc() returns null only when the kernel refuses to commit memory.
NeverStarved == ~refused
=============================================================================
