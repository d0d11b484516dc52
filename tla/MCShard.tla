------------------------------ MODULE MCShard ------------------------------
(***************************************************************************)
(* What a shard is built of, for TLC: its control block, the rings it      *)
(* shares with the flusher threads, its buffer pool and its body parser.   *)
(* They have no variable in common; each is explored on its own.           *)
(***************************************************************************)
EXTENDS ShardControl, SpscRing, SlicePool, ChunkedParser

VARIABLE part

TwoEntries == {"a", "b"}

shard_vars == <<part, vars, ring_vars, pool_vars, cp_vars>>

ShardInit ==
    /\ part \in {"control", "ring", "pool", "parser"}
    /\ Init /\ RingInit /\ PoolInit /\ ParserInit

ShardNext ==
    /\ UNCHANGED part
    /\ \/ part = "control" /\ Next /\ UNCHANGED <<ring_vars, pool_vars, cp_vars>>
       \/ part = "ring" /\ RingNext /\ UNCHANGED <<vars, pool_vars, cp_vars>>
       \/ part = "pool" /\ PoolNext /\ UNCHANGED <<vars, ring_vars, cp_vars>>
       \/ part = "parser" /\ ParserNext /\ UNCHANGED <<vars, ring_vars, pool_vars>>

\* Of the four only the shard thread is promised to go on.
ShardSpec == ShardInit /\ [][ShardNext]_shard_vars /\ Fairness
=============================================================================
