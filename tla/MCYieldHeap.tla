---------------------------- MODULE MCYieldHeap ----------------------------
(***************************************************************************)
(* The operations of YieldHeap in any order, beside the set of entries     *)
(* they should leave.  A connection has at most one entry, as in the loop; *)
(* the heap compares connections for equality only, so a new entry is of   *)
(* some connection that has none.                                          *)
(***************************************************************************)
EXTENDS YieldHeap

CONSTANTS Deadlines, HeapSize

ASSUME HeapAssumption == Deadlines \subseteq Nat /\ HeapSize \in Nat

VARIABLES heap, entries

HeapInit == heap = <<>> /\ entries = {}

HeapConns == 1 .. HeapSize

HeapPush(d) ==
    LET free == HeapConns \ { x.conn : x \in entries }
        e == [deadline |-> d, gen |-> 0, conn |-> CHOOSE c \in free : TRUE]
    IN  /\ Len(heap) < HeapSize /\ free # {}
        /\ heap' = Push(heap, e)
        /\ entries' = entries \cup {e}

HeapPop ==
    /\ heap # <<>>
    /\ heap' = Pop(heap)
    /\ entries' = entries \ {heap[1]}

HeapRemove(c) ==
    /\ \E x \in entries : x.conn = c
    /\ heap' = RemoveByConn(heap, c)
    /\ entries' = { x \in entries : x.conn # c }

HeapNext ==
    \/ \E d \in Deadlines : HeapPush(d)
    \/ HeapPop
    \/ \E c \in HeapConns : HeapRemove(c)

HeapSpec == HeapInit /\ [][HeapNext]_<<heap, entries>>

\* push, pop and remove_by_conn keep the array a heap (every parent is due no
\* later than its children, so top() is the next deadline) of exactly the entries
\* put in and not taken out: none is lost, duplicated or resurrected.
HeapOfEntries ==
    /\ \A i \in 2 .. Len(heap) : heap[i \div 2].deadline <= heap[i].deadline
    /\ ToSet(heap) = entries
    /\ \A i, j \in DOMAIN heap : heap[i] = heap[j] => i = j
=============================================================================
