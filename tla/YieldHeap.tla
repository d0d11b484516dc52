----------------------------- MODULE YieldHeap -----------------------------
(***************************************************************************)
(* The binary min-heap of handler deadlines (epoll_yield::YieldHeap in     *)
(* epoll_event_loop.h), as operators on the array of its entries.          *)
(* Positions are 1-based: the parent of i is i \div 2.                     *)
(*                                                                         *)
(* A loop of the code is the sequence of the states <<array, position>> of *)
(* its turns; the last state repeats once the loop has ended, and every    *)
(* loop ends within as many turns as the array has entries.                *)
(***************************************************************************)
EXTENDS Naturals, Sequences

\* As in SequencesExt, of which the proofs about the heap need no more.
Front(h) == SubSeq(h, 1, Len(h) - 1)
Last(h) == h[Len(h)]
ToSet(h) == { h[i] : i \in DOMAIN h }

Swap(h, i, j) == [h EXCEPT ![i] = h[j], ![j] = h[i]]

\* One turn of sift_up's loop.
UpTurn(s) ==
    LET h == s[1]
        i == s[2]
    IN  IF i > 1 /\ h[i].deadline < h[i \div 2].deadline
        THEN <<Swap(h, i, i \div 2), i \div 2>> ELSE s

SiftUp(h, i) ==
    LET turn[n \in 0 .. Len(h)] ==
            IF n = 0 THEN <<h, i>> ELSE UpTurn(turn[n - 1])
    IN  turn[Len(h)][1]

\* One turn of sift_down's loop.
Smallest(h, i) ==
    LET l == 2 * i
        r == 2 * i + 1
        m == IF l <= Len(h) /\ h[l].deadline < h[i].deadline THEN l ELSE i
    IN  IF r <= Len(h) /\ h[r].deadline < h[m].deadline THEN r ELSE m
DownTurn(s) ==
    LET h == s[1]
        i == s[2]
        smallest == Smallest(h, i)
    IN  IF smallest = i THEN s ELSE <<Swap(h, i, smallest), smallest>>

SiftDown(h, i) ==
    LET turn[n \in 0 .. Len(h)] ==
            IF n = 0 THEN <<h, i>> ELSE DownTurn(turn[n - 1])
    IN  turn[Len(h)][1]

Push(h, e) == SiftUp(Append(h, e), Len(h) + 1)

Pop(h) == IF Len(h) = 1 THEN <<>>
          ELSE SiftDown([Front(h) EXCEPT ![1] = Last(h)], 1)

\* Mutant: the moved entry is only sifted down.
DropAt_DownOnly(h, i) ==
    IF i = Len(h) THEN Front(h) ELSE SiftDown([Front(h) EXCEPT ![i] = Last(h)], i)

\* entries[i] = entries[--size], then sift the entry moved there.
DropAt(h, i) ==
    IF i = Len(h) THEN Front(h)
    ELSE SiftDown(SiftUp([Front(h) EXCEPT ![i] = Last(h)], i), i)

\* One turn of remove_by_conn's loop.
ScanTurn(s, c) ==
    LET h == s[1]
        i == s[2]
    IN  IF i > Len(h) THEN s
        ELSE IF h[i].conn # c THEN <<h, i + 1>>
        ELSE <<DropAt(h, i), i>>

RemoveByConn(h, c) ==
    LET turn[n \in 0 .. Len(h)] ==
            IF n = 0 THEN <<h, 1>> ELSE ScanTurn(turn[n - 1], c)
    IN  turn[Len(h)][1]

=============================================================================
