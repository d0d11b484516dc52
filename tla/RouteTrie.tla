----------------------------- MODULE RouteTrie -----------------------------
(***************************************************************************)
(* The segment trie.  A node has the segment that leads to it (a view of a *)
(* route's path), its children and its terminals by method; node 1 is the  *)
(* root and 0 stands for kInvalidNodeIdx.                                  *)
(***************************************************************************)
EXTENDS RoutePath, TLC

CONSTANTS MaxNodes, MaxChildren

TrieNode(v) == [segment |-> v, children |-> <<>>, term |-> <<>>]

EmptyTrie == << TrieNode([r |-> 0, lo |-> 1, hi |-> 0]) >>

find_child(trie, routes, parent, seg) ==
    LET kids == trie[parent].children
        hit  == SelectInSeq(kids, LAMBDA c : Text(routes, trie[c].segment) = seg)
    IN  IF hit = 0 THEN 0 ELSE kids[hit]

\* Mutant: what the failed insert made so far stays.
TrieRollbackNothing(trie, pushed, saved) == trie

\* The rollback of insert: every parent that got a child loses its last one,
\* and the nodes beyond the saved length are dropped.
TrieRollback(trie, pushed, saved) ==
    [n \in 1 .. saved |-> IF Contains(pushed, n) THEN [trie[n] EXCEPT !.children = Front(@)]
                          ELSE trie[n]]

\* The loop of insert over the segments: go to the child, or make it if there is
\* room.  acc is the trie, the current node and the parents that got a child.
RECURSIVE InsertSegments(_, _, _, _)
InsertSegments(acc, routes, segs, saved) ==
    IF segs = <<>> THEN acc
    ELSE LET child == find_child(acc.trie, routes, acc.cur, Text(routes, Head(segs)))
             new   == Len(acc.trie) + 1
         IN  IF child # 0
             THEN InsertSegments([acc EXCEPT !.cur = child], routes, Tail(segs), saved)
             ELSE IF Len(acc.trie) >= MaxNodes \/ Len(acc.trie[acc.cur].children) >= MaxChildren
             THEN [acc EXCEPT !.ok = FALSE, !.trie = TrieRollback(@, acc.pushed, saved)]
             ELSE InsertSegments(
                    [acc EXCEPT !.trie = Append([@ EXCEPT ![acc.cur].children = Append(@, new)],
                                                TrieNode(Head(segs))),
                                !.pushed = Append(@, acc.cur), !.cur = new],
                    routes, Tail(segs), saved)

\* The first route of a (path, method) pair keeps the slot.
SetTerminal(term, m, idx) == IF m \in DOMAIN term THEN term ELSE (m :> idx) @@ term

TrieInsert(trie, routes, idx) ==
    LET path == routes[idx].path
        b    == SegmentBounds(path)
        segs == [k \in DOMAIN b |-> [r |-> idx, lo |-> b[k][1], hi |-> b[k][2]]]
        acc  == InsertSegments([ok |-> TRUE, trie |-> trie, cur |-> 1, pushed |-> <<>>],
                               routes, segs, Len(trie))
    IN  IF ~HasSlot(routes[idx].method) \/ Len(segs) > MaxPathSegments
        THEN [ok |-> FALSE, trie |-> trie]
        ELSE IF ~acc.ok THEN [ok |-> FALSE, trie |-> acc.trie]
        ELSE [ok |-> TRUE,
              trie |-> [acc.trie EXCEPT ![acc.cur].term =
                            SetTerminal(@, routes[idx].method, idx)]]

----------------------------------------------------------------------------
(* match_key: a depth-first walk that keeps the best terminal met so far. *)

Frame(node) == [node |-> node, depth |-> 0, statics |-> 0, mask |-> <<>>, params |-> <<>>]

NoCandidate == [idx |-> 0, specific |-> FALSE, frame |-> Frame(0)]

\* static_mask as numbers: bit 63 - depth of the segments matched literally.
\* Masks of equal depth compare at the first segment on which they differ.
MaskGreater(a, b) ==
    \E k \in DOMAIN a : a[k] /\ ~b[k] /\ SubSeq(a, 1, k - 1) = SubSeq(b, 1, k - 1)

consider(best, term, m, f) ==
    LET idx      == PickTerminal(term, m)
        specific == m # "any" /\ m \in DOMAIN term
        b        == best.frame
    IN  IF idx = 0 THEN best
        ELSE IF \/ best.idx = 0
                \/ f.depth > b.depth
                \/ f.depth = b.depth /\ f.statics > b.statics
                \/ f.depth = b.depth /\ f.statics = b.statics /\ MaskGreater(f.mask, b.mask)
                \/ f.depth = b.depth /\ f.statics = b.statics /\ f.mask = b.mask
                    /\ specific /\ ~best.specific
        THEN [idx |-> idx, specific |-> specific, frame |-> f]
        ELSE best

\* A frame for a child that is a parameter, and for the literal child.
ParamFrame(f, trie, routes, c, seg) ==
    [f EXCEPT !.node = c, !.depth = @ + 1, !.mask = Append(@, FALSE),
              !.params = IF Len(@) < MaxRouteParams
                         THEN Append(@, <<Tail(Text(routes, trie[c].segment)), seg>>) ELSE @]

LiteralFrame(f, c) ==
    [f EXCEPT !.node = c, !.depth = @ + 1, !.statics = @ + 1, !.mask = Append(@, TRUE)]

RECURSIVE TrieWalk(_, _, _, _, _, _)
TrieWalk(trie, routes, segs, m, stack, best) ==
    IF stack = <<>> THEN best
    ELSE LET f      == Last(stack)
             kids   == trie[f.node].children
             seg    == segs[f.depth + 1]
             params == SelectSeq(kids, LAMBDA c : is_param_segment(Text(routes, trie[c].segment)))
             lit    == find_child(trie, routes, f.node, seg)
             next   == IF f.depth >= Len(segs) THEN <<>>
                       ELSE [k \in DOMAIN params |->
                                ParamFrame(f, trie, routes, Reverse(params)[k], seg)]
                            \o IF lit = 0 \/ is_param_segment(seg) THEN <<>>
                               ELSE <<LiteralFrame(f, lit)>>
         IN  TrieWalk(trie, routes, segs, m, Front(stack) \o next,
                      consider(best, trie[f.node].term, m, f))

\* A request deeper than the table walks as far as its first segments go.
TrieMatch(trie, routes, canon, m) ==
    LET all  == Segments(canon)
        segs == SubSeq(all, 1, Min({Len(all), MaxPathSegments}))
        best == TrieWalk(trie, routes, segs, m, <<Frame(1)>>, NoCandidate)
    IN  IF m \notin MethodKeys THEN [idx |-> 0, params |-> <<>>]
        ELSE [idx |-> best.idx, params |-> best.frame.params]
=============================================================================
