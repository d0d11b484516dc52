------------------------------ MODULE ArtTrie ------------------------------
(***************************************************************************)
(* The adaptive radix tree over bytes and the function that is compiled    *)
(* from it.  A node lives in the pool of its type (1 to 4 for Node4,       *)
(* Node16, Node48 and Node256) and is referred to by <<type, index>>.  Its *)
(* keys and children, however laid out, are one function from bytes.       *)
(***************************************************************************)
EXTENDS RoutePath, TLC

CONSTANTS
    FanOut,     \* children a node of types 1 to 3 can have
    PoolCaps    \* nodes of each type

ASSUME ArtAssumption ==
    /\ FanOut \in Seq(Nat) /\ Len(FanOut) = 3
    /\ 2 <= FanOut[1] /\ FanOut[1] < FanOut[2] /\ FanOut[2] < FanOut[3]
    /\ PoolCaps \in Seq(Nat) /\ Len(PoolCaps) = 4

NoRef == <<0, 0>>

ArtNode(v) == [edge |-> v, term |-> <<>>, kids |-> <<>>]

NoEdge == [r |-> 0, lo |-> 1, hi |-> 0]

EmptyArt == [pool |-> << <<ArtNode(NoEdge)>>, <<>>, <<>>, <<>> >>, root |-> <<1, 1>>,
             uniform |-> TRUE]

Node(art, ref) == art.pool[ref[1]][ref[2]]

\* alloc_n4 to alloc_n256.
alloc(art, type, node) ==
    IF Len(art.pool[type]) >= PoolCaps[type] THEN [art |-> art, ref |-> NoRef]
    ELSE [art |-> [art EXCEPT !.pool[type] = Append(@, node),
                              !.uniform = @ /\ type = 1],
          ref |-> <<type, Len(art.pool[type]) + 1>>]

\* A full node is copied, with the new child, into a node of the next type; its
\* old place in the pool is not used again.
add_child(art, parent, b, child) ==
    LET n == Node(art, parent)
        m == [n EXCEPT !.kids = (b :> child) @@ @]
    IN  IF parent[1] = 4 \/ Cardinality(DOMAIN n.kids) < FanOut[parent[1]]
        THEN [art |-> [art EXCEPT !.pool[parent[1]][parent[2]] = m], ref |-> parent]
        ELSE alloc(art, parent[1] + 1, m)

\* Mutant: the slot that held the smaller node is not rewritten.
PatchNothing(art, site, ref) == art

\* *cur_patch_site = ref: the site is the root (NoRef) or a child of a node.
Patch(art, site, ref) ==
    IF site.node = NoRef THEN [art EXCEPT !.root = ref]
    ELSE [art EXCEPT !.pool[site.node[1]][site.node[2]].kids[site.byte] = ref]

\* A leaf with the rest of the path as its edge.
AddLeaf(art, cur, site, v, b) ==
    LET leaf  == alloc(art, 1, ArtNode(v))
        added == add_child(leaf.art, cur, b, leaf.ref)
    IN  IF leaf.ref = NoRef \/ added.ref = NoRef THEN [art |-> art, ref |-> NoRef]
        ELSE [art |-> IF added.ref = cur THEN added.art ELSE Patch(added.art, site, added.ref),
              ref |-> leaf.ref]

\* The children at the bytes bs go to the node acc.ref, which may have to grow.
RECURSIVE MoveKids(_, _, _)
MoveKids(acc, kids, bs) ==
    LET b == CHOOSE x \in bs : TRUE
    IN  IF bs = {} \/ acc.ref = NoRef THEN acc
        ELSE MoveKids(add_child(acc.art, acc.ref, b, kids[b]), kids, bs \ {b})

\* The edge of child is cut after k bytes: a new node gets the rest of the edge,
\* the terminals and the children; child keeps its place with the new node as its
\* only child.  The order in which children are moved does not matter.
SplitEdge(art, routes, child, k) ==
    LET n     == Node(art, child)
        edge  == Text(routes, n.edge)
        tail0 == alloc(art, 1, [ArtNode([n.edge EXCEPT !.lo = @ + k]) EXCEPT !.term = n.term])
        moved == MoveKids(tail0, n.kids, DOMAIN n.kids)
        cut   == [moved.art EXCEPT !.pool[child[1]][child[2]] =
                    ArtNode([n.edge EXCEPT !.hi = n.edge.lo + k - 1])]
    IN  IF tail0.ref = NoRef \/ moved.ref = NoRef THEN [art |-> art, ref |-> NoRef]
        ELSE add_child(cut, child, edge[k + 1], moved.ref)

CommonLen(s, t) ==
    Max({ k \in 0 .. Min({Len(s), Len(t)}) : SubSeq(s, 1, k) = SubSeq(t, 1, k) })

\* The loop of insert over the view v that is left of the path, with the node cur
\* and the slot that holds it.
RECURSIVE Descend(_, _, _, _, _)
Descend(art, routes, cur, site, v) ==
    LET rest  == Text(routes, v)
        b     == rest[1]
        child == Node(art, cur).kids[b]
        edge  == Text(routes, Node(art, child).edge)
        k     == CommonLen(edge, rest)
        split == SplitEdge(art, routes, child, k)
        after == [v EXCEPT !.lo = @ + k]
    IN  IF rest = <<>> THEN [art |-> art, ref |-> cur]
        ELSE IF b \notin DOMAIN Node(art, cur).kids THEN AddLeaf(art, cur, site, v, b)
        ELSE IF k = Len(edge)
        THEN Descend(art, routes, child, [node |-> cur, byte |-> b], after)
        ELSE IF split.ref = NoRef THEN split
        ELSE Descend(IF split.ref = child THEN split.art ELSE Patch(split.art, site, split.ref),
                     routes, split.ref, site, after)

\* On failure the pools, the root and the flag are restored from the snapshot.
ArtInsert(art, routes, idx) ==
    LET path == routes[idx].path
        b    == CanonBounds(path)
        v    == [r |-> idx, lo |-> b[1], hi |-> b[2]]
        d    == Descend(art, routes, art.root, [node |-> NoRef, byte |-> ""], v)
        m    == routes[idx].method
        Set(term) == IF m \in DOMAIN term THEN term ELSE (m :> idx) @@ term
    IN  IF ~HasSlot(m) \/ d.ref = NoRef THEN [ok |-> FALSE, art |-> art]
        ELSE [ok |-> TRUE,
              art |-> [d.art EXCEPT !.pool[d.ref[1]][d.ref[2]].term = Set(@)]]

----------------------------------------------------------------------------
(* match_canonical_key: descend while whole edges match, keep the last     *)
(* terminal.  While the tree is all Node4 the type of a reference is not   *)
(* looked at.                                                              *)

Read(art, ref) == IF art.uniform THEN art.pool[1][ref[2]] ELSE Node(art, ref)

Better(term, m, best) == IF PickTerminal(term, m) # 0 THEN PickTerminal(term, m) ELSE best

RECURSIVE ArtWalk(_, _, _, _, _, _)
ArtWalk(art, routes, cur, rest, m, best) ==
    LET kids == Read(art, cur).kids
        n    == Read(art, kids[rest[1]])
        edge == Text(routes, n.edge)
    IN  IF rest = <<>> \/ rest[1] \notin DOMAIN kids \/ ~IsPrefix(edge, rest) THEN best
        ELSE ArtWalk(art, routes, kids[rest[1]], SubSeq(rest, Len(edge) + 1, Len(rest)), m,
                     Better(n.term, m, best))

ArtMatch(art, routes, canon, m) ==
    IF m \notin MethodKeys THEN 0
    ELSE ArtWalk(art, routes, art.root, canon, m, PickTerminal(Read(art, art.root).term, m))

----------------------------------------------------------------------------
(* art_jit_specialize: the tree as code.  A block has the constants of its *)
(* node (the bytes of the edge, the terminals) and one block per key.      *)

RECURSIVE emit_node(_, _, _)
emit_node(art, routes, ref) ==
    LET n == Node(art, ref)
    IN  [edge |-> Text(routes, n.edge), term |-> n.term,
         cases |-> [b \in DOMAIN n.kids |-> emit_node(art, routes, n.kids[b])]]

\* What the emitted code does: the switch of the node on the next byte, then the
\* compare of the edge, the terminal pickup and the child's own switch.
RECURSIVE RunBlock(_, _, _, _)
RunBlock(block, rest, m, best) ==
    LET next == block.cases[rest[1]]
    IN  IF rest = <<>> \/ rest[1] \notin DOMAIN block.cases \/ ~IsPrefix(next.edge, rest)
        THEN best
        ELSE RunBlock(next, SubSeq(rest, Len(next.edge) + 1, Len(rest)), m,
                      Better(next.term, m, best))

RunJit(code, canon, m) ==
    IF m \notin MethodKeys THEN 0 ELSE RunBlock(code, canon, m, PickTerminal(code.term, m))
=============================================================================
