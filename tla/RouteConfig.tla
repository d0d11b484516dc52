---------------------------- MODULE RouteConfig ----------------------------
(***************************************************************************)
(* A route configuration as its builders make it: by hand, one add_* call  *)
(* after another, or from a compiled module (populate_route_config,        *)
(* register_jit_routes).  Once built it is immutable and only matched.     *)
(* A scenario says which calls the builder makes and which requests come.  *)
(***************************************************************************)
EXTENDS RouteTrie, ArtTrie

CONSTANTS
    MaxRoutes, MaxUpstreams, MaxNameLen, MaxBodies, BodyPoolBytes,
    MaxHeaderSets, MaxHeaderEntries, MaxHeadersPerSet, HeaderPoolBytes,
    ReservedNames,      \* header names the runtime sets itself
    Scenarios

VARIABLES cfg, phase, todo, sc

vars == <<cfg, phase, todo, sc>>

EmptyConfig ==
    [routes |-> <<>>, route_count |-> 0, kind |-> "ArtJit", trie |-> EmptyTrie, art |-> EmptyArt,
     jit |-> <<>>, upstreams |-> <<>>, bodies |-> <<>>, body_pool |-> <<>>,
     keys |-> <<>>, values |-> <<>>, sets |-> <<>>, header_bytes |-> <<>>]

----------------------------------------------------------------------------
(* RouteConfig's member functions, on the record. *)

use_art(c) == IF c.route_count > 0 THEN c ELSE [c EXCEPT !.kind = "ArtJit"]

use_segment_trie(c) == IF c.route_count > 0 THEN c ELSE [c EXCEPT !.kind = "SegmentTrie"]

\* ART cannot interpret parameters.
dispatch_accepts_path_shape(c, path) ==
    ~path_has_param_segment(path) \/ c.kind = "SegmentTrie"

\* The entry is written behind the last route before the table is asked; it
\* stays there when the table refuses.
populate_dispatch_state(c, idx) ==
    IF c.kind = "ArtJit"
    THEN LET r == ArtInsert(c.art, c.routes, idx) IN [ok |-> r.ok, cfg |-> [c EXCEPT !.art = r.art]]
    ELSE LET r == TrieInsert(c.trie, c.routes, idx) IN [ok |-> r.ok, cfg |-> [c EXCEPT !.trie = r.trie]]

\* add_proxy, add_static and add_jit_handler; target is the upstream, the status
\* or the handler (0 for none).
add_route(c, e) ==
    LET key   == route_method_key_from_legacy_char(e.method)
        idx   == c.route_count + 1
        wrote == [c EXCEPT !.routes = Append(SubSeq(@, 1, c.route_count),
                                             [e EXCEPT !.method = key])]
        p     == populate_dispatch_state(wrote, idx)
    IN  IF \/ c.route_count >= MaxRoutes
           \/ e.action = "Proxy" /\ e.target > Len(c.upstreams)
           \/ e.action = "JitHandler" /\ e.target = 0
           \/ ~is_routable_path(e.path)
           \/ ~dispatch_accepts_path_shape(c, e.path)
           \/ ~param_count_fits(e.path)
           \/ ~HasSlot(e.method)
        THEN [ok |-> FALSE, cfg |-> c]
        ELSE [p EXCEPT !.cfg.route_count = IF p.ok THEN idx ELSE @]

set_name(n) == SubSeq(n, 1, Min({Len(n), MaxNameLen - 1}))

add_upstream(c, name) ==
    IF Len(c.upstreams) >= MaxUpstreams THEN [idx |-> 0, cfg |-> c]
    ELSE [idx |-> Len(c.upstreams) + 1,
          cfg |-> [c EXCEPT !.upstreams = Append(@, set_name(name))]]

\* Bodies and header texts are copied to pools; the tables hold slices of them.
Slice(pool, s) == SubSeq(pool, s.off + 1, s.off + s.len)

add_response_body(c, body) ==
    IF Len(c.bodies) >= MaxBodies \/ Len(body) > BodyPoolBytes - Len(c.body_pool)
    THEN [idx |-> 0, cfg |-> c]
    ELSE [idx |-> Len(c.bodies) + 1,
          cfg |-> [c EXCEPT !.bodies = Append(@, [off |-> Len(c.body_pool), len |-> Len(body)]),
                            !.body_pool = @ \o body]]

Lower(name) == [i \in DOMAIN name |-> IF name[i] = "X" THEN "x" ELSE name[i]]

http_header_name_eq_ci(a, b) == Lower(a) = Lower(b)

\* Of the bytes used here "sp" is no tchar and "nl" is a control character.
validate_response_header(key, value) ==
    /\ key # <<>> /\ ~Contains(key, "sp") /\ ~Contains(key, "nl")
    /\ \A r \in ReservedNames : ~http_header_name_eq_ci(key, r)
    /\ ~Contains(value, "nl")

AddPair(c, pair) ==
    LET at == Len(c.header_bytes)
    IN  [c EXCEPT !.header_bytes = @ \o pair[1] \o pair[2],
                  !.keys = Append(@, [off |-> at, len |-> Len(pair[1])]),
                  !.values = Append(@, [off |-> at + Len(pair[1]), len |-> Len(pair[2])])]

add_response_header_set(c, pairs) ==
    LET total == FoldLeft(LAMBDA n, p : n + Len(p[1]) + Len(p[2]), 0, pairs)
        ref   == [offset |-> Len(c.keys), count |-> Len(pairs)]
    IN  IF \/ pairs = <<>>
           \/ Len(c.sets) >= MaxHeaderSets \/ Len(pairs) > MaxHeadersPerSet
           \/ Len(pairs) > MaxHeaderEntries - Len(c.keys)
           \/ \E i \in DOMAIN pairs : ~validate_response_header(pairs[i][1], pairs[i][2])
           \/ \E i, j \in DOMAIN pairs : j < i /\ http_header_name_eq_ci(pairs[i][1], pairs[j][1])
           \/ total > HeaderPoolBytes - Len(c.header_bytes)
        THEN [idx |-> 0, cfg |-> c]
        ELSE [idx |-> Len(c.sets) + 1,
              cfg |-> [FoldLeft(AddPair, c, pairs) EXCEPT !.sets = Append(@, ref)]]

match_canonical(c, canon, key) ==
    LET m   == IF c.kind = "SegmentTrie" THEN TrieMatch(c.trie, c.routes, canon, key)
               ELSE [idx |-> IF c.jit # <<>> THEN RunJit(c.jit[1], canon, key)
                             ELSE ArtMatch(c.art, c.routes, canon, key),
                     params |-> <<>>]
    IN  IF m.idx > c.route_count THEN [m EXCEPT !.idx = 0] ELSE m

\* A target that does not begin with "/" matches nothing, not even the root route.
match(c, raw, m) ==
    IF raw = <<>> \/ raw[1] # "/" THEN [idx |-> 0, params |-> <<>>]
    ELSE match_canonical(c, canonicalize_request(raw), route_method_key_from_legacy_char(m))

----------------------------------------------------------------------------
(* compile_to_config.h: a compiled module into a configuration.  A module  *)
(* has functions (route pattern, method, whether the engine finds the      *)
(* symbol, the opcodes), upstreams, bodies and header sets.                *)

rir_function_needs_req_body(fn) == Contains(fn.ops, "ReqBody")

configure_route_dispatch(c, mod) ==
    IF needs_segment_aware([i \in DOMAIN mod.funcs |-> mod.funcs[i].path])
    THEN use_segment_trie(c) ELSE use_art(c)

\* The routes are added in order up to the first that is refused.
RECURSIVE RegisterFrom(_, _)
RegisterFrom(acc, funcs) ==
    IF ~acc.ok \/ funcs = <<>> THEN acc
    ELSE LET fn == Head(funcs)
             e  == [path |-> fn.path, method |-> fn.method, action |-> "JitHandler",
                    target |-> IF fn.found THEN 1 ELSE 0,
                    needs_body |-> rir_function_needs_req_body(fn)]
         IN  RegisterFrom(add_route(acc.cfg, e), Tail(funcs))

register_jit_routes(c, mod) ==
    IF c.route_count # 0 \/ Len(mod.funcs) > MaxRoutes THEN [ok |-> FALSE, cfg |-> c]
    ELSE RegisterFrom([ok |-> TRUE, cfg |-> configure_route_dispatch(c, mod)], mod.funcs)

\* Each table is filled in the module's order; the index that comes back must be
\* the one the compiler has put into the handlers.
Numbered(acc, i, r) == [ok |-> acc.ok /\ r.idx = i, cfg |-> IF acc.ok THEN r.cfg ELSE acc.cfg]

AddUpstreams(acc, ups) ==
    FoldLeftDomain(LAMBDA a, i : Numbered(a, i, add_upstream(a.cfg, ups[i].name)), acc, ups)

AddBodies(acc, bodies) ==
    FoldLeftDomain(LAMBDA a, i : Numbered(a, i, add_response_body(a.cfg, bodies[i])), acc, bodies)

PairsOf(mod, s) == [j \in 1 .. s.count |-> <<mod.keys[s.offset + j], mod.values[s.offset + j]>>]

AddSets(acc, mod) ==
    FoldLeftDomain(LAMBDA a, i : Numbered(a, i, add_response_header_set(a.cfg, PairsOf(mod, mod.sets[i]))),
                   acc, mod.sets)

\* Mutant: the names are compared after both have been cut.
PreBoundMatchesCut(c, ups) ==
    /\ Len(c.upstreams) = Len(ups)
    /\ \A i \in DOMAIN ups : c.upstreams[i] = set_name(ups[i].name)

\* Upstreams the caller has bound must be the module's, in its order, and their
\* names must not have been cut to fit.
PreBoundMatches(c, ups) ==
    /\ Len(c.upstreams) = Len(ups)
    /\ \A i \in DOMAIN ups : Len(ups[i].name) < MaxNameLen /\ c.upstreams[i] = ups[i].name

populate_route_config(c, mod) ==
    LET start == [ok |-> TRUE, cfg |-> c]
        refused == [ok |-> FALSE, cfg |-> c]
        Rest(acc) == AddSets(AddBodies(acc, mod.bodies), mod)
    IN  IF \/ c.route_count # 0 \/ c.bodies # <<>> \/ c.sets # <<>>
           \/ Len(c.upstreams) \notin {0, Len(mod.upstreams)}
           \/ \E i \in DOMAIN mod.sets :
                \/ mod.sets[i].offset + mod.sets[i].count > Len(mod.keys)
                \/ mod.sets[i].count > MaxHeadersPerSet
        THEN refused
        ELSE IF c.upstreams = <<>>
        THEN IF \E i \in DOMAIN mod.upstreams : ~mod.upstreams[i].has_address THEN refused
             ELSE Rest(AddUpstreams(start, mod.upstreams))
        ELSE IF ~PreBoundMatches(c, mod.upstreams) THEN refused ELSE Rest(start)

----------------------------------------------------------------------------
(* The builders. *)

BindAll(c, names) == FoldLeft(LAMBDA x, n : add_upstream(x, n).cfg, c, names)

Init ==
    /\ sc \in Scenarios
    /\ cfg = BindAll(EmptyConfig, sc.bound)
    /\ todo = sc.offers
    /\ phase = IF sc.mod = <<>> THEN "by hand" ELSE "compiled"

UseArt ==
    /\ phase = "by hand" /\ cfg.route_count = 0
    /\ cfg' = use_art(cfg)
    /\ UNCHANGED <<phase, todo, sc>>

UseSegmentTrie ==
    /\ phase = "by hand" /\ cfg.route_count = 0
    /\ cfg' = use_segment_trie(cfg)
    /\ UNCHANGED <<phase, todo, sc>>

\* The builder carries on after a refusal.
AddRoute(e) ==
    /\ phase = "by hand" /\ Cardinality(sc.offers \ todo) < sc.calls
    /\ cfg' = add_route(cfg, e).cfg
    /\ todo' = todo \ {e}
    /\ UNCHANGED <<phase, sc>>

Populate ==
    LET r == populate_route_config(cfg, sc.mod[1])
    IN  /\ phase = "compiled"
        /\ cfg' = r.cfg
        /\ phase' = IF r.ok THEN "populated" ELSE "discarded"
        /\ UNCHANGED <<todo, sc>>

Register ==
    LET r == register_jit_routes(cfg, sc.mod[1])
    IN  /\ phase = "populated"
        /\ cfg' = r.cfg
        /\ phase' = IF r.ok THEN "built" ELSE "discarded"
        /\ UNCHANGED <<todo, sc>>

\* art_jit_specialize and install_art_jit_fn, after the last route.
InstallJit ==
    /\ phase \in {"by hand", "built"} /\ cfg.kind = "ArtJit"
    /\ cfg' = [cfg EXCEPT !.jit = <<emit_node(cfg.art, cfg.routes, cfg.art.root)>>]
    /\ phase' = "installed"
    /\ UNCHANGED <<todo, sc>>

Next ==
    \/ UseArt \/ UseSegmentTrie
    \/ \E e \in todo : AddRoute(e)
    \/ Populate \/ Register \/ InstallJit

Spec == Init /\ [][Next]_vars

----------------------------------------------------------------------------
(* What a lookup should return, from the list of routes alone. *)

Accepted == 1 .. cfg.route_count

\* A method that has no key matches no route, not even one for any method.
Compatible(i, m) == m \in MethodKeys /\ cfg.routes[i].method \in {"any", m}

CanonOf(i) == finalize_path_canonical(cfg.routes[i].path)

SegsOf(i) == Segments(cfg.routes[i].path)

\* Byte prefixes: the longest path wins, then the route with a method of its own,
\* then the first.
ByBytes(canon, m) ==
    LET cand == { i \in Accepted : Compatible(i, m) /\ IsPrefix(CanonOf(i), canon) }
        Rank(i) == <<Len(CanonOf(i)), IF cfg.routes[i].method = m THEN 1 ELSE 0, MaxRoutes - i>>
        Above(a, b) == \E k \in 1 .. 3 : a[k] > b[k] /\ \A j \in 1 .. (k - 1) : a[j] = b[j]
    IN  { i \in cand : \A j \in cand \ {i} : Above(Rank(i), Rank(j)) }

Fits(segs, i) ==
    /\ Len(SegsOf(i)) <= Len(segs)
    /\ \A k \in DOMAIN SegsOf(i) : is_param_segment(SegsOf(i)[k]) \/ SegsOf(i)[k] = segs[k]

\* Segments: the deepest route wins, then the one with more literal segments, then
\* the one whose literals come first, then the one with a method of its own; of
\* routes with the same segments and method, the first.  Between routes that
\* differ only in the names of parameters either may win.
Statics(i) == { k \in DOMAIN SegsOf(i) : ~is_param_segment(SegsOf(i)[k]) }

LiteralEarlier(i, j) ==
    \E k \in Statics(i) \ Statics(j) : \A l \in 1 .. (k - 1) : (l \in Statics(i)) <=> (l \in Statics(j))

Beats(i, j, m) ==
    \/ Len(SegsOf(i)) > Len(SegsOf(j))
    \/ /\ Len(SegsOf(i)) = Len(SegsOf(j))
       /\ \/ Cardinality(Statics(i)) > Cardinality(Statics(j))
          \/ /\ Cardinality(Statics(i)) = Cardinality(Statics(j))
             /\ \/ LiteralEarlier(i, j)
                \/ /\ Statics(i) = Statics(j)
                   /\ \/ cfg.routes[i].method = m /\ cfg.routes[j].method # m
                      \/ cfg.routes[i].method = cfg.routes[j].method /\ SegsOf(i) = SegsOf(j) /\ i < j

BySegments(canon, m) ==
    LET cand == { i \in Accepted : Compatible(i, m) /\ Fits(Segments(canon), i) }
    IN  { i \in cand : \A j \in cand : ~Beats(j, i, m) }

ParamsOf(i, canon) ==
    LET segs == SegsOf(i)
        Pair(k) == IF is_param_segment(segs[k]) THEN << <<Tail(segs[k]), Segments(canon)[k]>> >>
                   ELSE <<>>
    IN  FoldLeftDomain(LAMBDA ps, k : ps \o Pair(k), <<>>, segs)

Expected(raw, m) ==
    IF raw[1] # "/" THEN {}
    ELSE IF cfg.kind = "ArtJit" THEN ByBytes(canonicalize_request(raw), m)
    ELSE BySegments(canonicalize_request(raw), m)

\* Whatever was added and refused before, every request gets the route that the
\* list of accepted routes calls for, with the values of that route's parameters:
\* after splits of edges, growth of nodes and rollbacks, from the trie, from the
\* radix tree and from the code compiled from it.
MatchesReference ==
    \A raw \in sc.requests, m \in sc.methods :
        LET r == match(cfg, raw, m)
            e == Expected(raw, m)
        IN  IF e = {} THEN r.idx = 0
            ELSE /\ r.idx \in e
                 /\ cfg.kind = "SegmentTrie" =>
                        r.params = ParamsOf(r.idx, canonicalize_request(raw))

Refs == UNION { { <<t, i>> : i \in DOMAIN cfg.art.pool[t] } : t \in 1 .. 4 }

Reachable ==
    LET More(S) == S \cup UNION { Range(Node(cfg.art, r).kids) : r \in S }
        step[n \in 0 .. Cardinality(Refs)] == IF n = 0 THEN {cfg.art.root} ELSE More(step[n - 1])
    IN  step[Cardinality(Refs)]

\* A refused add leaves nothing: the trie has a node for each beginning of an
\* accepted route and no other, the radix tree no node without a terminal or two
\* children, and every view is of an accepted route's path (the buffer behind the
\* last route is overwritten by the next add).  Node4s, of which an add takes two at
\* most and the first one, do not run out before the routes do (kMaxN4 is twice
\* kMaxRoutes).
HoldsJustTheRoutes ==
    /\ cfg.kind = "SegmentTrie" =>
        /\ Len(cfg.trie) = Cardinality({<<>>} \cup UNION { Prefixes(SegsOf(i)) : i \in Accepted })
        /\ \A n \in DOMAIN cfg.trie : cfg.trie[n].segment.r <= cfg.route_count
    /\ \A r \in Reachable :
        /\ Node(cfg.art, r).edge.r <= cfg.route_count
        /\ r # cfg.art.root =>
            Node(cfg.art, r).term # <<>> \/ Cardinality(DOMAIN Node(cfg.art, r).kids) >= 2
    /\ Len(cfg.art.pool[1]) <= Max({1, 2 * cfg.route_count})

\* After populate_route_config the indices that the compiler has put into the
\* handlers mean what the source said: body and header set i are the module's,
\* byte for byte, and forward(i) goes to an upstream of that name, up to the length
\* that a name keeps, or to one the caller has bound under exactly that name.
IndicesResolve ==
    phase \in {"populated", "built"} =>
        LET mod == sc.mod[1]
        IN  /\ Len(cfg.upstreams) = Len(mod.upstreams)
            /\ \A i \in DOMAIN mod.upstreams :
                    IF sc.bound = <<>> THEN IsPrefix(cfg.upstreams[i], mod.upstreams[i].name)
                    ELSE cfg.upstreams[i] = mod.upstreams[i].name
            /\ \A i \in DOMAIN mod.bodies : Slice(cfg.body_pool, cfg.bodies[i]) = mod.bodies[i]
            /\ \A i \in DOMAIN mod.sets :
                    PairsOf(mod, mod.sets[i]) =
                        [j \in 1 .. cfg.sets[i].count |->
                            <<Slice(cfg.header_bytes, cfg.keys[cfg.sets[i].offset + j]),
                              Slice(cfg.header_bytes, cfg.values[cfg.sets[i].offset + j])>>]
=============================================================================
