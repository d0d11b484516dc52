----------------------------- MODULE SimRoutes ------------------------------
(***************************************************************************)
(* Which route the offline simulator takes for a captured request, beside  *)
(* the configuration that register_jit_routes builds from the same module. *)
(* The simulator has no table: it scans the patterns of the module.        *)
(***************************************************************************)
EXTENDS MCRouteConfig

\* Modules of two routes; the paths of routes and requests are canonical but for the first "/".
PlainTables ==
    { [t EXCEPT !.requests = {<<"/">>, <<"/", "n">>, <<"/", "n", "m">>, <<"/", "n", "/", "m">>}] :
        t \in { u \in Tables : \A f \in Range(u.mod[1].funcs) : f.path[Len(f.path)] # "/" } }

visible_path(p) == SubSeq(p, 1, Min({Len(p) + 1} \cup { i \in DOMAIN p : p[i] \in {"?", "#"} }) - 1)

\* The length of the segment that p has from i on.
RunFrom(p, i) == Min({ j \in i .. Len(p) : p[j] = "/" } \cup {Len(p) + 1}) - i

\* The pattern from ri on against the path from pi on, byte by byte; a parameter takes a
\* segment that is not empty.  What is left of the path does not matter.
RECURSIVE MatchesFrom(_, _, _, _)
MatchesFrom(pattern, path, ri, pi) ==
    IF ri > Len(pattern) THEN TRUE
    ELSE IF ri \in ParamPositions(pattern)
    THEN /\ RunFrom(path, pi) > 0
         /\ MatchesFrom(pattern, path, ri + RunFrom(pattern, ri), pi + RunFrom(path, pi))
    ELSE /\ pi <= Len(path) /\ pattern[ri] = path[pi]
         /\ MatchesFrom(pattern, path, ri + 1, pi + 1)
route_matches(i, path) == MatchesFrom(cfg.routes[i].path, path, 1, 1)

\* More segments, then more literal ones, then the earlier literals, then a method of
\* its own; the first of equals stays.
Ahead(i, best) ==
    LET depth(r) == Len(SegsOf(r))
        literals(r) == Cardinality(Statics(r))
    IN \/ depth(i) > depth(best)
       \/ depth(i) = depth(best) /\ literals(i) > literals(best)
       \/ depth(i) = depth(best) /\ literals(i) = literals(best) /\ LiteralEarlier(i, best)
       \/ /\ depth(i) = depth(best) /\ Statics(i) = Statics(best)
          /\ cfg.routes[i].method # "any" /\ cfg.routes[best].method = "any"
select_route(path, m) ==
    FoldLeft(LAMBDA best, i : IF /\ cfg.routes[i].method \in {"any", m}
                                 /\ route_matches(i, path)
                                 /\ best = 0 \/ Ahead(i, best) THEN i ELSE best,
             0, [i \in Accepted |-> i])

\* The simulator and the runtime agree on which route wins, or that none does, for every
\* request and every module whose routes were all registered.
SimulatorAgrees ==
    phase = "built" =>
        \A raw \in sc.requests, m \in sc.methods :
            select_route(visible_path(raw), m) = match(cfg, raw, m).idx
=============================================================================
