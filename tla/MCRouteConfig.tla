--------------------------- MODULE MCRouteConfig ---------------------------
(***************************************************************************)
(* Builders and requests for RouteConfig.  The bytes of a path are spelled *)
(* out; n, m and y stand for bytes of no meaning.                          *)
(***************************************************************************)
EXTENDS RouteConfig

MCFanOut == <<2, 3, 4>>
MCPoolCaps == <<14, 2, 2, 2>>
MCReserved == {<<"c">>}

Static(p, m) == [path |-> p, method |-> m, action |-> "Static", target |-> 200, needs_body |-> FALSE]

ByHand(offers, calls, requests, methods) ==
    [bound |-> <<>>, mod |-> <<>>, offers |-> offers, calls |-> calls, requests |-> requests,
     methods |-> methods]

\* Nested, overlapping and parametrised paths; a path may be refused by its shape
\* or because the trie has no room for it.
NestedPaths ==
    {<<"/">>,
     <<"/", "n">>,
     <<"/", "n", "m">>,
     <<"/", "n", "/", "m">>,
     <<"/", "/", "n", "/">>,
     <<"/", ":", "p">>,
     <<"/", ":", "q", "/", "m">>,
     <<"/", "n", "/", ":", "p">>}

NestedRequests ==
    {<<"/">>,
     <<"/", "n">>,
     <<"/", "n", "m">>,
     <<"/", "n", "y">>,
     <<"/", "n", "/", "m">>,
     <<"/", "m", "/", "m">>,
     <<"/", "n", "/", "m", "/", "y">>,
     <<"/", "n", "/", "/", "m">>,
     <<"/", "m", "?", "n">>,
     <<"/", "/", "n", "/">>}

Nested ==
    ByHand({ Static(p, m) : p \in NestedPaths, m \in {"any", "G"} }, 3, NestedRequests,
           {"GET", "POST"})

\* Routes that the table must refuse, among some that it takes.
Refusals ==
    ByHand({ Static(<<"/">>, "any"), Static(<<"n">>, "any"), Static(<<"/", "n">>, "x"), Static(<<"/", "n", "?", "m">>, "any"),
             Static(<<"/", "n", "m", "n", "m", "n", "m", "n", "m">>, "any"), Static(<<"/", ":", "p", "/", ":", "p", "/", ":", "p">>, "any"), Static(<<"/", "n">>, "T"),
             [Static(<<"/", "m">>, "any") EXCEPT !.action = "Proxy", !.target = 1],
             [Static(<<"/", "m">>, "any") EXCEPT !.action = "JitHandler", !.target = 0] }, 3,
           {<<"/">>, <<"n">>, <<"/", "n">>, <<"/", "m">>}, {"any", "TRACE", "x"})

\* Children under one node, and edges cut above it until the pools are empty.
WidePaths ==
    {<<"/", "n", "n", "n", "n">>,
     <<"/", "n", "n", "n", "m">>,
     <<"/", "n", "n", "n", "y">>,
     <<"/", "n", "n", "n", "x">>,
     <<"/", "n", "m">>,
     <<"/", "n", "n", "m">>}

WideRequests ==
    WidePaths \cup
    {<<"/", "n">>,
     <<"/", "n", "n", "n">>,
     <<"/", "n", "n", "n", "z">>,
     <<"/", "n", "n", "n", "n", "m">>,
     <<"/", "n", "n", "q">>,
     <<"/", "y">>}

Wide == ByHand({ Static(p, "any") : p \in WidePaths }, 6, WideRequests, {"GET"})

----------------------------------------------------------------------------
Fn(p, m) == [path |-> p, method |-> m, found |-> TRUE, ops |-> <<>>]

Names == {<<"u">>, <<"v">>, <<"u", "v", "w">>, <<"u", "v", "y">>}

Compiled(bound, mod) ==
    [bound |-> bound, mod |-> <<mod>>, offers |-> {}, calls |-> 0, requests |-> NestedRequests,
     methods |-> {"GET", "POST"}]

Module(funcs, ups, bodies, sets, keys, values) ==
    [funcs |-> funcs, upstreams |-> ups, bodies |-> bodies, sets |-> sets, keys |-> keys,
     values |-> values]

Up(n, a) == [name |-> n, has_address |-> a]

\* Tables of routes, in the order of the source.
Tables ==
    { Compiled(<<>>, Module(<<[Fn(p, "GET") EXCEPT !.found = f], [Fn(q, "any") EXCEPT !.ops = <<"ReqBody">>]>>,
                            <<>>, <<>>, <<>>, <<>>, <<>>)) :
        p \in NestedPaths, q \in NestedPaths, f \in BOOLEAN }

\* Five children, the first two edges cut after i and after j of them.
Cut(i, j) ==
    LET leaf(b) == Fn(<<"/", "n", "n", "n", b>>, "any")
        leaves  == <<leaf("n"), leaf("m"), leaf("y"), leaf("x"), leaf("z")>>
        one     == InsertAt(leaves, i, Fn(<<"/", "n", "m">>, "any"))
    IN  InsertAt(one, j, Fn(<<"/", "n", "n", "m">>, "any"))

WideTables ==
    { [Compiled(<<>>, Module(Cut(i, j), <<>>, <<>>, <<>>, <<>>, <<>>))
            EXCEPT !.requests = WideRequests] : i \in 1 .. 6, j \in 1 .. 7 }

\* Upstreams with and without an address, bound by the caller or not.
Upstreams ==
    { Compiled(bound, Module(<<>>, <<Up(n1, a), Up(n2, TRUE)>>, <<>>, <<>>, <<>>, <<>>)) :
        bound \in {<<>>} \cup (Names \X Names) \cup { <<n>> : n \in Names },
        n1 \in Names, n2 \in Names, a \in BOOLEAN }

\* Bodies and header sets, some too long, malformed or given twice.
Texts == {<<"n">>, <<"m", "y">>, <<"n", "m", "y">>}
HeaderNames == {<<"x">>, <<"X">>, <<"n", "m">>, <<"c">>, <<"sp">>, <<>>}
HeaderValues == {<<>>, <<"n">>, <<"nl">>}

Contents ==
    { Compiled(<<>>, Module(<<>>, <<>>, <<b1, b2>>, <<[offset |-> 0, count |-> 1], [offset |-> 1, count |-> n]>>,
                            <<<<"m">>, k1, k2>>, <<<<"n">>, v, <<"y">>>>)) :
        b1 \in Texts, b2 \in Texts, n \in 1 .. 3, k1 \in HeaderNames, k2 \in HeaderNames,
        v \in HeaderValues }

MCScenarios == {Nested, Refusals, Wide} \cup Tables \cup WideTables \cup Upstreams \cup Contents
=============================================================================
