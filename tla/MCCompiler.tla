----------------------------- MODULE MCCompiler -----------------------------
(***************************************************************************)
(* A family of small programs with every statement and expression form the *)
(* model has, alone and combined where the compiler lays them out          *)
(* together, and requests that take every branch of them.                  *)
(***************************************************************************)
EXTENDS Simulator

Pair == TupleT(<<StrT, I32T>>)
MCStructs == [P |-> <<[name |-> "n", type |-> I32T], [name |-> "s", type |-> StrT]>>,
              E |-> <<[name |-> "err", type |-> Prim("Error")], [name |-> "why", type |-> StrT]>>,
              Q |-> <<[name |-> "v", type |-> VariantT("U")], [name |-> "t", type |-> Pair]>>]
MCVariants == [V |-> <<[name |-> "A", payload |-> I32T], [name |-> "B", payload |-> NoPayload],
                       [name |-> "C", payload |-> StrT]>>,
               W |-> <<[name |-> "gone", payload |-> NoPayload], [name |-> "busy", payload |-> NoPayload]>>,
               U |-> <<[name |-> "T", payload |-> Pair], [name |-> "N", payload |-> NoPayload]>>,
               S |-> <<[name |-> "N", payload |-> NoPayload], [name |-> "S", payload |-> StructT("P")]>>]
MCStructNames == <<"Q", "P", "E">>
MCVariantNames == <<"S", "U", "V", "W">>
MCUpstreams == <<"u", "w">>
MCStrOrder == <<"", "/p", "/q", "a", "b", "n">>

Param(x, t) == [name |-> x, type |-> t]
Fn(params, ret, body) == [params |-> params, ret |-> ret, body |-> body]
X == Req("ReqHeader", "x")
XOr == OrElse(X, StrOf("n"))
Path == Req("ReqPath", "")
At(path) == Equals(Path, StrOf(path))
XIs(s) == Equals(XOr, StrOf(s))
Ret(n) == ReturnStatus(n)
With(n, body, headers) == [Ret(n) EXCEPT !.body = body, !.headers = headers]

\* The functions the programs call.
MCFunctions ==
    [same |-> Fn(<<Param("n", I32T)>>, I32T, Result(Id("n"))),
     first |-> Fn(<<Param("s", StrT), Param("t", StrT)>>, StrT, Result(Id("s"))),
     auth |-> Fn(<<Param("req", I32T)>>, I32T,
                     IfStmt(Equals(XOr, StrOf("a")), Result(IntOf(0)), Result(IntOf(401)))),
     get |-> Fn(<<Param("req", I32T)>>, I32T,
                    IfStmt(Equals(Req("ReqMethod", ""), MethodOf(1)), Result(IntOf(0)), Result(IntOf(405)))),
     code |-> Fn(<<Param("s", StrT)>>, I32T,
                     MatchStmt(Id("s"), <<On(StrOf("a"), Result(IntOf(1))),
                                          OnIf(StrOf("b"), <<Equals(Path, StrOf("/p"))>>, Result(IntOf(2))),
                                          Otherwise(Result(IntOf(3)))>>)),
     find |-> Fn(<<Param("s", StrT)>>, I32T,
                     Block(<<Let("d", IntOf(7)),
                             IfStmt(Equals(Id("s"), StrOf("b")), Result(ErrorOf(CaseOf("", "gone", <<>>), "m")),
                                    IfStmt(Equals(Id("s"), StrOf("a")), Result(Id("d")),
                                           Result(ErrorOf(CaseOf("", "busy", <<>>), "m"))))>>)),
     ask |-> Fn(<<Param("s", StrT)>>, I32T,
                    IfStmt(Equals(Id("s"), StrOf("a")), Result(IntOf(1)), Result(ErrorOf(CaseOf("W", "busy", <<>>), "m")))),
     need |-> Fn(<<Param("s", StrT)>>, I32T,
                     Block(<<GuardLet("n", Call("find", <<Id("s")>>), Result(IntOf(9))),
                             Result(Id("n"))>>)),
     sort |-> Fn(<<Param("s", StrT)>>, I32T,
                     Block(<<GuardMatch("n", Call("find", <<Id("s")>>),
                                        <<On(CaseOf("", "gone", <<>>), Result(IntOf(5))), Otherwise(Result(IntOf(6)))>>),
                             Result(Id("n"))>>)),
     tag |-> Fn(<<Param("s", StrT)>>, VariantT("V"),
                    IfStmt(Equals(Id("s"), StrOf("a")), Result(CaseOf("V", "A", <<IntOf(4)>>)),
                           IfStmt(Equals(Id("s"), StrOf("b")), Result(CaseOf("V", "B", <<>>)),
                                  Result(CaseOf("V", "C", <<Id("s")>>))))),
     fail |-> Fn(<<Param("s", StrT)>>, I32T,
                 IfStmt(Equals(Id("s"), StrOf("a")), Result(IntOf(7)),
                        IfStmt(Equals(Id("s"), StrOf("b")), Result(ErrorOf(CaseOf("", "gone", <<>>), "m")),
                               Result(ErrorOf(CaseOf("", "busy", <<>>), "m"))))),
     both |-> Fn(<<Param("s", StrT)>>, TupleT(<<StrT, StrT>>),
                 IfStmt(Equals(Id("s"), StrOf("a")), Result(TupleLit(<<Id("s"), Path>>)), Result(TupleLit(<<Path, Id("s")>>)))),
     pick |-> Fn(<<Param("s", StrT)>>, StrT,
                 MatchConst(CaseOf("V", "A", <<IntOf(4)>>), <<On(CaseOf("", "B", <<>>), Result(StrOf("/q"))),
                                                             On(CaseOf("", "A", <<Id("k")>>), Result(Id("s")))>>)),
     weigh |-> Fn(<<Param("v", VariantT("V"))>>, I32T,
                      MatchStmt(Id("v"), <<On(CaseOf("", "A", <<Id("k")>>), Result(Id("k"))),
                                           On(CaseOf("", "B", <<>>), Result(IntOf(0))),
                                           On(CaseOf("", "C", <<>>), Result(IntOf(8)))>>))]

\* Requests: without the header, and with it.
Request(x, path, method, keep) ==
    [k \in {<<"ReqHeader", "x">>, <<"ReqPath", "">>, <<"ReqMethod", "">>, <<"ReqKeepAlive", "">>, <<"regex", "">>} |->
        CASE k[1] = "ReqHeader" -> x
          [] k[1] = "ReqPath" -> Text(path)
          [] k[1] = "ReqMethod" -> Num(method)
          [] k[1] = "ReqKeepAlive" -> Truth(keep)
          [] k[1] = "regex" -> {<<"b", "b">>}]
MCRequests == <<Request(Nothing, "/p", 1, TRUE), Request(Text("a"), "/p", 2, FALSE),
                Request(Text("b"), "/p", 1, FALSE), Request(Text("b"), "/q", 1, TRUE)>>
MCResults == {-1, 0, 3}

Over(limit, ss) == [routes |-> <<Route(<<>>, ss)>>, limit |-> limit]
Yes(ss) == Over("none", ss)
No(ss) == Over("language", ss)

\* Guards, branches and values.
Plains == <<
    Yes(<<Ret(204)>>),
    Yes(<<ForwardUpstream("w")>>),
    Yes(<<IfStmt(Equals(Path, StrOf("/p")), Ret(200), ForwardUpstream("u"))>>),
    Yes(<<Let("h", X), GuardElse(Equals(OrElse(Id("h"), StrOf("n")), StrOf("a")), Ret(401)), Ret(200)>>),
    Yes(<<GuardElse(Req("ReqKeepAlive", ""), Ret(400)), GuardElse(Equals(Path, StrOf("/p")), Ret(404)),
          IfStmt(Matches(XOr, "b"), Ret(201), Ret(202))>>),
    Yes(<<Let("n", Call("find", <<XOr>>)), GuardLet("m", Id("n"), Ret(404)),
          IfStmt(Less(Id("m"), IntOf(9)), Ret(200), Ret(500))>>),
    Yes(<<Let("n", Call("find", <<XOr>>)),
          GuardMatch("m", Id("n"), <<On(CaseOf("", "gone", <<>>), Ret(410)), Otherwise(Ret(503))>>),
          IfStmt(Equals(Id("m"), IntOf(7)), Ret(200), Ret(500))>>),
    Yes(<<GuardElse(Equals(XOr, StrOf("a")), Block(<<Let("p", Path), IfStmt(Equals(Id("p"), StrOf("/q")), Ret(404), Ret(403))>>)),
          GuardElse(Req("ReqKeepAlive", ""), Ret(400)), Ret(200)>>),
    Yes(<<Let("t", TupleLit(<<Path, XOr>>)),
          IfStmt(Less(Id("t"), TupleLit(<<StrOf("/p"), StrOf("b")>>)), Ret(200), Ret(201))>>),
    Yes(<<Let("s", StructOf("P", <<"s", "n">>, <<XOr, IntOf(5)>>)),
          IfStmt(Equals(FieldOf(Id("s"), "s"), StrOf("a")), Ret(200), Ret(201))>>),
    Yes(<<Let("s", StructOf("P", <<"n", "s">>, <<IntOf(5), XOr>>)),
          IfStmt(MethodCall("eq", <<Id("s"), StructOf("P", <<"n", "s">>, <<IntOf(5), StrOf("b")>>)>>), Ret(200), Ret(201))>>),
    Yes(<<IfStmt(MethodCall("ge", <<XOr, StrOf("b")>>), Ret(200), Ret(201))>>),
    Yes(<<IfStmt(MethodCall("ne", <<Req("ReqMethod", ""), MethodOf(2)>>), Ret(200), Ret(405))>>),
    Yes(<<Let("n", Pipe(X, Call("code", <<Hole(1)>>))), IfStmt(Equals(OrElse(Id("n"), IntOf(0)), IntOf(2)), Ret(200), Ret(201))>>),
    Yes(<<Let("n", Pipe(TupleLit(<<Path, XOr>>), Call("first", <<Hole(2), Hole(1)>>))),
          IfStmt(Equals(Id("n"), StrOf("a")), Ret(200), Ret(201))>>),
    Yes(<<Let("n", Pipe(Pipe(X, Call("find", <<Hole(1)>>)), Call("same", <<Hole(1)>>))),
          IfStmt(Equals(OrElse(Id("n"), IntOf(0)), IntOf(7)), Ret(200), Ret(201))>>),
    Yes(<<Let("n", Call("need", <<XOr>>)), IfStmt(Equals(Id("n"), IntOf(9)), Ret(404), Ret(200))>>),
    Yes(<<Let("n", Call("sort", <<XOr>>)), IfStmt(Equals(Id("n"), IntOf(5)), Ret(410), Ret(200))>>),
    Yes(<<Let("v", Call("tag", <<XOr>>)), IfStmt(Greater(Call("weigh", <<Id("v")>>), IntOf(4)), Ret(200), Ret(201))>>),
    Yes(<<IfStmt(Equals(OrElse(NilOf, IntOf(3)), IntOf(3)), Ret(200), Ret(201))>>),
    Yes(<<Let("e", ErrorOf(IntOf(42), "m")), IfStmt(Equals(FieldOf(Id("e"), "code"), IntOf(42)), Ret(200), Ret(201))>>) >>

\* Aggregates.
U(case, args) == CaseOf("U", case, args)
P(n, s) == StructOf("P", <<"s", "n">>, <<s, IntOf(n)>>)
Q(v, t) == StructOf("Q", <<"t", "v">>, <<t, v>>)
Pairs(s, n) == TupleLit(<<s, IntOf(n)>>)
Aggregates == <<
    Yes(<<Let("v", Call("tag", <<XOr>>)), IfStmt(Equals(Id("v"), CaseOf("V", "B", <<>>)), Ret(200), Ret(201))>>),
    Yes(<<Let("v", CaseOf("V", "C", <<XOr>>)), IfStmt(Less(Id("v"), CaseOf("V", "C", <<StrOf("b")>>)), Ret(200), Ret(201))>>),
    No(<<Let("e", StructOf("E", <<"err", "why">>, <<ErrorOf(IntOf(42), "m"), XOr>>)), Ret(200)>>),
    Yes(<<Let("u", CaseOf("S", "S", <<P(1, XOr)>>)),
          MatchStmt(Id("u"), <<On(CaseOf("", "N", <<>>), Ret(202)),
                               On(CaseOf("", "S", <<Id("p")>>), IfStmt(Equals(FieldOf(Id("p"), "s"), StrOf("b")), Ret(200), Ret(201)))>>)>>),
    Yes(<<Let("q", Q(U("T", <<Pairs(XOr, 1)>>), Pairs(Path, 2))),
          IfStmt(Equals(Id("q"), Q(U("T", <<Pairs(StrOf("b"), 1)>>), Pairs(StrOf("/p"), 2))), Ret(200), Ret(201))>>),
    Yes(<<Let("u", U("T", <<Pairs(XOr, 1)>>)),
          MatchStmt(Id("u"), <<On(CaseOf("", "T", <<Id("t")>>), IfStmt(Equals(Id("t"), Pairs(StrOf("b"), 1)), Ret(200), Ret(201))),
                               Otherwise(Ret(202))>>)>>),
    Yes(<<Let("t", TupleLit(<<Path, XOr>>)), Let("n", Pipe(Id("t"), Call("first", <<Hole(2), Hole(1)>>))),
          IfStmt(Equals(Id("n"), StrOf("b")), Ret(200), Ret(201))>>),
    Yes(<<Let("n", Pipe(Call("both", <<XOr>>), Call("first", <<Hole(2), Hole(1)>>))),
          IfStmt(Equals(Id("n"), StrOf("b")), Ret(200), Ret(201))>>),
    Yes(<<LetAs("n", I32T, NilOf), IfStmt(Equals(OrElse(Id("n"), IntOf(3)), IntOf(3)), Ret(200), Ret(201))>>),
    Yes(<<IfStmt(Equals(Call("pick", <<XOr>>), StrOf("b")), Ret(200), Ret(201))>>),
    Yes(<<MatchConst(CaseOf("V", "A", <<IntOf(4)>>), <<On(CaseOf("", "A", <<Id("k")>>), IfStmt(Less(Id("k"), IntOf(5)), Ret(200), Ret(201))),
                                                      Otherwise(Ret(202))>>)>>),
    Yes(<<GuardElse(At("/p"), Ret(404)),
          MatchStmt(XOr, <<On(StrOf("a"), MatchConst(CaseOf("V", "A", <<IntOf(4)>>), <<On(CaseOf("", "A", <<Id("k")>>), IfStmt(Less(Id("k"), IntOf(5)), Ret(200), Ret(201))),
                                                                                    Otherwise(Ret(202))>>)), Otherwise(Ret(203))>>)>>),
    Yes(<<Let("e", ErrorOf(CaseOf("", "gone", <<>>), "m")),
          GuardElse(At("/p"), Block(<<Let("p", Path), IfStmt(Equals(Id("p"), StrOf("/q")), Ret(404), Ret(403))>>)),
          MatchStmt(XOr, <<On(StrOf("b"), Block(<<GuardElse(Req("ReqKeepAlive", ""), Ret(400)), Ret(200)>>)), Otherwise(Ret(201))>>)>>),
    Yes(<<Let("e", ErrorOf(CaseOf("", "busy", <<>>), "m")),
          GuardMatch("", Id("e"), <<On(CaseOf("", "gone", <<>>), Ret(410)), On(CaseOf("", "busy", <<>>), Ret(503)), Otherwise(Ret(500))>>), Ret(200)>>) >>

\* Matches.
Matching == <<
    Yes(<<MatchStmt(XOr, <<On(StrOf("a"), Ret(200)), On(StrOf("b"), ForwardUpstream("u")), Otherwise(Ret(404))>>)>>),
    Yes(<<GuardElse(Req("ReqKeepAlive", ""), Ret(400)),
          MatchStmt(XOr, <<OnIf(StrOf("b"), <<Equals(Path, StrOf("/q"))>>, Ret(200)), On(StrOf("b"), Ret(201)),
                           Otherwise(Ret(404))>>)>>),
    Yes(<<Let("v", Call("tag", <<XOr>>)),
          MatchStmt(Id("v"), <<OnIf(CaseOf("", "A", <<Id("k")>>), <<Less(Id("k"), IntOf(9))>>, Ret(200)),
                               On(CaseOf("", "C", <<Id("s")>>), IfStmt(Equals(Id("s"), StrOf("n")), Ret(201), Ret(202))),
                               Otherwise(Ret(203))>>)>>),
    Yes(<<Let("v", Call("tag", <<XOr>>)),
          MatchStmt(Id("v"), <<On(CaseOf("", "A", <<>>), Ret(200)), On(CaseOf("", "B", <<>>), Ret(201)),
                               On(CaseOf("", "C", <<>>), Ret(202))>>)>>),
    Yes(<<MatchStmt(Req("ReqKeepAlive", ""),
                    <<On(BoolOf(TRUE), MatchStmt(XOr, <<On(StrOf("b"), Ret(200)), Otherwise(Ret(201))>>)),
                      On(BoolOf(FALSE), Ret(202))>>)>>),
    Yes(<<Let("v", Call("tag", <<XOr>>)),
          MatchStmt(Path, <<On(StrOf("/p"), Block(<<MatchStmt(Id("v"), <<On(CaseOf("", "A", <<>>), Ret(200)), On(CaseOf("", "B", <<>>), Ret(201)),
                                                                         On(CaseOf("", "C", <<>>), Ret(202))>>)>>)),
                            Otherwise(Ret(404))>>)>>),
    Yes(<<GuardElse(Req("ReqKeepAlive", ""), Ret(400)),
          MatchStmt(XOr, <<On(StrOf("b"), Block(<<Let("p", Path), GuardElse(Equals(Id("p"), StrOf("/p")), Ret(404)), Ret(200)>>)),
                           Otherwise(Block(<<GuardLet("n", Call("find", <<XOr>>), Ret(503)), GuardElse(Equals(Id("n"), IntOf(7)), Ret(500)),
                                             IfStmt(Equals(Path, StrOf("/p")), Ret(201), Ret(202))>>))>>)>>),
    Yes(<<IfStmt(Equals(Path, StrOf("/p")), Block(<<GuardElse(Equals(XOr, StrOf("a")), Ret(401)), Ret(200)>>),
                 IfStmt(Req("ReqKeepAlive", ""), Ret(201), Ret(202)))>>),
    Yes(<<Let("n", Call("ask", <<XOr>>)),
          MatchStmt(Id("n"), <<On(CaseOf("", "busy", <<>>), Ret(503)), Otherwise(Ret(200))>>)>>),
    Yes(<<Let("e", ErrorOf(CaseOf("", "gone", <<>>), "m")),
          MatchStmt(Id("e"), <<On(CaseOf("", "busy", <<>>), Ret(503)), On(CaseOf("", "gone", <<>>), Ret(410)), Otherwise(Ret(200))>>)>>),
    Yes(<<Let("c", IntOf(2)), IfConst(Equals(Id("c"), IntOf(2)), MatchConst(Id("c"), <<On(IntOf(1), Ret(200)), On(IntOf(2), Ret(201)), Otherwise(Ret(202))>>),
                                      Ret(203))>>),
    Yes(<<GuardElse(Equals(Path, StrOf("/p")), Ret(404)),
          MatchStmt(XOr, <<On(StrOf("a"), MatchConst(IntOf(1), <<On(IntOf(1), Ret(200)), Otherwise(Ret(500))>>)), Otherwise(Ret(201))>>)>>),
    No(<<MatchStmt(XOr, <<On(StrOf("a"), Ret(200))>>)>>),
    No(<<MatchStmt(XOr, <<Otherwise(Ret(200)), On(StrOf("a"), Ret(201))>>)>>),
    No(<<MatchStmt(Req("ReqKeepAlive", ""), <<On(BoolOf(TRUE), Ret(200)), On(BoolOf(TRUE), Ret(201)), Otherwise(Ret(202))>>)>>),
    No(<<MatchStmt(XOr, <<On(IntOf(1), Ret(200)), Otherwise(Ret(201))>>)>>) >>

Wait(ops) == WaitStmt(WaitOn(ops))
LetWait(x, op) == Let(x, WaitOn(<<op>>))
LetAny(x, ops) == Let(x, WaitOnAny(ops))
F(x, f) == FieldOf(Id(x), f)

\* Waits: what is checked before and after each, what each came back with.
Waits == <<
    Yes(<<Wait(<<TimerOp(5)>>), Ret(200)>>),
    Yes(<<GuardElse(At("/p"), Ret(404)), Wait(<<TimerOp(5)>>), GuardElse(XIs("b"), Ret(401)), Wait(<<TimerOp(70000)>>), Ret(200)>>),
    Yes(<<LetWait("e", RecvOp), GuardElse(F("e", "ok"), Ret(400)), IfStmt(F("e", "eof"), Ret(204), Ret(200))>>),
    Yes(<<LetWait("e", UpstreamOp("connect", "w")), GuardElse(F("e", "ok"), Ret(502)), LetWait("f", UpstreamOp("send", "w")),
          LetWait("g", UpstreamOp("recv", "w")), IfStmt(F("g", "eof"), Ret(204), Ret(200))>>),
    Yes(<<LetWait("e", UpstreamOp("connect", "u")), LetWait("f", UpstreamOp("recv", "w")), Ret(200)>>),
    Yes(<<LetAny("e", <<RecvOp, TimerOp(9)>>), IfStmt(F("e", "timer"), Ret(504), Ret(200))>>),
    Yes(<<LetAny("e", <<RecvOp>>), IfStmt(F("e", "recv"), Ret(200), Ret(500))>>),
    Yes(<<GuardElse(XIs("b"), Ret(401)), WaitAny(9, Ret(504), ForwardUpstream("u"))>>),
    Yes(<<LetWait("e", TimerOp(1)), LetWait("f", TimerOp(2)), LetWait("g", TimerOp(3)), LetWait("h", RecvOp),
          IfStmt(Less(F("e", "result"), F("h", "result")), Ret(200), Ret(201))>>),
    Yes(<<LetAny("e", <<TimerOp(9), RecvOp>>), GuardElse(At("/p"), Block(<<IfStmt(XIs("b"), Ret(403), Ret(404))>>)),
          MatchStmt(F("e", "kind"), <<OnIf(IntOf(5), <<F("e", "ok")>>, Ret(200)), On(IntOf(3), Ret(504)), Otherwise(Ret(502))>>)>>),
    Yes(<<Let("c", IntOf(3)), LetWait("e", RecvOp), IfStmt(Equals(F("e", "result"), Id("c")), Ret(200), Ret(201))>>),
    No(<<Wait(<<TimerOp(1)>>), Wait(<<TimerOp(1)>>), Wait(<<TimerOp(1)>>), Wait(<<TimerOp(1)>>), Wait(<<TimerOp(1)>>), Ret(200)>>),
    No(<<Wait(<<TimerOp(1)>>), Let("c", IntOf(3)), Ret(200)>>),
    No(<<Wait(<<TimerOp(0)>>), Ret(200)>>),
    No(<<LetWait("e", UpstreamOp("connect", "nowhere")), Ret(200)>>),
    No(<<LetAny("e", <<UpstreamOp("recv", "u"), TimerOp(9)>>), Ret(200)>>),
    No(<<Wait(<<TimerOp(1)>>), For("x", ArrayLit(<<IntOf(1)>>), <<GuardElse(At("/p"), Ret(404))>>), Ret(200)>>) >>

Ab == ArrayLit(<<StrOf("a"), StrOf("b")>>)
Numbers == ArrayLit(<<IntOf(1), IntOf(2), IntOf(3)>>)
NotX(x) == MethodCall("ne", <<XOr, Id(x)>>)

\* Loops, which are unrolled.
Loops == <<
    Yes(<<For("x", Ab, <<GuardElse(NotX("x"), Ret(403))>>), Ret(200)>>),
    Yes(<<GuardElse(At("/p"), Ret(404)),
          For("x", Ab, <<Let("y", Call("first", <<Id("x"), Path>>)), GuardElse(NotX("y"), IfStmt(At("/p"), Ret(403), Ret(404)))>>),
          GuardElse(Req("ReqKeepAlive", ""), Ret(400)), IfStmt(XIs("n"), Ret(200), Ret(201))>>),
    Yes(<<For("x", Ab, <<For("y", ArrayLit(<<StrOf("/p"), StrOf("/q")>>),
                             <<GuardElse(MethodCall("ne", <<TupleLit(<<Id("x"), Id("y")>>), TupleLit(<<XOr, Path>>)>>), Ret(403))>>)>>),
          Ret(200)>>),
    Yes(<<Let("xs", Ab), Let("ys", Id("xs")), For("x", Id("ys"), <<GuardLet("n", Call("find", <<Id("x")>>), Ret(404))>>), Ret(200)>>),
    Yes(<<Let("n", Call("code", <<XOr>>)), For("x", Numbers, <<GuardElse(Less(Id("x"), Id("n")), Ret(403))>>), Ret(200)>>),
    Yes(<<For("x", Numbers, <<IfStmt(At("/p"), Ret(200), ForwardUpstream("u"))>>), Ret(500)>>),
    Yes(<<For("x", ArrayLit(<<IntOf(7)>>), <<GuardElse(At("/p"), Ret(404)), Ret(202)>>), Ret(500)>>),
    Yes(<<For("x", ArrayLit(<<StrOf("b")>>),
              <<MatchStmt(XOr, <<OnIf(StrOf("b"), <<At("/q")>>, Ret(200)),
                                 On(StrOf("a"), Block(<<Let("p", Path), GuardElse(Equals(Id("p"), StrOf("/p")), Ret(404)), Ret(201)>>)),
                                 Otherwise(IfStmt(Equals(XOr, Id("x")), Ret(202), Ret(203)))>>)>>), Ret(500)>>),
    Yes(<<For("x", ArrayLit(<<StrOf("b")>>),
              <<MatchStmt(Req("ReqKeepAlive", ""),
                          <<On(BoolOf(TRUE), MatchStmt(XOr, <<On(StrOf("b"), Ret(200)), Otherwise(Ret(201))>>)), Otherwise(Ret(202))>>)>>),
          Ret(500)>>),
    Yes(<<For("x", Ab, <<GuardElse(NotX("x"), Ret(403))>>), For("x", Numbers, <<GuardElse(Less(Id("x"), IntOf(4)), Ret(500))>>),
          MatchStmt(Path, <<On(StrOf("/q"), Ret(200)), Otherwise(Ret(201))>>)>>),
    Yes(<<For("x", Ab, <<GuardMatch("n", Call("find", <<Id("x")>>), <<On(CaseOf("", "gone", <<>>), Ret(410)), Otherwise(Ret(503))>>)>>), Ret(200)>>),
    Yes(<<Let("e", ErrorOf(CaseOf("", "gone", <<>>), "m")),
          For("x", Ab, <<Let("y", Id("x")), GuardElse(NotX("y"), Ret(403)), MatchStmt(Path, <<On(StrOf("/q"), Ret(200)), Otherwise(Ret(201))>>)>>),
          Ret(500)>>),
    No(<<For("x", Ab, <<>>), Ret(200)>>),
    No(<<For("x", XOr, <<GuardElse(At("/p"), Ret(404))>>), Ret(200)>>),
    No(<<For("x", Ab, <<Ret(200), Ret(201)>>), Ret(200)>>),
    No(<<For("x", Ab, <<GuardElse(NotX("x"), Ret(403))>>), For("y", Ab, <<GuardElse(NotX("y"), Ret(403))>>),
         For("z", Ab, <<GuardElse(NotX("z"), Ret(403))>>), Ret(200)>>),
    No(<<For("x", Ab, <<GuardElse(NotX("x"), Ret(403))>>), GuardElse(Equals(Id("x"), StrOf("a")), Ret(404)), Ret(200)>>),
    No(<<For("x", Ab, <<GuardElse(NotX("x"), Ret(403))>>), Wait(<<TimerOp(1)>>), Ret(200)>>) >>

Under(fs, ss, limit) == [routes |-> <<Route(fs, ss)>>, limit |-> limit]
Two(s1, s2) == [routes |-> <<Route(<<>>, s1), Route(<<>>, s2)>>, limit |-> "none"]

\* Decorators, routes that share the module's tables, and what is missing a part.
Modules == <<
    Under(<<"auth">>, <<Ret(200)>>, "none"),
    Under(<<"auth", "get">>, <<GuardElse(At("/p"), Ret(404)), IfStmt(Req("ReqKeepAlive", ""), Ret(200), Ret(201))>>, "none"),
    Under(<<"get", "auth">>, <<Wait(<<TimerOp(5)>>), Ret(200)>>, "none"),
    Under(<<"get">>, <<Let("h", XOr), For("x", Ab, <<GuardElse(NotX("x"), Ret(403))>>),
                       MatchStmt(Id("h"), <<On(StrOf("n"), Ret(200)), Otherwise(Ret(201))>>)>>, "none"),
    Under(<<"first">>, <<Ret(200)>>, "language"),
    Under(<<"auth">>, <<GuardElse(At("/p"), Ret(404)), Wait(<<TimerOp(5)>>), Ret(200)>>, "language"),
    Two(<<With(200, "one", <<<<"k", "v">>>>)>>,
        <<IfStmt(At("/p"), With(201, "one", <<>>), With(202, "two", <<<<"k", "v">>, <<"l", "v">>>>))>>),
    Two(<<GuardElse(At("/p"), With(404, "two", <<>>)), With(200, "one", <<<<"k", "v">>>>)>>,
        <<MatchStmt(XOr, <<On(StrOf("b"), With(200, "", <<<<"k", "v">>>>)), Otherwise(With(200, "two", <<<<"l", "v">>>>))>>)>>),
    Two(<<LetWait("e", RecvOp), IfStmt(F("e", "ok"), Ret(200), Ret(500))>>, <<GuardElse(XIs("b"), Ret(401)), Wait(<<TimerOp(3)>>), Ret(201)>>),
    Over("blocks", <<For("x", ArrayLit([i \in 1 .. 9 |-> IntOf(i)]), <<GuardElse(Less(Id("x"), IntOf(20)), Ret(500))>>), Ret(200)>>),
    Over("untyped", <<GuardElse(Equals(OrElse(Call("fail", <<XOr>>), IntOf(1)), IntOf(1)), Ret(500)), Ret(200)>>),
    Over("untyped", <<Let("n", Call("fail", <<XOr>>)), GuardLet("m", Id("n"), Ret(404)), Ret(200)>>),
    No(<<GuardElse(At("/p"), Ret(404))>>),
    No(<<Let("h", X)>>),
    No(<<Ret(99)>>),
    No(<<ForwardUpstream("nowhere")>>),
    No(<<Ret(200), Ret(201)>>),
    No(<<IfStmt(Path, Ret(200), Ret(201))>>),
    No(<<IfStmt(Equals(X, StrOf("a")), Ret(200), Ret(201))>>),
    No(<<IfStmt(Equals(Id("who"), StrOf("a")), Ret(200), Ret(201))>>) >>

\* Names bound before a wait: a constant and a part of the request, used before it and
\* behind it, in a guard, a branch and a match.
IsA == Equals(Id("h"), StrOf("a"))
LetAcrossWait == <<
    Yes(<<Let("h", IntOf(3)), Wait(<<TimerOp(5)>>), IfStmt(Equals(Id("h"), IntOf(3)), Ret(200), Ret(201))>>),
    Yes(<<Let("h", XOr), GuardElse(IsA, Ret(401)), Wait(<<TimerOp(5)>>), IfStmt(At("/p"), Ret(200), Ret(201))>>),
    Over("carried", <<Let("h", XOr), Wait(<<TimerOp(5)>>), IfStmt(IsA, Ret(200), Ret(201))>>),
    Over("carried", <<Let("h", XOr), Wait(<<TimerOp(5)>>), GuardElse(IsA, Ret(401)), Wait(<<TimerOp(5)>>), Ret(200)>>),
    Over("carried", <<Let("h", XOr), Let("k", Call("code", <<Id("h")>>)), LetWait("e", RecvOp),
                      MatchStmt(Id("k"), <<On(IntOf(1), Ret(200)), Otherwise(Ret(201))>>)>>) >>

\* Each table of a route full, and over.
Names == <<"a1", "a2", "a3", "a4", "a5", "a6", "a7", "a8", "a9", "b1", "b2", "b3", "b4", "b5", "b6", "b7", "b8">>
Lets(from, n) == [i \in 1 .. n |-> Let(Names[from + i], Path)]
Guards(n) == [i \in 1 .. n |-> GuardElse(At("/p"), Ret(400 + i))]
Body(ss) == Block(ss \o <<IfStmt(At("/q"), Ret(403), Ret(404))>>)
In(ss) == <<For("x", ArrayLit(<<StrOf("b")>>), ss), Ret(200)>>
Arms(n) == [i \in 1 .. n |-> On(StrOf(MCStrOrder[i]), Ret(200 + i))] \o <<Otherwise(Ret(300))>>
LoopArmOf(ss) == In(<<MatchStmt(XOr, <<On(StrOf("b"), Body(ss)), Otherwise(Ret(201))>>)>>)
Nested(n, m) == <<MatchStmt(Path, <<On(StrOf("/p"), MatchStmt(XOr, Arms(n)))>> \o Tail(Tail(Arms(m))))>>
Tables == <<
    Yes(<<GuardElse(XIs("b"), Body(Lets(0, 4))), Ret(200)>>),
    No(<<GuardElse(XIs("b"), Body(Lets(0, 5))), Ret(200)>>),
    Yes(Lets(4, 12) \o <<GuardElse(XIs("b"), Body(Lets(0, 4))), Ret(200)>>),
    No(Lets(4, 13) \o <<GuardElse(XIs("b"), Body(Lets(0, 4))), Ret(200)>>),
    Yes(Guards(7) \o <<Ret(200)>>),
    Over("blocks", Guards(8) \o <<Ret(200)>>),
    No(Guards(9) \o <<Ret(200)>>),
    Yes(<<MatchStmt(XOr, <<On(StrOf("b"), Body(Guards(4))), Otherwise(Ret(201))>>)>>),
    No(<<MatchStmt(XOr, <<On(StrOf("b"), Body(Guards(5))), Otherwise(Ret(201))>>)>>),
    Yes(Nested(1, 4)),
    Over("blocks", Nested(3, 5)),
    No(Nested(4, 5)),
    Yes(In(Lets(0, 4) \o Guards(2))),
    No(In(Lets(0, 5) \o Guards(2))),
    No(In(Lets(0, 4) \o Guards(3))),
    No(In(Lets(0, 4) \o <<GuardLet("n", Call("find", <<XOr>>), Ret(404))>>)),
    Yes(LoopArmOf(Lets(0, 4) \o Guards(2))),
    No(LoopArmOf(Lets(0, 5) \o Guards(2))),
    No(LoopArmOf(Lets(0, 4) \o Guards(3))),
    No(LoopArmOf(Lets(0, 4) \o <<GuardLet("n", Call("find", <<XOr>>), Ret(404))>>)) >>

\* Every two steps before every control, whose blocks are laid out together.
Steps == <<
    GuardElse(At("/p"), Ret(404)),
    GuardElse(XIs("b"), Block(<<Let("p", Path), IfStmt(Equals(Id("p"), StrOf("/q")), Ret(403), Ret(401))>>)),
    GuardMatch("", Call("find", <<XOr>>), <<On(CaseOf("", "gone", <<>>), Ret(410)), Otherwise(Ret(503))>>),
    Wait(<<TimerOp(5)>>),
    For("x", Ab, <<GuardElse(NotX("x"), IfStmt(At("/p"), Ret(402), Ret(405)))>>) >>
Controls == <<
    Ret(200),
    IfStmt(XIs("b"), Ret(200), ForwardUpstream("u")),
    MatchStmt(XOr, <<OnIf(StrOf("b"), <<At("/q")>>, Ret(200)), On(StrOf("b"), Ret(201)), Otherwise(Ret(202))>>),
    MatchStmt(Call("tag", <<XOr>>),
              <<On(CaseOf("", "A", <<Id("k")>>), Block(<<GuardElse(Less(Id("k"), IntOf(4)), Ret(500)), Ret(200)>>)),
                OnIf(CaseOf("", "B", <<>>), <<At("/p")>>, Ret(201)), Otherwise(IfStmt(At("/q"), Ret(202), Ret(203)))>>),
    IfStmt(At("/p"), Block(<<GuardElse(XIs("a"), Ret(500)), Ret(200)>>), IfStmt(XIs("b"), Ret(201), Ret(202))) >>
\* The blocks each takes: a test and what follows when it fails, twice over for the loop; the
\* tests of a match, and for each arm its guards, their failures and its body.
StepBlocks == <<2, 4, 4, 1, 8>>
ControlBlocksOf == <<1, 3, 6, 10, 7>>
\* A loop and a wait do not go together, and a route has so many blocks.
Layout(i, j, k) ==
    LET kinds == {Steps[i].kind, Steps[j].kind}
        blocks == StepBlocks[i] + StepBlocks[j] + ControlBlocksOf[k]
    IN [routes |-> <<Route(<<>>, <<Steps[i], Steps[j], Controls[k]>>)>>,
        limit |-> CASE {"For", "Wait"} \subseteq kinds -> "language"
                    [] {"For", "Wait"} \ kinds # {} -> IF blocks <= kMaxBlocks THEN "none" ELSE "blocks"]
Layouts ==
    FlattenSeq([i \in DOMAIN Steps |->
        FlattenSeq([j \in DOMAIN Steps |-> [k \in DOMAIN Controls |-> Layout(i, j, k)]])])

MCPrograms == Layouts \o Plains \o Aggregates \o Matching \o Waits \o Loops \o Modules
              \o LetAcrossWait \o Tables
=============================================================================
