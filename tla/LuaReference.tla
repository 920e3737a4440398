--------------------------- MODULE LuaReference ---------------------------
(***************************************************************************)
(* What a program means, independently of how it is compiled: an           *)
(* evaluator of syntax trees over variables in cells, and the tokens a     *)
(* tree is written with.  Expressions are trees <<"num", n>>, <<"str", s>>,*)
(* <<"nil">>, <<"true">>, <<"false">>, <<"...">>, <<"name", x>>,           *)
(* <<"index", t, k>>, <<"call", f, args>>, <<"method", o, name, args>>,    *)
(* <<"function", params, vararg, block>>, <<"table", items>>,              *)
(* <<"un", op, e>>, <<"bin", op, e1, e2>> and <<"paren", e>>.  Operands,   *)
(* arguments and items are evaluated left to right, all expressions of an  *)
(* assignment before its stores.                                           *)
(***************************************************************************)
EXTENDS LuaValues

-----------------------------------------------------------------------------
(* Well-formed programs. *)

RECURSIVE WFExpr(_, _), WFBlock(_, _, _)

WFExprs(es, va) == \A n \in DOMAIN es : WFExpr(es[n], va)
WFExpr(e, va) ==
    CASE e[1] = "..."      -> va
      [] e[1] = "paren"    -> WFExpr(e[2], va)
      [] e[1] = "index"    -> WFExpr(e[2], va) /\ WFExpr(e[3], va)
      [] e[1] = "call"     -> WFExpr(e[2], va) /\ WFExprs(e[3], va)
      [] e[1] = "method"   -> WFExpr(e[2], va) /\ WFExprs(e[4], va)
      [] e[1] = "function" -> WFBlock(e[4], e[3], FALSE)
      [] e[1] = "table"    -> \A n \in DOMAIN e[2] : WFExpr(e[2][n][2], va)
                                  /\ (e[2][n][1] = "pair" => WFExpr(e[2][n][3], va))
      [] e[1] = "un"       -> WFExpr(e[3], va)
      [] e[1] = "bin"      -> WFExpr(e[3], va) /\ WFExpr(e[4], va)
      [] OTHER             -> TRUE

WFStat(s, va, loop) ==
    CASE s[1] = "local"  -> WFExprs(s[3], va)
      [] s[1] = "assign" -> WFExprs(s[2], va) /\ WFExprs(s[3], va)
                                /\ \A n \in DOMAIN s[2] : s[2][n][1] \in {"name", "index"}
      [] s[1] = "callstat" -> WFExpr(s[2], va) /\ s[2][1] \in {"call", "method"}
      [] s[1] = "do"     -> WFBlock(s[2], va, loop)
      [] s[1] = "while"  -> WFExpr(s[2], va) /\ WFBlock(s[3], va, TRUE)
      [] s[1] = "repeat" -> WFBlock(s[2], va, TRUE) /\ WFExpr(s[3], va)
      [] s[1] = "if"     -> (\A n \in DOMAIN s[2] : WFExpr(s[2][n][1], va) /\ WFBlock(s[2][n][2], va, loop))
                                /\ WFBlock(s[3], va, loop)
      [] s[1] = "fornum" -> WFExprs(s[3], va) /\ WFBlock(s[4], va, TRUE)
      [] s[1] = "forin"  -> WFExprs(s[3], va) /\ WFBlock(s[4], va, TRUE)
      [] s[1] = "localfunction" -> WFBlock(s[5], s[4], FALSE)
      [] s[1] = "method" -> WFBlock(s[4], FALSE, FALSE)
      [] s[1] = "return" -> WFExprs(s[2], va)
      [] s[1] = "break"  -> loop

WFBlock(b, va, loop) ==
    /\ \A n \in DOMAIN b : WFStat(b[n], va, loop)
    /\ \A n \in 1 .. Len(b) - 1 : b[n][1] \notin {"return", "break"}

WellFormed(b) == WFBlock(b, TRUE, FALSE)

-----------------------------------------------------------------------------
(* The tokens of a program, with the parentheses that precedence needs. *)

Key(s) == <<s, "">>
Name(x) == <<"name", x>>

Level(e) ==
    CASE e[1] = "un"  -> 7
      [] e[1] = "bin" -> (CASE e[2] = "or" -> 1 [] e[2] = "and" -> 2 [] e[2] = ".." -> 4
                            [] e[2] \in {"+", "-"} -> 5 [] e[2] \in {"*", "/", "%"} -> 6
                            [] e[2] = "^" -> 8 [] OTHER -> 3)
      [] OTHER -> 9

RECURSIVE Tokens(_), BlockTokens(_)

Separated(s, F(_)) == IF s = <<>> THEN <<>> ELSE F(s[1]) \o FlatMap(Tail(s), LAMBDA x : <<Key(",")>> \o F(x))
ListTokens(es) == Separated(es, Tokens)
NameTokens(xs) == Separated(xs, LAMBDA x : <<Name(x)>>)
InParens(ts) == <<Key("(")>> \o ts \o <<Key(")")>>
IfParens(c, ts) == IF c THEN InParens(ts) ELSE ts
Prefix(e) == IfParens(e[1] \notin {"name", "index", "call", "method", "paren"}, Tokens(e))
ParamTokens(ps, va) == InParens(NameTokens(ps) \o IF ~va THEN <<>> ELSE IF ps = <<>> THEN <<Key("...")>>
                                                  ELSE <<Key(","), Key("...")>>)
ItemTokens(it) ==
    IF it[1] = "item" THEN Tokens(it[2])
    ELSE IF it[2][1] = "str" THEN <<Name(it[2][2]), Key("=")>> \o Tokens(it[3])
    ELSE <<Key("[")>> \o Tokens(it[2]) \o <<Key("]"), Key("=")>> \o Tokens(it[3])

Tokens(e) ==
    CASE e[1] \in {"num", "str", "name"} -> <<e>>
      [] e[1] \in {"nil", "true", "false", "..."} -> <<Key(e[1])>>
      [] e[1] = "paren"  -> InParens(Tokens(e[2]))
      [] e[1] = "index"  -> Prefix(e[2]) \o (IF e[3][1] = "str" THEN <<Key("."), Name(e[3][2])>>
                                             ELSE <<Key("[")>> \o Tokens(e[3]) \o <<Key("]")>>)
      [] e[1] = "call"   -> Prefix(e[2]) \o (IF Len(e[3]) = 1 /\ e[3][1][1] \in {"str", "table"}
                                             THEN Tokens(e[3][1]) ELSE InParens(ListTokens(e[3])))
      [] e[1] = "method" -> Prefix(e[2]) \o <<Key(":"), Name(e[3])>> \o InParens(ListTokens(e[4]))
      [] e[1] = "function" -> <<Key("function")>> \o ParamTokens(e[2], e[3]) \o BlockTokens(e[4]) \o <<Key("end")>>
      [] e[1] = "table"  -> <<Key("{")>> \o Separated(e[2], ItemTokens) \o <<Key("}")>>
      [] e[1] = "un"     -> <<Key(e[2])>> \o IfParens(Level(e[3]) < 7, Tokens(e[3]))
      [] e[1] = "bin"    ->
           LET right == e[2] \in {"..", "^"}
               l == Level(e)
           IN IfParens(Level(e[3]) < l \/ (Level(e[3]) = l /\ right), Tokens(e[3]))
              \o <<Key(e[2])>>
              \o IfParens(e[4][1] # "un" /\ (Level(e[4]) < l \/ (Level(e[4]) = l /\ ~right)), Tokens(e[4]))

Enclosed(open, b, close) == <<Key(open)>> \o BlockTokens(b) \o <<Key(close)>>

StatTokens(s) ==
    CASE s[1] = "local"  -> <<Key("local")>> \o NameTokens(s[2])
                              \o (IF s[3] = <<>> THEN <<>> ELSE <<Key("=")>> \o ListTokens(s[3]))
      [] s[1] = "assign" -> ListTokens(s[2]) \o <<Key("=")>> \o ListTokens(s[3])
      [] s[1] = "callstat" -> Tokens(s[2])
      [] s[1] = "do"     -> Enclosed("do", s[2], "end")
      [] s[1] = "while"  -> <<Key("while")>> \o Tokens(s[2]) \o Enclosed("do", s[3], "end")
      [] s[1] = "repeat" -> Enclosed("repeat", s[2], "until") \o Tokens(s[3])
      [] s[1] = "if"     -> <<Key("if")>> \o Tail(FlatMap(s[2], LAMBDA part :
                                  <<Key("elseif")>> \o Tokens(part[1]) \o <<Key("then")>> \o BlockTokens(part[2])))
                              \o (IF s[3] = <<>> THEN <<>> ELSE <<Key("else")>> \o BlockTokens(s[3])) \o <<Key("end")>>
      [] s[1] = "fornum" -> <<Key("for"), Name(s[2]), Key("=")>> \o ListTokens(s[3]) \o Enclosed("do", s[4], "end")
      [] s[1] = "forin"  -> <<Key("for")>> \o NameTokens(s[2]) \o <<Key("in")>> \o ListTokens(s[3])
                              \o Enclosed("do", s[4], "end")
      [] s[1] = "localfunction" -> <<Key("local"), Key("function"), Name(s[2])>> \o ParamTokens(s[3], s[4])
                                     \o BlockTokens(s[5]) \o <<Key("end")>>
      [] s[1] = "method" -> <<Key("function"), Name(s[2]), Key(":"), Name(s[3][1])>>
                              \o ParamTokens(Tail(s[3]), FALSE) \o BlockTokens(s[4]) \o <<Key("end")>>
      [] s[1] = "return" -> <<Key("return")>> \o ListTokens(s[2])
      [] s[1] = "break"  -> <<Key("break")>>

(* Statements are separated by semicolons, which keeps a parenthesis at    *)
(* the start of one from continuing the one before.                        *)
BlockTokens(b) == FlatMap(b, LAMBDA st : StatTokens(st) \o <<Key(";")>>)

-----------------------------------------------------------------------------
(* Evaluation.  A state s has cells, tabs, clos, glob, out and err; after  *)
(* an error nothing more is observable.  A context c has the cells of the  *)
(* variables in scope and the extra arguments.                             *)

Fault(s) == [s EXCEPT !.err = TRUE]
FaultIf(b, s) == IF b THEN Fault(s) ELSE s
V(s, v) == [s |-> s, v |-> v]
First(vs) == IF vs = <<>> THEN Nil ELSE vs[1]
Strs(x) == <<"str", <<x>>>>

Bind(s, c, x, v) ==
    [s |-> [s EXCEPT !.cells = Append(@, v)],
     c |-> [c EXCEPT !.env = (x :> Len(s.cells) + 1) @@ @]]

RECURSIVE BindAll(_, _, _, _)
BindAll(s, c, xs, vs) ==
    IF xs = <<>> THEN [s |-> s, c |-> c]
    ELSE LET b == Bind(s, c, Head(xs), First(vs))
         IN BindAll(b.s, b.c, Tail(xs), IF vs = <<>> THEN vs ELSE Tail(vs))

Get(s, t, k) == IF t[1] = "tab" THEN V(s, RawGet(s.tabs[t[2]], k)) ELSE V(Fault(s), Nil)
Put(s, t, k, v) ==
    IF s.err \/ t[1] # "tab" \/ k = Nil THEN Fault(s)
    ELSE [s EXCEPT !.tabs[t[2]] = RawSet(@, k, v)]

Binary(s, op, x, y) ==
    LET nums == x[1] = "num" /\ y[1] = "num"
        strs == x[1] \in {"num", "str"} /\ y[1] \in {"num", "str"}
        n(o) == IF nums THEN V(s, Num(luai_num(o, x[2], y[2]))) ELSE V(Fault(s), Nil)
        lt(a, b) == IF nums THEN V(s, Bool(a[2] < b[2])) ELSE V(Fault(s), Nil)
        le(a, b) == IF nums THEN V(s, Bool(a[2] <= b[2])) ELSE V(Fault(s), Nil)
    IN CASE op = "+" -> n("ADD") [] op = "-" -> n("SUB") [] op = "*" -> n("MUL")
         [] op = "/" -> n("DIV") [] op = "%" -> n("MOD") [] op = "^" -> n("POW")
         [] op = ".." -> IF strs THEN V(s, <<"str", tostring(x) \o tostring(y)>>) ELSE V(Fault(s), Nil)
         [] op = "==" -> V(s, Bool(x = y)) [] op = "~=" -> V(s, Bool(x # y))
         [] op = "<"  -> lt(x, y) [] op = ">"  -> lt(y, x)
         [] op = "<=" -> le(x, y) [] op = ">=" -> le(y, x)

Unary(s, op, x) ==
    CASE op = "not" -> V(s, Bool(l_isfalse(x)))
      [] op = "-"   -> IF x[1] = "num" THEN V(s, Num(-x[2])) ELSE V(Fault(s), Nil)
      [] op = "#"   -> IF x[1] = "str" THEN V(s, Num(Len(x[2])))
                       ELSE IF x[1] = "tab" THEN V(s, Num(Border(s.tabs[x[2]]))) ELSE V(Fault(s), Nil)

RECURSIVE Multi(_, _, _), Exec(_, _, _)

Eval(s, c, e) == LET r == Multi(s, c, e) IN V(r.s, First(r.vs))
MultiOf(r) == [s |-> r.s, vs |-> <<r.v>>]

(* All values but those of the last expression are single. *)
RECURSIVE EvalList(_, _, _)
EvalList(s, c, es) ==
    IF es = <<>> THEN [s |-> s, vs |-> <<>>]
    ELSE IF Len(es) = 1 THEN Multi(s, c, es[1])
    ELSE LET h == Eval(s, c, Head(es))
             t == EvalList(h.s, c, Tail(es))
         IN [s |-> t.s, vs |-> <<h.v>> \o t.vs]

UsesDots(b) == \E n \in DOMAIN BlockTokens(b) : BlockTokens(b)[n][1] = "..."

Call(s, f, args) ==
    CASE s.err \/ f[1] \notin {"cl", "c"} -> [s |-> Fault(s), vs |-> <<>>]
      [] f[1] = "c" /\ ~s.err ->
           [s |-> IF f[2] = "emit" THEN [s EXCEPT !.out = Append(@, [n \in DOMAIN args |-> Observable(args[n])])] ELSE s,
            vs |-> CResults(f[2], args)]
      [] f[1] = "cl" /\ ~s.err ->
           LET g     == s.clos[f[2]]
               extra == SubSeq(args, Len(g.params) + 1, Len(args))
               b     == BindAll(s, [env |-> g.env, va |-> IF g.vararg THEN extra ELSE <<>>],
                                g.params, args)
               arg   == [k \in {Num(n) : n \in {m \in DOMAIN extra : extra[m] # Nil}} |-> extra[k[2]]]
                        @@ (Strs("n") :> Num(Len(extra)))
               old   == g.vararg /\ ~UsesDots(g.block)
               a     == IF old THEN Bind([b.s EXCEPT !.tabs = Append(@, arg)], b.c, "arg",
                                         <<"tab", Len(b.s.tabs) + 1>>)
                        ELSE IF g.vararg THEN Bind(b.s, b.c, "arg", Nil) ELSE b
               r     == Exec(a.s, a.c, g.block)
           IN [s |-> r.s, vs |-> IF r.sig[1] = "return" THEN r.sig[2] ELSE <<>>]

RECURSIVE Items(_, _, _, _, _)
Items(s, c, id, items, n) ==
    IF items = <<>> THEN s
    ELSE LET it == Head(items)
             k  == Eval(s, c, it[2])
             v  == Eval(k.s, c, it[3])
             m  == IF Len(items) = 1 THEN Multi(s, c, it[2])
                   ELSE MultiOf(Eval(s, c, it[2]))
             RECURSIVE PutAll(_, _)
             PutAll(t, j) == IF j > Len(m.vs) THEN t
                             ELSE PutAll([t EXCEPT !.tabs[id] = RawSet(@, Num(n + j), m.vs[j])], j + 1)
         IN IF it[1] = "item" THEN Items(PutAll(m.s, 1), c, id, Tail(items), n + 1)
            ELSE Items(Put(v.s, <<"tab", id>>, k.v, v.v), c, id, Tail(items), n)

Multi(s, c, e) ==
    CASE e[1] = "nil"   -> MultiOf(V(s, Nil))
      [] e[1] = "true"  -> MultiOf(V(s, Bool(TRUE)))
      [] e[1] = "false" -> MultiOf(V(s, Bool(FALSE)))
      [] e[1] = "num"   -> MultiOf(V(s, Num(e[2])))
      [] e[1] = "str"   -> MultiOf(V(s, Strs(e[2])))
      [] e[1] = "..."   -> [s |-> s, vs |-> c.va]
      [] e[1] = "name"  -> MultiOf(V(s, IF e[2] \in DOMAIN c.env THEN s.cells[c.env[e[2]]]
                                        ELSE RawGet(s.glob, Strs(e[2]))))
      [] e[1] = "paren" -> MultiOf(Eval(s, c, e[2]))
      [] e[1] = "index" -> LET t == Eval(s, c, e[2])  k == Eval(t.s, c, e[3]) IN MultiOf(Get(k.s, t.v, k.v))
      [] e[1] = "call"  -> LET f == Eval(s, c, e[2])  a == EvalList(f.s, c, e[3]) IN Call(a.s, f.v, a.vs)
      [] e[1] = "method" -> LET o == Eval(s, c, e[2])
                                f == Get(o.s, o.v, Strs(e[3]))
                                a == EvalList(f.s, c, e[4])
                            IN Call(a.s, f.v, <<o.v>> \o a.vs)
      [] e[1] = "function" ->
           MultiOf(V([s EXCEPT !.clos = Append(@, [params |-> e[2], vararg |-> e[3], block |-> e[4], env |-> c.env])],
                     <<"cl", Len(s.clos) + 1>>))
      [] e[1] = "table" ->
           LET id == Len(s.tabs) + 1
           IN MultiOf(V(Items([s EXCEPT !.tabs = Append(@, [k \in {} |-> Nil])], c, id, e[2], 0), <<"tab", id>>))
      [] e[1] = "un"  -> LET x == Eval(s, c, e[3]) IN MultiOf(Unary(x.s, e[2], x.v))
      [] e[1] = "bin" ->
           LET x == Eval(s, c, e[3])  y == Eval(x.s, c, e[4]) IN
           CASE e[2] = "and" -> MultiOf(IF l_isfalse(x.v) THEN x ELSE y)
             [] e[2] = "or"  -> MultiOf(IF l_isfalse(x.v) THEN y ELSE x)
             [] OTHER        -> MultiOf(Binary(y.s, e[2], x.v, y.v))

Assign(s, c, x, v) ==
    IF x \in DOMAIN c.env THEN [s EXCEPT !.cells[c.env[x]] = v] ELSE [s EXCEPT !.glob = RawSet(@, Strs(x), v)]

(* The tables and keys of the targets, before anything is stored. *)
RECURSIVE Places(_, _, _)
Places(s, c, ts) ==
    IF ts = <<>> THEN [s |-> s, ps |-> <<>>]
    ELSE LET t == Eval(s, c, Head(ts)[2])
             k == Eval(t.s, c, Head(ts)[3])
             r == Places(IF Head(ts)[1] = "index" THEN k.s ELSE s, c, Tail(ts))
         IN [s |-> r.s, ps |-> <<IF Head(ts)[1] = "index" THEN <<"index", t.v, k.v>> ELSE Head(ts)>> \o r.ps]

RECURSIVE Stores(_, _, _, _)
Stores(s, c, ps, vs) ==
    IF ps = <<>> \/ s.err THEN s
    ELSE LET q == ps[Len(ps)]
             v == IF Len(ps) \in DOMAIN vs THEN vs[Len(ps)] ELSE Nil
         IN Stores(IF q[1] = "index" THEN Put(s, q[2], q[3], v) ELSE Assign(s, c, q[2], v),
                   c, Front(ps), vs)

Went(s) == [s |-> s, sig |-> <<"next">>]
Ended(r) == r.s.err \/ r.sig[1] # "next"
AfterLoop(r) == IF r.sig[1] = "break" THEN Went(r.s) ELSE r

RECURSIVE While(_, _, _), Repeat(_, _, _), ForNum(_, _, _, _, _), ForIn(_, _, _, _, _), Choose(_, _, _)

While(s, c, st) ==
    LET e == Eval(s, c, st[2])
        r == Exec(e.s, c, st[3])
    IN IF e.s.err \/ l_isfalse(e.v) THEN Went(e.s) ELSE IF Ended(r) THEN AfterLoop(r) ELSE While(r.s, c, st)

(* The condition sees the variables of the block, so it is read with it. *)
Repeat(s, c, st) ==
    LET r == Exec(s, c, Append(st[2], <<"until", st[3]>>))
    IN IF Ended(r) THEN AfterLoop(IF r.sig[1] = "stop" THEN Went(r.s) ELSE r) ELSE Repeat(r.s, c, st)

ForNum(s, c, st, at, ls) ==
    LET b == Bind(s, c, st[2], Num(at))
        r == Exec(b.s, b.c, st[4])
    IN IF IF 0 < ls[2] THEN at > ls[1] ELSE at < ls[1] THEN Went(s)
       ELSE IF Ended(r) THEN AfterLoop(r) ELSE ForNum(r.s, c, st, at + ls[2], ls)

ForIn(s, c, st, g, at) ==
    LET n == Call(s, g[1], <<g[2], at>>)
        b == BindAll(n.s, c, st[2], n.vs)
        r == Exec(b.s, b.c, st[4])
    IN IF n.s.err \/ First(n.vs) = Nil THEN Went(n.s)
       ELSE IF Ended(r) THEN AfterLoop(r) ELSE ForIn(r.s, c, st, g, First(n.vs))

Choose(s, c, st) ==
    IF st[2] = <<>> THEN Exec(s, c, st[3])
    ELSE LET e == Eval(s, c, st[2][1][1])
         IN IF l_isfalse(e.v) THEN Choose(e.s, c, <<"if", Tail(st[2]), st[3]>>)
            ELSE Exec(e.s, c, st[2][1][2])

Statement(s, c, st) ==
    LET es == EvalList(s, c, st[3])
        v(n) == IF n \in DOMAIN es.vs THEN es.vs[n] ELSE Nil
        step == IF Len(st[3]) = 3 THEN v(3) ELSE Num(1)
    IN CASE st[1] = "callstat" -> Went(Eval(s, c, st[2]).s)
         [] st[1] = "assign" ->
              LET p == Places(s, c, st[2])  e == EvalList(p.s, c, st[3]) IN Went(Stores(e.s, c, p.ps, e.vs))
         [] st[1] = "do"     -> Exec(s, c, st[2])
         [] st[1] = "while"  -> While(s, c, st)
         [] st[1] = "repeat" -> Repeat(s, c, st)
         [] st[1] = "if"     -> Choose(s, c, st)
         [] st[1] = "fornum" -> IF {v(1)[1], v(2)[1], step[1]} = {"num"}
                                THEN ForNum(es.s, c, st, v(1)[2], <<v(2)[2], step[2]>>) ELSE Went(Fault(es.s))
         [] st[1] = "forin"  -> ForIn(es.s, c, st, <<v(1), v(2)>>, v(3))
         [] st[1] = "method" ->
              LET f == Multi(s, c, <<"function", <<"self">> \o Tail(st[3]), FALSE, st[4]>>)
                  t == Eval(f.s, c, <<"name", st[2]>>)
              IN Went(Put(t.s, t.v, Strs(st[3][1]), f.vs[1]))
         [] st[1] = "return" -> LET e == EvalList(s, c, st[2]) IN [s |-> e.s, sig |-> <<"return", e.vs>>]
         [] st[1] = "break"  -> [s |-> s, sig |-> <<"break">>]
         [] st[1] = "until"  -> LET e == Eval(s, c, st[2])
                                IN IF l_isfalse(e.v) THEN Went(e.s) ELSE [s |-> e.s, sig |-> <<"stop">>]

(* A block; a local variable is in scope in the statements after it, a     *)
(* local function also in its own body.                                    *)
Exec(s, c, b) ==
    IF b = <<>> THEN Went(s)
    ELSE LET st == Head(b)
             es == EvalList(s, c, st[3])
             l  == BindAll(es.s, c, st[2], es.vs)
             f  == Bind(s, c, st[2], <<"cl", Len(s.clos) + 1>>)
             g  == Multi(f.s, f.c, <<"function", st[3], st[4], st[5]>>).s
             r  == Statement(s, c, st)
         IN CASE st[1] = "local" -> IF l.s.err THEN Went(l.s) ELSE Exec(l.s, l.c, Tail(b))
              [] st[1] = "localfunction" -> Exec(g, f.c, Tail(b))
              [] OTHER -> IF Ended(r) THEN r ELSE Exec(r.s, c, Tail(b))

(* What the outside sees of a program. *)
Meaning(b, globals, args) ==
    LET r == Exec([cells |-> <<>>, tabs |-> <<>>, clos |-> <<>>, glob |-> globals, out |-> <<>>, err |-> FALSE],
                  [env |-> [x \in {} |-> 0], va |-> args], b)
    IN [status |-> IF r.s.err THEN "error" ELSE "done", out |-> r.s.out,
        results |-> IF r.s.err \/ r.sig[1] # "return" THEN <<>>
                    ELSE [n \in DOMAIN r.sig[2] |-> Observable(r.sig[2][n])]]
===========================================================================
