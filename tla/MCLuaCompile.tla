--------------------------- MODULE MCLuaCompile ---------------------------
EXTENDS LuaCompile

(* Programs are written with these. *)
v_(s) == <<"name", s>>
n_(k) == <<"num", k>>
s_(s) == <<"str", s>>
nil_   == <<"nil">>
true_  == <<"true">>
false_ == <<"false">>
dots_  == <<"...">>
Op(a, o, b)     == <<"bin", o, a, b>>
Un(o, a)        == <<"un", o, a>>
Paren(a)        == <<"paren", a>>
Index(t, k)     == <<"index", t, k>>
Call(f, as)     == <<"call", f, as>>
Method(o, m, as) == <<"method", o, m, as>>
Fun(ps, b)      == <<"function", ps, FALSE, b>>
FunDots(ps, b)  == <<"function", ps, TRUE, b>>
Item(e)         == <<"item", e>>
Field(k, e)     == <<"pair", k, e>>
Table(items)    == <<"table", items>>
List(es)        == Table([j \in DOMAIN es |-> Item(es[j])])
Local(xs, es)   == <<"local", xs, es>>
Set(ts, es)     == <<"assign", ts, es>>
Block(b)        == <<"do", b>>
While(e, b)     == <<"while", e, b>>
Repeat(b, e)    == <<"repeat", b, e>>
If(e, b)        == <<"if", <<<<e, b>>>>, <<>>>>
IfElse(e, b, d) == <<"if", <<<<e, b>>>>, d>>
For(x, es, b)   == <<"fornum", x, es, b>>
ForIn(xs, es, b) == <<"forin", xs, es, b>>
LocalFun(f, ps, va, b) == <<"localfunction", f, ps, va, b>>
Return(es)      == <<"return", es>>
Break           == <<"break">>
CallStat(f, as) == <<"callstat", Call(v_(f), as)>>
Emit(es)        == CallStat("emit", es)

a == v_("a")
b == v_("b")
c == v_("c")
f_ == v_("f")
g_ == v_("g")
t_ == v_("t")

(* Every expression of two logical or relational operators over a local    *)
(* with a true value, one with a false value, a constant and a call, in    *)
(* each place where an expression is compiled differently: an argument, a  *)
(* new local, an old local, a condition, the condition of a loop, a result.*)
InPlaces(e) ==
    <<Local(<<"a", "b", "c">>, <<n_(1)>>),
      Emit(<<e>>),
      Local(<<"x">>, <<e>>),
      Set(<<c>>, <<e>>),
      Emit(<<v_("x"), c>>),
      IfElse(e, <<Emit(<<n_(1)>>)>>, <<Emit(<<n_(2)>>)>>),
      While(Un("not", e), <<Emit(<<n_(3)>>), Break>>),
      Return(<<e>>)>>

Atoms == <<a, b, n_(2), nil_, Un("not", a), Op(a, "<", n_(2)), Call(v_("emit"), <<n_(2)>>)>>
Logic == {"and", "or"}
Compare == {"==", "~="}

Arith == {"+", "-", "*", "^"}
Binary == Arith \cup Logic \cup Compare \cup {"..", "<", "<=", ">", ">="}
Operand == <<v_("a"), v_("b"), v_("c"), n_(3), n_(2), n_(1)>>

(* The key of an expression says how it is put together. *)
Keys ==
    [shape : {"two"}, e1 : DOMAIN Atoms, o1 : Logic \cup Compare, e2 : DOMAIN Atoms]
    \cup [shape : {"not"}, e1 : DOMAIN Atoms, o1 : Logic \cup Compare, e2 : DOMAIN Atoms]
    \cup [shape : {"left", "right"}, e1 : 1 .. 6, o1 : Logic, e2 : 1 .. 6, o2 : Logic, e3 : 1 .. 6]
Expression(k) ==
    CASE k.shape = "two"   -> Op(Atoms[k.e1], k.o1, Atoms[k.e2])
      [] k.shape = "not"   -> Un("not", Op(Atoms[k.e1], k.o1, Un("not", Atoms[k.e2])))
      [] k.shape = "left"  -> Op(Op(Atoms[k.e1], k.o1, Atoms[k.e2]), k.o2, Atoms[k.e3])
      [] k.shape = "right" -> Op(Atoms[k.e1], k.o1, Op(Atoms[k.e2], k.o2, Atoms[k.e3]))

(* Operators of every two precedences, on variables and on constants; a    *)
(* string is never an operand of arithmetic.                               *)
ArithKeys ==
    {k \in [shape : {"mixed"}, outer : Binary, inner : Binary, left : BOOLEAN, at : {0, 3}, minus : 0 .. 2] :
       ~(k.outer \in Arith /\ k.inner = "..")}
Mixed(k) ==
    LET x(j) == Operand[k.at + j]
        m(w, e) == IF k.minus = w THEN Un("-", e) ELSE e
    IN IF k.left THEN m(2, Op(Op(m(1, x(1)), k.inner, x(2)), k.outer, x(3)))
       ELSE m(2, Op(m(1, x(1)), k.outer, Op(x(2), k.inner, x(3))))

Statements_ == <<
  (* closures over the variables of a loop, left by break *)
  <<Local(<<"t">>, <<Table(<<>>)>>),
    For("i", <<n_(1), n_(3)>>,
      <<Set(<<Index(t_, v_("i"))>>, <<Fun(<<>>, <<Set(<<v_("i")>>, <<Op(v_("i"), "+", n_(1))>>), Return(<<v_("i")>>)>>)>>),
        If(Op(v_("i"), "==", n_(2)), <<Break>>)>>),
    Emit(<<Call(Index(t_, n_(1)), <<>>), Call(Index(t_, n_(1)), <<>>), Call(Index(t_, n_(2)), <<>>)>>)>>,
  <<Local(<<"a", "g", "h">>, <<n_(0)>>),
    While(Op(a, "<", n_(3)),
      <<Local(<<"x">>, <<a>>),
        Set(<<a>>, <<Op(a, "+", n_(1))>>),
        Block(<<Local(<<"y">>, <<a>>),
                Set(<<g_>>, <<Fun(<<>>, <<Set(<<v_("y")>>, <<Op(v_("y"), "+", v_("x"))>>), Return(<<v_("y")>>)>>)>>),
                If(Op(a, "==", n_(2)), <<Break>>),
                Set(<<v_("h")>>, <<g_>>)>>)>>),
    Emit(<<Call(g_, <<>>), Call(v_("h"), <<>>), Call(g_, <<>>)>>)>>,
  (* a condition that sees the variables of its loop *)
  <<Local(<<"a", "f">>, <<n_(0)>>),
    Repeat(<<Local(<<"x">>, <<a>>), Set(<<f_>>, <<Fun(<<>>, <<Return(<<v_("x")>>)>>)>>), Set(<<a>>, <<Op(a, "+", n_(1))>>)>>,
           Op(Op(v_("x"), "==", n_(2)), "or", Op(Call(f_, <<>>), "==", n_(5)))),
    Emit(<<Call(f_, <<>>)>>)>>,
  <<Local(<<"a">>, <<n_(0)>>),
    Repeat(<<Local(<<"x">>, <<>>), Set(<<a>>, <<Op(a, "+", n_(1))>>), Emit(<<v_("x"), a>>),
             If(Op(a, "==", n_(3)), <<Break>>), Set(<<v_("x")>>, <<a>>)>>, Op(v_("x"), "==", n_(5))),
    Repeat(<<Local(<<"y">>, <<a>>), Set(<<f_>>, <<Fun(<<>>, <<Return(<<v_("y")>>)>>)>>), Break>>, nil_),
    Emit(<<Call(f_, <<>>)>>)>>,
  (* targets that depend on variables assigned by the same statement *)
  <<Local(<<"a", "b", "t">>, <<n_(1), n_(2), Table(<<>>)>>),
    Set(<<a, b>>, <<b, a>>),
    Set(<<Index(t_, a), a>>, <<n_(5), n_(6)>>),
    Set(<<b, Index(t_, b), t_>>, <<n_(3), n_(4), nil_>>),
    Emit(<<a, b, t_>>)>>,
  <<Local(<<"t">>, <<Table(<<>>)>>), Local(<<"a">>, <<t_>>), Local(<<"b">>, <<n_(1)>>),
    Set(<<Index(t_, b), Index(t_, Op(b, "+", n_(1))), b, t_>>, <<n_(7), b, n_(2)>>),
    Emit(<<Index(a, n_(1)), Index(a, n_(2)), b, t_>>)>>,
  <<Local(<<"a", "b", "c">>, <<>>),
    Set(<<a, b, c>>, <<Call(v_("emit"), <<n_(1), n_(2)>>)>>), Emit(<<a, b, c>>),
    Set(<<a, b>>, <<n_(3)>>), Emit(<<a, b>>),
    Set(<<a, b>>, <<n_(4), n_(5), Call(v_("emit"), <<n_(6)>>)>>), Emit(<<a, b>>),
    Set(<<a, Index(v_("u"), n_(1))>>, <<n_(1), n_(2)>>)>>,
  (* variable arguments *)
  <<LocalFun("f", <<>>, TRUE, <<Return(<<dots_>>)>>),
    LocalFun("g", <<"x">>, TRUE, <<Local(<<"y", "z">>, <<dots_>>), Return(<<v_("z"), List(<<dots_>>), Paren(dots_)>>)>>),
    Emit(<<Call(f_, <<dots_>>), Call(f_, <<dots_>>)>>),
    Emit(<<Paren(Call(f_, <<n_(1), n_(2)>>))>>),
    Emit(<<Call(g_, <<Call(f_, <<n_(1), n_(2), n_(3)>>)>>)>>),
    Return(<<dots_>>)>>,
  <<LocalFun("f", <<"x", "y">>, TRUE, <<Return(<<Index(v_("arg"), s_("n")), Index(v_("arg"), n_(1)), v_("y")>>)>>),
    LocalFun("g", <<"x">>, TRUE, <<Return(<<v_("arg"), dots_>>)>>),
    Emit(<<Call(f_, <<dots_>>)>>), Emit(<<Call(f_, <<>>), Call(f_, <<n_(1), n_(2), n_(3), n_(4)>>)>>),
    Return(<<Call(g_, <<dots_>>)>>)>>,
  (* methods and fields *)
  <<Local(<<"t">>, <<Table(<<Field(s_("k"), n_(4))>>)>>),
    <<"method", "t", <<"m", "x">>, <<Return(<<Index(v_("self"), s_("k")), v_("x")>>)>>>>,
    Emit(<<Method(t_, "m", <<n_(1)>>), Method(t_, "m", <<dots_>>)>>),
    Set(<<Index(t_, s_("k"))>>, <<Un("not", Op(Method(t_, "m", <<>>), "==", n_(4)))>>),
    Return(<<Method(t_, "m", <<>>)>>)>>,
  (* constructors of more than one batch *)
  <<Local(<<"t">>, <<List(<<n_(1), n_(2), n_(3), n_(4), n_(5), n_(6), dots_>>)>>),
    Emit(<<Un("#", t_), Index(t_, n_(1)), Index(t_, n_(4)), Index(t_, n_(5)), Index(t_, n_(7)), Index(t_, n_(8))>>)>>,
  <<Local(<<"a">>, <<n_(2)>>),
    While(a, <<Local(<<"t">>, <<List(<<a, a, n_(3), n_(4), n_(5)>>)>>),
               IfElse(Op(Index(t_, n_(5)), "==", a), <<Set(<<a>>, <<nil_>>)>>, <<Set(<<a>>, <<n_(5)>>)>>), Emit(<<Un("#", t_)>>)>>),
    Local(<<"b">>, <<Op(a, "or", List(<<n_(1), n_(2), n_(3), n_(4), n_(9)>>))>>),
    Emit(<<Index(b, n_(5))>>)>>,
  <<Local(<<"a">>, <<n_(2)>>),
    Local(<<"t">>, <<Table(<<Item(a), Field(s_("a"), Op(a, "and", nil_)), Item(Call(v_("emit"), <<n_(7), n_(8)>>)),
                             Field(Op(a, "*", n_(4)), List(<<a>>)), Item(Call(v_("emit"), <<n_(5), n_(6)>>))>>)>>),
    Emit(<<Index(t_, n_(1)), Index(t_, n_(2)), Index(t_, n_(3)), Index(t_, n_(4)), Un("#", Index(t_, n_(8)))>>)>>,
  <<Local(<<"a">>, <<n_(2)>>),
    IfElse(Op(n_(1), "<", a), <<Local(<<"t">>, <<List(<<a, a, a, a, a>>)>>)>>, <<Emit(<<a>>)>>),
    Local(<<"b">>, <<Op(Op(a, "<", n_(1)), "or", List(<<n_(1), n_(2), n_(3), n_(4), n_(5)>>))>>),
    Emit(<<Index(b, n_(5)), Un("#", b)>>)>>,
  (* tail calls *)
  <<LocalFun("f", <<"x", "y">>, FALSE,
      <<If(Op(v_("x"), "==", n_(0)), <<Return(<<Call(v_("emit"), <<v_("y")>>)>>)>>),
        Local(<<"z">>, <<v_("x")>>),
        Return(<<Call(f_, <<Op(v_("x"), "-", n_(1)), Fun(<<>>, <<Return(<<v_("z"), v_("y")>>)>>)>>)>>)>>),
    Emit(<<Call(Call(f_, <<n_(2)>>), <<>>)>>),
    Return(<<Call(f_, <<n_(1)>>)>>)>>,
  (* generators: a library function, a function of the program *)
  <<Local(<<"t">>, <<Table(<<>>)>>),
    ForIn(<<"i", "j">>, <<v_("iter"), n_(3)>>,
      <<Set(<<Index(t_, v_("i"))>>, <<Fun(<<>>, <<Return(<<v_("i"), v_("j")>>)>>)>>), If(Op(v_("i"), "==", n_(2)), <<Break>>)>>),
    LocalFun("f", <<"x", "y">>, FALSE, <<If(Op(v_("y"), "<", v_("x")), <<Return(<<Op(v_("y"), "+", n_(1)), v_("y")>>)>>)>>),
    ForIn(<<"k", "v">>, <<f_, n_(2), n_(0)>>, <<Emit(<<v_("k"), v_("v"), Call(Index(t_, v_("k")), <<>>)>>)>>)>>,
  <<For("i", <<n_(3), n_(1), Un("-", n_(1))>>, <<For("j", <<v_("i"), n_(2)>>, <<Emit(<<v_("i"), v_("j")>>)>>)>>),
    For("i", <<n_(1), s_("s")>>, <<Emit(<<>>)>>)>>,
  (* conditions that are constants *)
  <<<<"if", <<<<nil_, <<Emit(<<n_(1)>>)>>>>, <<false_, <<Emit(<<n_(2)>>)>>>>, <<v_("q"), <<Emit(<<n_(3)>>)>>>>>>, <<Emit(<<n_(4)>>)>>>>,
    While(true_, <<If(n_(1), <<Break>>), Emit(<<n_(5)>>)>>),
    If(Op(nil_, "or", v_("emit")), <<Emit(<<Op(n_(1), "and", n_(6)), Op(false_, "or", nil_)>>)>>),
    Repeat(<<Emit(<<n_(7)>>)>>, n_(1))>>,
  (* variables of enclosing functions at several levels *)
  <<Local(<<"a", "b">>, <<n_(1), n_(2)>>),
    LocalFun("f", <<"c">>, FALSE,
      <<Return(<<Fun(<<"d">>, <<Set(<<a, c>>, <<Op(a, "+", v_("d")), a>>), Return(<<Op(c, "+", b)>>)>>),
                 Fun(<<>>, <<Return(<<a, c>>)>>)>>)>>),
    Local(<<"g", "h">>, <<Call(f_, <<n_(5)>>)>>),
    Emit(<<Call(g_, <<n_(3)>>), Call(g_, <<n_(4)>>), Call(v_("h"), <<>>)>>), Emit(<<a, b>>)>>,
  (* variables without a value, in a loop and after jumps *)
  <<Local(<<"a", "b">>, <<>>), Local(<<"c">>, <<n_(1)>>),
    While(c, <<Local(<<"x", "y">>, <<>>), Local(<<"z">>, <<>>), Emit(<<v_("x"), v_("y"), v_("z"), a, b>>),
               Set(<<v_("x"), v_("y"), v_("z"), b>>, <<n_(1), n_(2), n_(3), c>>),
               If(Op(c, "==", n_(2)), <<Break>>), Set(<<c>>, <<n_(2)>>)>>),
    If(a, <<Emit(<<n_(1)>>)>>), Local(<<"d">>, <<>>), Emit(<<v_("d"), b>>)>>,
  <<Repeat(<<Local(<<"x">>, <<>>), Emit(<<v_("x")>>), Set(<<v_("x")>>, <<n_(1)>>),
             If(v_("q"), <<Break>>), Set(<<v_("q")>>, <<v_("x")>>)>>, nil_)>>,
  <<Local(<<"a">>, <<>>), Block(<<Local(<<"x">>, <<n_(5)>>)>>), If(a, <<Local(<<"y">>, <<>>)>>),
    Local(<<"z">>, <<>>), Emit(<<v_("z")>>)>>,
  <<Local(<<"a">>, <<n_(1)>>), Local(<<"a">>, <<Op(a, "+", n_(1))>>),
    Block(<<Local(<<"a">>, <<a>>), Set(<<a>>, <<n_(9)>>)>>),
    Local(<<"f">>, <<Fun(<<>>, <<Return(<<f_>>)>>)>>),
    Emit(<<a, Call(f_, <<>>)>>),
    Emit(<<Op(Op(s_("x"), "..", a), "..", Op(s_("y"), "..", Paren(Op(a, "..", a))))>>),
    Emit(<<Op(s_("p"), "..", Op(Call(v_("emit"), <<n_(4)>>), "..", s_("q"))), Un("#", Op(a, "..", a))>>)>>,
  (* operands beyond the constants an instruction can name *)
  <<Local(<<"t", "a">>, <<Table(<<Field(s_("p"), n_(1)), Field(s_("q"), n_(2)), Field(s_("r"), n_(3))>>), n_(4)>>),
    Set(<<Index(t_, s_("s"))>>, <<n_(5)>>), Set(<<Index(t_, s_("u")), v_("w")>>, <<Op(Index(t_, s_("s")), "-", n_(7)), n_(8)>>),
    Emit(<<Op(Index(t_, s_("u")), "<", n_(7)), Op(n_(8), "==", v_("w")), Op(n_(8), "-", a)>>),
    Set(<<Index(t_, n_(8))>>, <<true_>>), Return(<<Index(t_, n_(8))>>)>>,
  (* errors at run time *)
  <<Emit(<<n_(1)>>), CallStat("u", <<>>), Emit(<<n_(2)>>)>>,
  <<Local(<<"a">>, <<>>), Emit(<<Op(a, "==", Index(a, n_(1)))>>)>>,
  <<Local(<<"a">>, <<>>), LocalFun("f", <<>>, FALSE, <<Set(<<a>>, <<Op(a, "+", n_(1))>>)>>), Return(<<Call(f_, <<>>)>>)>>
>>

Times(k, s) == [j \in 1 .. k |-> s]
RECURSIVE Nested(_, _)
Nested(k, s) == IF k = 0 THEN <<s>> ELSE <<Block(Nested(k - 1, s))>>
RECURSIVE NotTimes(_, _)
NotTimes(k, e) == IF k = 0 THEN e ELSE Un("not", NotTimes(k - 1, e))
Letter(j) == <<"k", "l", "m", "n", "o", "p", "q", "r", "s", "u", "v", "w", "x", "y">>[j]
Letters(k) == [j \in 1 .. k |-> Letter(j)]

(* What is no program, and programs larger than the limits. *)
Refused == <<
  <<Break>>,
  <<While(true_, <<Set(<<f_>>, <<Fun(<<>>, <<Break>>)>>)>>)>>,
  <<LocalFun("f", <<>>, FALSE, <<Return(<<dots_>>)>>)>>,
  <<Set(<<Call(f_, <<>>)>>, <<n_(1)>>)>>,
  <<Set(<<a, Paren(b)>>, <<n_(1)>>)>>,
  <<<<"callstat", a>>>>,
  <<Return(<<>>), Emit(<<>>)>>,
  <<Local(Letters(8), <<>>), Local(<<"z">>, <<>>)>>,
  <<Local(Letters(6), <<>>), For("i", <<n_(1), n_(2)>>, <<>>)>>,
  <<Local(Letters(4), <<>>), Set(<<f_>>, <<Fun(<<>>, <<Emit([j \in 1 .. 4 |-> v_(Letter(j))])>>)>>)>>,
  Nested(5, Emit(<<>>)), <<Emit(<<NotTimes(8, a)>>)>>, <<Emit(<<NotTimes(11, a)>>)>>,
  <<Emit(<<List(Times(9, n_(1)))>>), Emit(Times(20, n_(1)))>>,
  <<Local(<<"t">>, <<Table([j \in 1 .. 14 |-> Field(s_(Letter(j)), n_(1))])>>), Emit(<<s_("e"), n_(2)>>)>>,
  <<While(a, Times(14, Emit(<<a>>)))>>,
  <<While(a, Times(20, Emit(<<a>>)))>>,
  <<Set([j \in 1 .. 12 |-> a] \o [j \in 1 .. 12 |-> b], <<n_(1)>>)>>
>>

(* A second line that starts anywhere. *)
Broken ==
  <<Local(<<"f">>, <<Fun(<<"x">>, <<Return(<<Fun(<<>>, <<>>)>>)>>)>>),
    CallStat("f", <<Paren(Op(n_(1), "+", n_(2)))>>),
    <<"callstat", Call(Call(f_, <<>>), <<Index(f_, n_(1))>>)>>>>

Small(e) == [block |-> InPlaces(e), args |-> <<>>, newline |-> 100000, saved |-> FALSE]
Shown(e) == [block |-> <<Local(<<"a", "b", "c">>, <<n_(3), n_(2), n_(1)>>), Emit(<<e>>), Return(<<e>>)>>,
             args |-> <<>>, newline |-> 100000, saved |-> FALSE]
Saved(k, blk) == [block |-> blk, args |-> SubSeq(<<Num(1), Num(2), Num(3)>>, 1, k), newline |-> 100000, saved |-> k = 0]

ProgramKeys ==
    Keys \cup ArithKeys
    \cup [shape : {"program"}, which : DOMAIN Statements_, args : {0, 3}]
    \cup [shape : {"refused"}, which : DOMAIN Refused]
    \cup [shape : {"broken"}, newline : 2 .. Len(Ref!BlockTokens(Broken)) + 1]
ProgramList ==
    [k \in ProgramKeys |->
        CASE k.shape = "mixed"   -> Shown(Mixed(k))
          [] k.shape = "program" -> Saved(k.args, Statements_[k.which])
          [] k.shape = "refused" -> Saved(0, Refused[k.which])
          [] k.shape = "broken"  -> [Saved(3, Broken) EXCEPT !.newline = k.newline]
          [] OTHER -> Small(Expression(k))]

GlobalTable == (<<"str", <<"emit">>>> :> <<"c", "emit">>) @@ (<<"str", <<"iter">>>> :> <<"c", "iter">>)
===========================================================================
