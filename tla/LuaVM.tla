------------------------------ MODULE LuaVM ------------------------------
(***************************************************************************)
(* The virtual machine (lvm.c) with the calls (ldo.c) and upvalues         *)
(* (lfunc.c) it needs: one action per group of instructions.  L is the     *)
(* lua_State with the objects it reaches, a record:                        *)
(*   stack, top    values and the first free slot                          *)
(*   ci            the activations, [func, base, top, pc, nresults, fresh, *)
(*                 wait]: fresh when luaV_execute was entered for it, wait *)
(*                 while it waits for the generator of its loop            *)
(*   upvals        [open, at, v]: the slot at while open, then the value v *)
(*   closures      [p, upvals]: the path to the prototype, and upvalues    *)
(*   tables        functions from keys to values                           *)
(*   globals, out  the global variables; what the program emitted          *)
(*   status        "run", "done" or "error"                                *)
(***************************************************************************)
EXTENDS LuaValues

CONSTANT StackSize            \* slots of the stack; programs stay within it

VARIABLES main,               \* the prototype of the main function
          L

-----------------------------------------------------------------------------
(* The running function. *)

RECURSIVE ProtoAt(_, _)
ProtoAt(p, path) == IF path = <<>> THEN p ELSE ProtoAt(p.p[Head(path)], Tail(path))

ci       == L.ci[Len(L.ci)]
base     == ci.base
IsLua(l) == Len(l.ci) > 1
cl       == L.closures[L.stack[ci.func][2]]
p        == ProtoAt(main, cl.p)
i        == p.code[ci.pc + 1]
Kst(x)   == p.k[x + 1]
R(x)     == L.stack[base + x]
KOrR(x)  == IF ISK(x) THEN Kst(INDEXK(x)) ELSE R(x)

At(ops)  == L.status = "run" /\ IsLua(L) /\ ~ci.wait /\ i.op \in ops

SetPc(l, pc)  == [l EXCEPT !.ci[Len(l.ci)].pc = pc]
Goto(l, off)  == SetPc(l, ci.pc + 1 + off)
SetR(l, x, v) == [l EXCEPT !.stack[base + x] = v]
Store(v)      == SetR(Goto(L, 0), i.a, v)
TypeError(l)  == [l EXCEPT !.status = "error"]

(* Slots first .. first + Len(vs) - 1 get the values vs. *)
Fill(stack, first, vs) ==
    [s \in DOMAIN stack |-> IF s \in first .. first + Len(vs) - 1 THEN vs[s - first + 1] ELSE stack[s]]
Slice(l, from, to) == [n \in 1 .. to - from |-> l.stack[from + n - 1]]
Nils(n) == [x \in 1 .. (IF n < 0 THEN 0 ELSE n) |-> Nil]

-----------------------------------------------------------------------------
(* Upvalues. *)

GetUpval(l, u) == IF l.upvals[u].open THEN l.stack[l.upvals[u].at] ELSE l.upvals[u].v
SetUpval(l, u, v) ==
    IF l.upvals[u].open THEN [l EXCEPT !.stack[l.upvals[u].at] = v] ELSE [l EXCEPT !.upvals[u].v = v]

OpenAt(l, level) == {u \in DOMAIN l.upvals : l.upvals[u].open /\ l.upvals[u].at = level}

(* The upvalue of a slot, made if there is none; its index is UpvalOf. *)
luaF_findupval(l, level) ==
    IF OpenAt(l, level) # {} THEN l
    ELSE [l EXCEPT !.upvals = Append(@, [open |-> TRUE, at |-> level, v |-> Nil])]
UpvalOf(l, level) == CHOOSE u \in OpenAt(l, level) : TRUE

luaF_close(l, level) ==
    [l EXCEPT !.upvals = [u \in DOMAIN @ |->
        IF @[u].open /\ @[u].at >= level THEN [open |-> FALSE, at |-> 0, v |-> l.stack[@[u].at]] ELSE @[u]]]

-----------------------------------------------------------------------------
(* Calls. *)

(* Results move down to where the function was; missing ones are nil.      *)
luaD_poscall(l, firstResult) ==
    LET c      == l.ci[Len(l.ci)]
        got    == Slice(l, firstResult, l.top)
        wanted == IF c.nresults = -1 THEN got
                  ELSE [n \in 1 .. c.nresults |-> IF n <= Len(got) THEN got[n] ELSE Nil]
    IN [l EXCEPT !.ci = Front(@), !.stack = Fill(@, c.func, wanted), !.top = c.func + Len(wanted)]

(* Extra arguments stay below the new base, the fixed ones are copied up;  *)
(* a function that never uses `...' gets the extra ones in a table `arg'.  *)
adjust_varargs(l, f, func) ==
    LET args  == Slice(l, func + 1, l.top)
        all   == args \o Nils(f.numparams - Len(args))
        fixed == SubSeq(all, 1, f.numparams)
        extra == SubSeq(all, f.numparams + 1, Len(all))
        arg   == [k \in {Num(n) : n \in {m \in DOMAIN extra : extra[m] # Nil}} |-> extra[k[2]]]
                 @@ (<<"str", <<"n">>>> :> Num(Len(extra)))
        needs == "NEEDSARG" \in f.is_vararg
        b     == func + 1 + Len(all)
        frame == fixed \o (IF needs THEN <<<<"tab", Len(l.tables) + 1>>>> ELSE <<>>)
    IN [l |-> [l EXCEPT !.stack = Fill(@, func + 1, Nils(f.numparams) \o extra \o frame),
                        !.top = b + Len(frame),
                        !.tables = IF needs THEN Append(@, arg) ELSE @],
        base |-> b]

PrecallLua(l, func, nresults, fresh) ==
    LET f == ProtoAt(main, l.closures[l.stack[func][2]].p)
        a == IF f.is_vararg = {}
             THEN [l |-> [l EXCEPT !.top = IF @ > func + 1 + f.numparams THEN func + 1 + f.numparams ELSE @],
                   base |-> func + 1]
             ELSE adjust_varargs(l, f, func)
        top == a.base + f.maxstacksize
    IN [a.l EXCEPT !.ci = Append(@, [func |-> func, base |-> a.base, top |-> top, pc |-> 0,
                                     nresults |-> nresults, fresh |-> fresh, wait |-> FALSE]),
                   !.stack = Fill(@, a.l.top, Nils(top - a.l.top)),
                   !.top = top]

PrecallC(l, func, nresults) ==
    LET args == Slice(l, func + 1, l.top)
        res  == CResults(l.stack[func][2], args)
        c    == [func |-> func, base |-> func + 1, top |-> l.top, pc |-> 0,
                 nresults |-> nresults, fresh |-> FALSE, wait |-> FALSE]
        ran  == [l EXCEPT !.ci = Append(@, c),
                          !.stack = Fill(@, l.top, res),
                          !.top = @ + Len(res),
                          !.out = IF l.stack[func][2] = "emit"
                                  THEN Append(@, [n \in DOMAIN args |-> Observable(args[n])]) ELSE @]
    IN luaD_poscall(ran, l.top)

luaD_precall(l, func, nresults, fresh) ==
    CASE l.stack[func][1] = "cl" -> PrecallLua(l, func, nresults, fresh)
      [] l.stack[func][1] = "c"  -> PrecallC(l, func, nresults)
      [] OTHER -> TypeError(l)

CallsLua(l, func) == l.stack[func][1] = "cl"
TopAtCi(l) == [l EXCEPT !.top = l.ci[Len(l.ci)].top]

-----------------------------------------------------------------------------
(* One action per group of instructions. *)

Moves ==
    /\ At({"MOVE", "LOADK", "LOADBOOL", "LOADNIL", "GETUPVAL", "SETUPVAL", "GETGLOBAL", "SETGLOBAL"})
    /\ L' = CASE i.op = "MOVE"      -> Store(R(i.b))
              [] i.op = "LOADK"     -> Store(Kst(i.b))
              [] i.op = "LOADBOOL"  -> SetR(Goto(L, i.c), i.a, Bool(i.b = 1))
              [] i.op = "LOADNIL"   -> [Goto(L, 0) EXCEPT !.stack = Fill(@, base + i.a, Nils(i.b - i.a + 1))]
              [] i.op = "GETUPVAL"  -> Store(GetUpval(L, cl.upvals[i.b + 1]))
              [] i.op = "SETUPVAL"  -> SetUpval(Goto(L, 0), cl.upvals[i.b + 1], R(i.a))
              [] i.op = "GETGLOBAL" -> Store(RawGet(L.globals, Kst(i.b)))
              [] i.op = "SETGLOBAL" -> [Goto(L, 0) EXCEPT !.globals = RawSet(@, Kst(i.b), R(i.a))]

gettable(t, k) == RawGet(L.tables[t[2]], k)

Tables ==
    /\ At({"NEWTABLE", "GETTABLE", "SETTABLE", "SELF"})
    /\ L' = CASE i.op = "NEWTABLE" ->
                   [Store(<<"tab", Len(L.tables) + 1>>) EXCEPT !.tables = Append(@, [k \in {} |-> Nil])]
              [] i.op = "GETTABLE" ->
                   IF R(i.b)[1] # "tab" THEN TypeError(L) ELSE Store(gettable(R(i.b), KOrR(i.c)))
              [] i.op = "SELF" ->
                   IF R(i.b)[1] # "tab" THEN TypeError(L)
                   ELSE SetR(SetR(Goto(L, 0), i.a + 1, R(i.b)), i.a, gettable(R(i.b), KOrR(i.c)))
              [] i.op = "SETTABLE" ->
                   IF R(i.a)[1] # "tab" \/ KOrR(i.b) = Nil THEN TypeError(L)
                   ELSE [Goto(L, 0) EXCEPT !.tables[R(i.a)[2]] = RawSet(@, KOrR(i.b), KOrR(i.c))]

Arithmetic ==
    /\ At(ArithOps \cup {"UNM", "NOT", "LEN", "CONCAT"})
    /\ LET operands == {R(x) : x \in i.b .. i.c} IN
       L' = CASE i.op \in ArithOps ->
                   IF KOrR(i.b)[1] # "num" \/ KOrR(i.c)[1] # "num" THEN TypeError(L)
                   ELSE Store(Num(luai_num(i.op, KOrR(i.b)[2], KOrR(i.c)[2])))
              [] i.op = "UNM" -> IF R(i.b)[1] # "num" THEN TypeError(L) ELSE Store(Num(-R(i.b)[2]))
              [] i.op = "NOT" -> Store(Bool(l_isfalse(R(i.b))))
              [] i.op = "LEN" -> CASE R(i.b)[1] = "tab" -> Store(Num(Border(L.tables[R(i.b)[2]])))
                                   [] R(i.b)[1] = "str" -> Store(Num(Len(R(i.b)[2])))
                                   [] OTHER -> TypeError(L)
              [] i.op = "CONCAT" ->
                   IF \E v \in operands : v[1] \notin {"str", "num"} THEN TypeError(L)
                   ELSE LET s == <<"str", FlatMap([x \in 1 .. i.c - i.b + 1 |-> R(i.b + x - 1)], tostring)>>
                        IN SetR(Store(s), i.b, s)

(* A test skips the jump that follows it, or takes it at once. *)
JumpIf(l, c) == IF c THEN Goto(l, 1 + p.code[ci.pc + 2].b) ELSE Goto(l, 1)

Tests ==
    /\ At({"JMP", "EQ", "LT", "LE", "TEST", "TESTSET"})
    /\ LET x == KOrR(i.b)  y == KOrR(i.c) IN
       L' = CASE i.op = "JMP" -> Goto(L, i.b)
              [] i.op = "EQ"  -> JumpIf(L, (x = y) = (i.a = 1))
              [] i.op \in {"LT", "LE"} ->
                   IF x[1] # "num" \/ y[1] # "num" THEN TypeError(L)
                   ELSE JumpIf(L, (IF i.op = "LT" THEN x[2] < y[2] ELSE x[2] <= y[2]) = (i.a = 1))
              [] i.op = "TEST" -> JumpIf(L, l_isfalse(R(i.a)) # (i.c = 1))
              [] i.op = "TESTSET" ->
                   IF l_isfalse(R(i.b)) # (i.c = 1) THEN JumpIf(SetR(L, i.a, R(i.b)), TRUE) ELSE JumpIf(L, FALSE)

WithArgs == IF i.b = 0 THEN Goto(L, 0) ELSE [Goto(L, 0) EXCEPT !.top = base + i.a + i.b]

(* Mutant: the top stays at the end of the results. *)
OP_CALLOpen ==
    /\ At({"CALL"})
    /\ L' = luaD_precall(WithArgs, base + i.a, i.c - 1, FALSE)

OP_CALL ==
    /\ At({"CALL"})
    /\ LET called == luaD_precall(WithArgs, base + i.a, i.c - 1, FALSE)
       IN L' = IF called.status = "run" /\ ~CallsLua(L, base + i.a) /\ i.c # 0
               THEN TopAtCi(called) ELSE called

(* The frame of the callee replaces the caller's. *)
OP_TAILCALL ==
    /\ At({"TAILCALL"})
    /\ LET called == luaF_close(luaD_precall(WithArgs, base + i.a, -1, FALSE), base)
           new    == called.ci[Len(called.ci)]
           down   == new.func - ci.func
           moved  == Slice(called, new.func, called.top)
       IN L' = IF ~CallsLua(L, base + i.a) THEN luaD_precall(WithArgs, base + i.a, -1, FALSE)
               ELSE [called EXCEPT !.stack = Fill(@, ci.func, moved),
                                   !.top = @ - down,
                                   !.ci = Append(SubSeq(@, 1, Len(L.ci) - 1),
                                                 [ci EXCEPT !.base = new.base - down, !.top = new.top - down,
                                                            !.pc = 0])]

OP_RETURN ==
    /\ At({"RETURN"})
    /\ LET l    == IF i.b = 0 THEN L ELSE [L EXCEPT !.top = base + i.a + i.b - 1]
           back == luaD_poscall(luaF_close(l, base), base + i.a)
       IN L' = CASE Len(back.ci) = 1 -> [back EXCEPT !.status = "done"]
                 [] Len(back.ci) > 1 /\ ~ci.fresh /\ ci.nresults # -1 -> TopAtCi(back)
                 [] OTHER -> back

OP_FORPREP ==
    /\ At({"FORPREP"})
    /\ L' = IF \E x \in 0 .. 2 : R(i.a + x)[1] # "num" THEN TypeError(L)
            ELSE SetR(Goto(L, i.b), i.a, Num(R(i.a)[2] - R(i.a + 2)[2]))

OP_FORLOOP ==
    /\ At({"FORLOOP"})
    /\ LET step  == R(i.a + 2)[2]
           idx   == R(i.a)[2] + step
           limit == R(i.a + 1)[2]
       IN L' = IF IF 0 < step THEN idx <= limit ELSE limit <= idx
               THEN SetR(SetR(Goto(L, i.b), i.a, Num(idx)), i.a + 3, Num(idx))
               ELSE Goto(L, 0)

(* The generator is called on copies of the loop's three hidden variables; *)
(* while it is a Lua function, the loop waits in luaD_call.                *)
OP_TFORLOOP ==
    /\ At({"TFORLOOP"})
    /\ LET cb   == base + i.a + 3
           args == [L EXCEPT !.stack = Fill(@, cb, <<R(i.a), R(i.a + 1), R(i.a + 2)>>), !.top = cb + 3,
                             !.ci[Len(L.ci)].wait = TRUE]
       IN L' = luaD_precall(args, cb, i.c, TRUE)

TForTest ==
    /\ L.status = "run" /\ IsLua(L) /\ ci.wait
    /\ LET v    == R(i.a + 3)
           l    == [TopAtCi(L) EXCEPT !.ci[Len(L.ci)].wait = FALSE]
       IN L' = IF v = Nil THEN JumpIf(l, FALSE) ELSE JumpIf(SetR(l, i.a + 2, v), TRUE)

(* The batch number may be the next word; any other word in its place      *)
(* reads as some other number.                                             *)
OP_SETLIST ==
    /\ At({"SETLIST"})
    /\ LET n     == IF i.b = 0 THEN L.top - (base + i.a) - 1 ELSE i.b
           word  == p.code[ci.pc + 2]
           c     == IF i.c # 0 THEN i.c ELSE IF "count" \in DOMAIN word THEN word.count ELSE 0
           first == (c - 1) * LFIELDS_PER_FLUSH
           new   == [k \in {Num(first + x) : x \in 1 .. n} |-> R(i.a + k[2] - first)]
           l     == IF i.b = 0 THEN TopAtCi(L) ELSE L
       IN L' = [Goto(l, IF i.c = 0 THEN 1 ELSE 0) EXCEPT
                  !.tables[R(i.a)[2]] =
                     LET t == new @@ @ IN [k \in {j \in DOMAIN t : t[j] # Nil} |-> t[k]]]

OP_CLOSE ==
    /\ At({"CLOSE"})
    /\ L' = luaF_close(Goto(L, 0), base + i.a)

(* The words after CLOSURE tell where its upvalues are. *)
OP_CLOSURE ==
    /\ At({"CLOSURE"})
    /\ LET nup == p.p[i.b + 1].nups
           w(j) == p.code[ci.pc + 1 + j]
           found == FoldLeft(LAMBDA l, j : IF w(j).op = "MOVE" THEN luaF_findupval(l, base + w(j).b) ELSE l,
                             L, [j \in 1 .. nup |-> j])
           ncl == [p |-> Append(cl.p, i.b + 1),
                   upvals |-> [j \in 1 .. nup |->
                       IF w(j).op = "GETUPVAL" THEN cl.upvals[w(j).b + 1] ELSE UpvalOf(found, base + w(j).b)]]
       IN L' = [SetR(Goto(found, nup), i.a, <<"cl", Len(L.closures) + 1>>)
                EXCEPT !.closures = Append(@, ncl)]

OP_VARARG ==
    /\ At({"VARARG"})
    /\ LET n  == base - ci.func - p.numparams - 1
           b  == IF i.b = 0 THEN n ELSE i.b - 1
           vs == [j \in 1 .. b |-> IF j <= n THEN L.stack[base - n + j - 1] ELSE Nil]
           l  == [Goto(L, 0) EXCEPT !.stack = Fill(@, base + i.a, vs)]
       IN L' = IF i.b = 0 THEN [l EXCEPT !.top = base + i.a + n] ELSE l

luaV_execute ==
    \/ Moves \/ Tables \/ Arithmetic \/ Tests
    \/ OP_CALL \/ OP_TAILCALL \/ OP_RETURN
    \/ OP_FORPREP \/ OP_FORLOOP \/ OP_TFORLOOP \/ TForTest
    \/ OP_SETLIST \/ OP_CLOSE \/ OP_CLOSURE \/ OP_VARARG

(* The main function is called with some arguments by a C function.        *)
Start(globals, args) ==
    LET l == [stack |-> [s \in 0 .. StackSize - 1 |->
                           CASE s = 1 -> <<"cl", 1>>
                             [] s \in 2 .. 1 + Len(args) -> args[s - 1]
                             [] OTHER -> Nil],
              top |-> 2 + Len(args), upvals |-> <<>>, tables |-> <<>>, out |-> <<>>,
              closures |-> <<[p |-> <<>>, upvals |-> <<>>]>>, globals |-> globals, status |-> "run",
              ci |-> <<[func |-> 0, base |-> 1, top |-> 1, pc |-> 0, nresults |-> 0,
                        fresh |-> TRUE, wait |-> FALSE]>>]
    IN PrecallLua(l, 1, -1, TRUE)

(* What the outside sees of a finished program. *)
Outcome == [status |-> L.status, out |-> L.out,
            results |-> IF L.status = "done"
                        THEN [n \in 1 .. L.top - 1 |-> Observable(L.stack[n])] ELSE <<>>]
===========================================================================
