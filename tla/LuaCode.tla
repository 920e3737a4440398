----------------------------- MODULE LuaCode -----------------------------
(***************************************************************************)
(* The code generator (lcode.c).  A function under construction, fs, is a  *)
(* record: its code, constants k, nested functions p, upvalues, variables  *)
(* and registers.  An operator on an expression takes and returns a pair   *)
(* x = [fs, e]; e = [k, info, aux, t, f] is the expdesc, whose info holds  *)
(* the numeral of a VKNUM, as in the C union.  A list of pending jumps is  *)
(* threaded through the jumps themselves.  fs.err is the error that        *)
(* unwinds the parser, fs.ok falls when a lua_assert fails.  Source lines  *)
(* are left out.                                                           *)
(***************************************************************************)
EXTENDS LuaOpcodes

CONSTANTS MAXSTACK,           \* registers of a function
          CountOpcode         \* the opcode that the low bits of a count read as

NO_JUMP == -1

Fail(fs, msg)   == IF fs.err = "" THEN [fs EXCEPT !.err = msg] ELSE fs
lua_assert(fs, c)   == [fs EXCEPT !.ok = @ /\ c]
On(fs, e)       == [fs |-> fs, e |-> e]
init_exp(k, i)  == [k |-> k, info |-> i, aux |-> 0, t |-> NO_JUMP, f |-> NO_JUMP]
ABC(o, a, b, c) == [op |-> o, a |-> a, b |-> b, c |-> c]
Pc(fs)          == Len(fs.code)
LastPc(fs)      == Len(fs.code) - 1
Instr(fs, pc)   == fs.code[pc + 1]
RK(e)           == IF e.k = "VK" THEN RKASK(e.info) ELSE e.info
hasjumps(e)     == e.t # e.f
isnumeral(e)    == e.k = "VKNUM" /\ e.t = NO_JUMP /\ e.f = NO_JUMP
hasmultret(k)   == k \in {"VCALL", "VVARARG"}

-----------------------------------------------------------------------------
(* Jump lists. *)

getjump(fs, pc) ==
    LET offset == Instr(fs, pc).b IN IF offset = NO_JUMP THEN NO_JUMP ELSE pc + 1 + offset

getjumpcontrol(fs, pc) == IF pc >= 1 /\ testTMode(Instr(fs, pc - 1).op) THEN pc - 1 ELSE pc

fixjump(fs, pc, dest) ==
    LET offset == dest - (pc + 1) IN
    IF offset > MAXARG_sBx \/ -offset > MAXARG_sBx THEN Fail(fs, "control structure too long")
    ELSE [lua_assert(fs, dest # NO_JUMP) EXCEPT !.code[pc + 1].b = offset]

RECURSIVE LastJump(_, _)
LastJump(fs, list) == IF getjump(fs, list) = NO_JUMP THEN list ELSE LastJump(fs, getjump(fs, list))

(* luaK_concat links list l2 behind l1; Joined is the head of the result. *)
Joined(l1, l2) == IF l1 = NO_JUMP THEN l2 ELSE l1

luaK_concat(fs, l1, l2) ==
    IF l1 = NO_JUMP \/ l2 = NO_JUMP THEN fs ELSE fixjump(fs, LastJump(fs, l1), l2)

RECURSIVE need_value(_, _)
need_value(fs, list) ==
    /\ list # NO_JUMP
    /\ \/ Instr(fs, getjumpcontrol(fs, list)).op # "TESTSET"
       \/ need_value(fs, getjump(fs, list))

CanPatch(fs, node) == Instr(fs, getjumpcontrol(fs, node)).op = "TESTSET"

patchtestreg(fs, node, reg) ==
    LET at == getjumpcontrol(fs, node)
        i  == Instr(fs, at)
    IN IF ~CanPatch(fs, node) THEN fs
       ELSE IF reg # NO_REG /\ reg # i.b THEN [fs EXCEPT !.code[at + 1].a = reg]
       ELSE [fs EXCEPT !.code[at + 1] = ABC("TEST", i.b, 0, i.c)]

RECURSIVE removevalues(_, _)
removevalues(fs, list) ==
    IF list = NO_JUMP THEN fs
    ELSE removevalues(patchtestreg(fs, list, NO_REG), getjump(fs, list))

RECURSIVE patchlistaux(_, _, _, _, _)
patchlistaux(fs, list, vtarget, reg, dtarget) ==
    IF list = NO_JUMP THEN fs
    ELSE patchlistaux(fixjump(patchtestreg(fs, list, reg), list,
                              IF CanPatch(fs, list) THEN vtarget ELSE dtarget),
                      getjump(fs, list), vtarget, reg, dtarget)


luaK_getlabel(fs) == [fs EXCEPT !.lasttarget = Pc(fs)]

dischargejpc(fs) ==
    [patchlistaux(fs, fs.jpc, Pc(fs), NO_REG, Pc(fs)) EXCEPT !.jpc = NO_JUMP]

luaK_patchtohere(fs, list) ==
    [luaK_concat(luaK_getlabel(fs), fs.jpc, list) EXCEPT !.jpc = Joined(@, list)]

luaK_patchlist(fs, list, target) ==
    IF target = Pc(fs) THEN luaK_patchtohere(fs, list)
    ELSE patchlistaux(lua_assert(fs, target < Pc(fs)), list, target, NO_REG, target)

-----------------------------------------------------------------------------
(* Emitting instructions; the position of the last one is LastPc. *)

luaK_code(fs, i) == [dischargejpc(fs) EXCEPT !.code = Append(@, i)]

luaK_codeABC(fs, o, a, b, c) ==
    luaK_code(lua_assert(fs, /\ getOpMode(o) = "iABC"
                             /\ (getBMode(o) = "OpArgN" => b = 0)
                             /\ (getCMode(o) = "OpArgN" => c = 0)), ABC(o, a, b, c))

luaK_codeABx(fs, o, a, bc) ==
    luaK_code(lua_assert(fs, getOpMode(o) # "iABC" /\ getCMode(o) = "OpArgN"), ABC(o, a, bc, 0))

(* Jumps waiting for this position join the new jump's list. *)
luaK_jump(fs) ==
    LET j == luaK_codeABx([fs EXCEPT !.jpc = NO_JUMP], "JMP", 0, NO_JUMP)
    IN luaK_concat(j, LastPc(j), fs.jpc)

condjump(fs, op, a, b, c) == luaK_jump(luaK_codeABC(fs, op, a, b, c))

luaK_ret(fs, first, nret) == luaK_codeABC(fs, "RETURN", first, nret + 1, 0)

(* Registers of a fresh activation are nil, and a LOADNIL can be widened,  *)
(* unless some jump leads here.                                            *)
luaK_nil(fs, from, n) ==
    LET nojump == Pc(fs) > fs.lasttarget
        prev   == Instr(fs, LastPc(fs))
    IN IF nojump /\ Pc(fs) = 0 /\ from >= fs.nactvar THEN fs
       ELSE IF /\ nojump /\ Pc(fs) # 0
               /\ prev.op = "LOADNIL" /\ prev.a <= from /\ from <= prev.b + 1
            THEN IF from + n - 1 > prev.b THEN [fs EXCEPT !.code[Pc(fs)].b = from + n - 1] ELSE fs
       ELSE luaK_codeABC(fs, "LOADNIL", from, from + n - 1, 0)

(* A batch number too large for C is the next word, which is no            *)
(* instruction but still reads as one.                                     *)
CountWord(c) == [op |-> CountOpcode, a |-> 8, b |-> 0, c |-> 0, count |-> c]

luaK_setlist(fs, base, nelems, tostore) ==
    LET c  == (nelems - 1) \div LFIELDS_PER_FLUSH + 1
        b  == IF tostore = -1 THEN 0 ELSE tostore
        ok == lua_assert(fs, tostore # 0)
    IN [(IF c <= MAXARG_C THEN luaK_codeABC(ok, "SETLIST", base, b, c)
         ELSE luaK_code(luaK_codeABC(ok, "SETLIST", base, b, 0), CountWord(c)))
        EXCEPT !.freereg = base + 1]

-----------------------------------------------------------------------------
(* Registers and constants. *)

(* Mutant: one register short. *)
luaK_checkstackShort(fs, n) ==
    LET newstack == fs.freereg + n - 1 IN
    IF newstack <= fs.maxstacksize THEN fs
    ELSE IF newstack >= MAXSTACK THEN Fail(fs, "function or expression too complex")
    ELSE [fs EXCEPT !.maxstacksize = newstack]

luaK_checkstack(fs, n) ==
    LET newstack == fs.freereg + n IN
    IF newstack <= fs.maxstacksize THEN fs
    ELSE IF newstack >= MAXSTACK THEN Fail(fs, "function or expression too complex")
    ELSE [fs EXCEPT !.maxstacksize = newstack]

luaK_reserveregs(fs, n) == [luaK_checkstack(fs, n) EXCEPT !.freereg = @ + n]

freereg(fs, reg) ==
    IF ISK(reg) \/ reg < fs.nactvar THEN fs
    ELSE [lua_assert(fs, reg = fs.freereg - 1) EXCEPT !.freereg = @ - 1]

freeexp(fs, e) == IF e.k = "VNONRELOC" THEN freereg(fs, e.info) ELSE fs

(* The constant is found again by its value; its index is KIndex. *)
addk(fs, v) ==
    IF \E i \in DOMAIN fs.k : fs.k[i] = v THEN fs
    ELSE IF Len(fs.k) >= MAXARG_Bx THEN Fail([fs EXCEPT !.k = Append(@, v)], "constant table overflow")
    ELSE [fs EXCEPT !.k = Append(@, v)]

KIndex(fs, v) == (CHOOSE i \in DOMAIN fs.k : fs.k[i] = v) - 1

KString(s) == <<"str", <<s>>>>
KOf(e) == CASE e.k = "VKNUM" -> <<"num", e.info>>
            [] e.k = "VNIL"  -> <<"nil", 0>>
            [] OTHER         -> <<"bool", e.k = "VTRUE">>

Relocable(fs, e) == On(fs, [e EXCEPT !.k = "VRELOCABLE", !.info = LastPc(fs)])
InRegister(fs, e, reg) == On(fs, [e EXCEPT !.k = "VNONRELOC", !.info = reg])

luaK_setreturns(x, nresults) ==
    LET fs == x.fs  e == x.e IN
    CASE e.k = "VCALL" -> On([fs EXCEPT !.code[e.info + 1].c = nresults + 1], e)
      [] e.k = "VVARARG" ->
           On(luaK_reserveregs([fs EXCEPT !.code[e.info + 1].b = nresults + 1,
                                          !.code[e.info + 1].a = fs.freereg], 1), e)
      [] OTHER -> x

luaK_setmultret(x) == luaK_setreturns(x, -1)

luaK_setoneret(x) ==
    LET fs == x.fs  e == x.e IN
    CASE e.k = "VCALL"   -> InRegister(fs, e, Instr(fs, e.info).a)
      [] e.k = "VVARARG" -> On([fs EXCEPT !.code[e.info + 1].b = 2], [e EXCEPT !.k = "VRELOCABLE"])
      [] OTHER -> x

-----------------------------------------------------------------------------
(* Moving the value of an expression into a register. *)

luaK_dischargevars(x) ==
    LET fs == x.fs  e == x.e IN
    CASE e.k = "VLOCAL"   -> InRegister(fs, e, e.info)
      [] e.k = "VUPVAL"   -> Relocable(luaK_codeABC(fs, "GETUPVAL", 0, e.info, 0), e)
      [] e.k = "VGLOBAL"  -> Relocable(luaK_codeABx(fs, "GETGLOBAL", 0, e.info), e)
      [] e.k = "VINDEXED" ->
           Relocable(luaK_codeABC(freereg(freereg(fs, e.aux), e.info),
                                  "GETTABLE", 0, e.info, e.aux), e)
      [] OTHER -> luaK_setoneret(x)

discharge2reg(x, reg) ==
    LET d == luaK_dischargevars(x)  fs == d.fs  e == d.e IN
    CASE e.k = "VNIL" -> InRegister(luaK_nil(fs, reg, 1), e, reg)
      [] e.k \in {"VFALSE", "VTRUE"} ->
           InRegister(luaK_codeABC(fs, "LOADBOOL", reg, IF e.k = "VTRUE" THEN 1 ELSE 0, 0), e, reg)
      [] e.k = "VK" -> InRegister(luaK_codeABx(fs, "LOADK", reg, e.info), e, reg)
      [] e.k = "VKNUM" ->
           LET g == addk(fs, KOf(e))
           IN InRegister(luaK_codeABx(g, "LOADK", reg, KIndex(g, KOf(e))), e, reg)
      [] e.k = "VRELOCABLE" -> InRegister([fs EXCEPT !.code[e.info + 1].a = reg], e, reg)
      [] e.k = "VNONRELOC" ->
           InRegister(IF reg = e.info THEN fs ELSE luaK_codeABC(fs, "MOVE", reg, e.info, 0), e, reg)
      [] OTHER -> On(lua_assert(fs, e.k \in {"VVOID", "VJMP"}), e)

discharge2anyreg(x) ==
    IF x.e.k = "VNONRELOC" THEN x
    ELSE LET g == luaK_reserveregs(x.fs, 1) IN discharge2reg(On(g, x.e), g.freereg - 1)

(* A jumping expression gets its value at a common end: jumps that carry   *)
(* it (TESTSET) go there, the others pass through LOADBOOLs.               *)
exp2reg(x, reg) ==
    LET d  == discharge2reg(x, reg)
        k  == d.e.k
        f1 == IF k = "VJMP" THEN luaK_concat(d.fs, d.e.t, d.e.info) ELSE d.fs
        t  == IF k = "VJMP" THEN Joined(d.e.t, d.e.info) ELSE d.e.t
        fj == luaK_jump(f1)
        f2 == IF k = "VJMP" THEN f1 ELSE fj
        label(fs, b, skip) == luaK_codeABC(luaK_getlabel(fs), "LOADBOOL", reg, b, skip)
        f3 == luaK_patchtohere(label(label(f2, 0, 1), 1, 0), IF k = "VJMP" THEN NO_JUMP ELSE LastPc(fj))
        loads == need_value(f1, t) \/ need_value(f1, d.e.f)
        f4 == luaK_getlabel(IF loads THEN f3 ELSE f1)
        p_f == IF loads THEN Pc(f2) ELSE NO_JUMP
        p_t == IF loads THEN Pc(f2) + 1 ELSE NO_JUMP
        f5 == patchlistaux(patchlistaux(f4, d.e.f, Pc(f4), reg, p_f), t, Pc(f4), reg, p_t)
    IN On(IF t # d.e.f THEN f5 ELSE f1, init_exp("VNONRELOC", reg))

luaK_exp2nextreg(x) ==
    LET d == luaK_dischargevars(x)
        g == luaK_reserveregs(freeexp(d.fs, d.e), 1)
    IN exp2reg(On(g, d.e), g.freereg - 1)

luaK_exp2anyreg(x) ==
    LET d == luaK_dischargevars(x) IN
    IF d.e.k = "VNONRELOC" /\ ~hasjumps(d.e) THEN d
    ELSE IF d.e.k = "VNONRELOC" /\ d.e.info >= d.fs.nactvar THEN exp2reg(d, d.e.info)
    ELSE luaK_exp2nextreg(d)

luaK_exp2val(x) == IF hasjumps(x.e) THEN luaK_exp2anyreg(x) ELSE luaK_dischargevars(x)

(* The operand the instruction names is RK of the resulting expression. *)
luaK_exp2RK(x) ==
    LET v == luaK_exp2val(x)  e == v.e IN
    IF e.k \in {"VKNUM", "VTRUE", "VFALSE", "VNIL"} /\ Len(v.fs.k) <= MAXINDEXRK
    THEN LET g == addk(v.fs, KOf(e))
         IN On(g, [e EXCEPT !.k = "VK", !.info = KIndex(g, KOf(e))])
    ELSE IF e.k = "VK" /\ e.info <= MAXINDEXRK THEN v
    ELSE luaK_exp2anyreg(v)

luaK_storevar(x, var) ==
    LET any == luaK_exp2anyreg(x)
        rk  == luaK_exp2RK(x)
    IN CASE var.k = "VLOCAL"   -> exp2reg(On(freeexp(x.fs, x.e), x.e), var.info).fs
         [] var.k = "VUPVAL"   ->
              freeexp(luaK_codeABC(any.fs, "SETUPVAL", any.e.info, var.info, 0), any.e)
         [] var.k = "VGLOBAL"  ->
              freeexp(luaK_codeABx(any.fs, "SETGLOBAL", any.e.info, var.info), any.e)
         [] var.k = "VINDEXED" ->
              freeexp(luaK_codeABC(rk.fs, "SETTABLE", var.info, var.aux, RK(rk.e)), rk.e)
         [] OTHER -> freeexp(lua_assert(x.fs, FALSE), x.e)

luaK_self(x, key) ==
    LET o    == luaK_exp2anyreg(x)
        g    == freeexp(o.fs, o.e)
        func == g.freereg
        kx   == luaK_exp2RK(On(luaK_reserveregs(g, 2), key))
    IN InRegister(freeexp(luaK_codeABC(kx.fs, "SELF", func, o.e.info, RK(kx.e)), kx.e), o.e, func)

luaK_indexed(x, key) ==
    LET kx == luaK_exp2RK(On(x.fs, key))
    IN On(kx.fs, [x.e EXCEPT !.aux = RK(kx.e), !.k = "VINDEXED"])

-----------------------------------------------------------------------------
(* Conditions. *)

invertjump(x) ==
    LET at == getjumpcontrol(x.fs, x.e.info) IN
    [lua_assert(x.fs, Instr(x.fs, at).op \in {"EQ", "LT", "LE", "TFORLOOP"})
     EXCEPT !.code[at + 1].a = 1 - @]

jumponcond(x, cond) ==
    LET ie == Instr(x.fs, x.e.info)
        r  == discharge2anyreg(x)
    IN IF x.e.k = "VRELOCABLE" /\ ie.op = "NOT"
       THEN condjump([x.fs EXCEPT !.code = SubSeq(@, 1, Len(@) - 1)], "TEST", ie.b, 0, 1 - cond)
       ELSE condjump(freeexp(r.fs, r.e), "TESTSET", NO_REG, r.e.info, cond)

luaK_goiftrue(x) ==
    LET d == luaK_dischargevars(x)
        g == CASE d.e.k \in {"VK", "VKNUM", "VTRUE"} -> d.fs
               [] d.e.k = "VJMP" -> invertjump(d)
               [] OTHER -> jumponcond(d, 0)
        pc == CASE d.e.k \in {"VK", "VKNUM", "VTRUE"} -> NO_JUMP
                [] d.e.k = "VJMP" -> d.e.info
                [] OTHER -> LastPc(g)
    IN On(luaK_patchtohere(luaK_concat(g, d.e.f, pc), d.e.t),
          [d.e EXCEPT !.f = Joined(@, pc), !.t = NO_JUMP])

luaK_goiffalse(x) ==
    LET d == luaK_dischargevars(x)
        g == IF d.e.k \in {"VNIL", "VFALSE", "VJMP"} THEN d.fs ELSE jumponcond(d, 1)
        pc == CASE d.e.k \in {"VNIL", "VFALSE"} -> NO_JUMP
                [] d.e.k = "VJMP" -> d.e.info
                [] OTHER -> LastPc(g)
    IN On(luaK_patchtohere(luaK_concat(g, d.e.t, pc), d.e.f),
          [d.e EXCEPT !.t = Joined(@, pc), !.f = NO_JUMP])

codenot(x) ==
    LET d == luaK_dischargevars(x)
        r == discharge2anyreg(d)
        n == CASE d.e.k \in {"VNIL", "VFALSE"} -> On(d.fs, [d.e EXCEPT !.k = "VTRUE"])
               [] d.e.k \in {"VK", "VKNUM", "VTRUE"} -> On(d.fs, [d.e EXCEPT !.k = "VFALSE"])
               [] d.e.k = "VJMP" -> On(invertjump(d), d.e)
               [] d.e.k \in {"VRELOCABLE", "VNONRELOC"} ->
                    Relocable(luaK_codeABC(freeexp(r.fs, r.e), "NOT", 0, r.e.info, 0), r.e)
               [] OTHER -> On(lua_assert(d.fs, FALSE), d.e)
    IN On(removevalues(removevalues(n.fs, n.e.t), n.e.f), [n.e EXCEPT !.t = n.e.f, !.f = n.e.t])

-----------------------------------------------------------------------------
(* Operators. *)

constfolding(op, e1, e2) ==
    /\ isnumeral(e1) /\ isnumeral(e2)
    /\ op \in {"DIV", "MOD"} => e2.info # 0
    /\ op # "LEN"

codearith(x, op, e2) ==
    LET x2 == IF op \in {"UNM", "LEN"} THEN On(x.fs, [e2 EXCEPT !.info = 0])
              ELSE luaK_exp2RK(On(x.fs, e2))
        x1 == luaK_exp2RK(On(x2.fs, x.e))
        o1 == RK(x1.e)
        o2 == RK(x2.e)
        fs == IF o1 > o2 THEN freeexp(freeexp(x1.fs, x1.e), x2.e)
              ELSE freeexp(freeexp(x1.fs, x2.e), x1.e)
    IN IF constfolding(op, x.e, e2) THEN [x EXCEPT !.e.info = luai_num(op, @, e2.info)]
       ELSE Relocable(luaK_codeABC(fs, op, 0, o1, o2), x1.e)

codecomp(x, op, cond, e2) ==
    LET x1 == luaK_exp2RK(x)
        x2 == luaK_exp2RK(On(x1.fs, e2))
        fs == freeexp(freeexp(x2.fs, x2.e), x1.e)
        j  == IF cond = 0 /\ op # "EQ" THEN condjump(fs, op, 1, RK(x2.e), RK(x1.e))
              ELSE condjump(fs, op, cond, RK(x1.e), RK(x2.e))
    IN On(j, [x1.e EXCEPT !.k = "VJMP", !.info = LastPc(j)])

luaK_prefix(x, op) ==
    CASE op = "-"   -> codearith(IF isnumeral(x.e) THEN x ELSE luaK_exp2anyreg(x), "UNM", init_exp("VKNUM", 0))
      [] op = "not" -> codenot(x)
      [] op = "#"   -> codearith(luaK_exp2anyreg(x), "LEN", init_exp("VKNUM", 0))

luaK_infix(x, op) ==
    CASE op = "and" -> luaK_goiftrue(x)
      [] op = "or"  -> luaK_goiffalse(x)
      [] op = ".."  -> luaK_exp2nextreg(x)
      [] op \in {"+", "-", "*", "/", "%", "^"} -> IF isnumeral(x.e) THEN x ELSE luaK_exp2RK(x)
      [] OTHER -> luaK_exp2RK(x)

OpcodeOf == [o \in {"+", "-", "*", "/", "%", "^"} |->
    CASE o = "+" -> "ADD" [] o = "-" -> "SUB" [] o = "*" -> "MUL"
      [] o = "/" -> "DIV" [] o = "%" -> "MOD" [] o = "^" -> "POW"]

(* Operands of .. stand in consecutive registers, so a chain of them is    *)
(* one instruction.                                                        *)
codeconcat(x, e2) ==
    LET v == luaK_exp2val(On(x.fs, e2))
        n == luaK_exp2nextreg(v)
    IN IF v.e.k = "VRELOCABLE" /\ Instr(v.fs, v.e.info).op = "CONCAT"
       THEN On([freeexp(lua_assert(v.fs, x.e.info = Instr(v.fs, v.e.info).b - 1), x.e)
                EXCEPT !.code[v.e.info + 1].b = x.e.info],
               [x.e EXCEPT !.k = "VRELOCABLE", !.info = v.e.info])
       ELSE codearith(On(n.fs, x.e), "CONCAT", n.e)

luaK_posfix(x, op, e2) ==
    LET d == luaK_dischargevars(On(x.fs, e2)) IN
    CASE op = "and" -> On(luaK_concat(lua_assert(d.fs, x.e.t = NO_JUMP), d.e.f, x.e.f),
                          [d.e EXCEPT !.f = Joined(@, x.e.f)])
      [] op = "or"  -> On(luaK_concat(lua_assert(d.fs, x.e.f = NO_JUMP), d.e.t, x.e.t),
                          [d.e EXCEPT !.t = Joined(@, x.e.t)])
      [] op = ".."  -> codeconcat(x, e2)
      [] op = "=="  -> codecomp(x, "EQ", 1, e2)
      [] op = "~="  -> codecomp(x, "EQ", 0, e2)
      [] op = "<"   -> codecomp(x, "LT", 1, e2)
      [] op = "<="  -> codecomp(x, "LE", 1, e2)
      [] op = ">"   -> codecomp(x, "LT", 0, e2)
      [] op = ">="  -> codecomp(x, "LE", 0, e2)
      [] OTHER      -> codearith(x, OpcodeOf[op], e2)
===========================================================================
