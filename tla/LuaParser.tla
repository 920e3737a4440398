---------------------------- MODULE LuaParser ----------------------------
(***************************************************************************)
(* The parser (lparser.c).  It reads tokens <<kind, seminfo>> and drives   *)
(* the code generator in one pass.  The parser's state S is a record: the  *)
(* tokens, the position of the current one, the line of the last token     *)
(* read (linenumber) and of the last one consumed (lastline), whether one  *)
(* token was read ahead, the functions under construction (innermost       *)
(* last), the depth of syntax levels, and the error that ends the parse.   *)
(* A rule returns S, or a pair r = [s, e] with the expression it read.     *)
(* After an error every token reads as "error", which no rule accepts.     *)
(***************************************************************************)
EXTENDS LuaCode

CONSTANTS LUAI_MAXVARS, LUAI_MAXUPVALUES, LUAI_MAXCCALLS

ASSUME LimitsAssumption ==
    {MAXSTACK, LUAI_MAXVARS, LUAI_MAXUPVALUES, LUAI_MAXCCALLS} \subseteq Nat

Error(S, msg) == IF S.err = "" THEN [S EXCEPT !.err = msg] ELSE S

Cur(S) == S.fs[Len(S.fs)]
WithFs(S, fs) == Error([S EXCEPT !.fs[Len(S.fs)] = fs], fs.err)

(* Apply an operator of the code generator to the innermost function.      *)
Do(S, f(_)) == WithFs(S, f(Cur(S)))
Gen(r, f(_)) ==
    LET x == f(On(Cur(r.s), r.e)) IN [s |-> WithFs(r.s, x.fs), e |-> x.e]
Pair(S, e) == [s |-> S, e |-> e]

-----------------------------------------------------------------------------
(* Tokens. *)

TokenAt(S, pos) == IF S.err # "" THEN <<"error", "">>
                   ELSE IF pos > Len(S.toks) THEN <<"eos", "">> ELSE S.toks[pos]
Tok(S) == TokenAt(S, S.pos)[1]
Sem(S) == TokenAt(S, S.pos)[2]
LineOf(S, pos) == IF pos >= S.newline THEN 2 ELSE 1


luaX_next(S) ==
    [S EXCEPT !.pos = @ + 1, !.lastline = S.linenumber, !.ahead = FALSE,
              !.linenumber = IF S.ahead THEN @ ELSE LineOf(S, S.pos + 1)]

luaX_lookahead(S) == [S EXCEPT !.ahead = TRUE, !.linenumber = LineOf(S, S.pos + 1)]

testnext(S, c) == IF Tok(S) = c THEN luaX_next(S) ELSE S
check(S, c) == IF Tok(S) = c THEN S ELSE Error(S, "syntax error")
checknext(S, c) == luaX_next(check(S, c))

-----------------------------------------------------------------------------
(* Variables.  actvar names the active variables of a function, locvars    *)
(* is their debug information.                                             *)

(* The n-th of the variables about to become active. *)
new_localvar(S, name, n) ==
    IF Cur(S).nactvar + n + 1 > LUAI_MAXVARS THEN Error(S, "too many local variables")
    ELSE Do(S, LAMBDA fs :
           [fs EXCEPT !.locvars = Append(@, [name |-> name, startpc |-> 0, endpc |-> 0]),
                      !.actvar = Append(SubSeq(@, 1, fs.nactvar + n), Len(fs.locvars) + 1)])

VarName(fs, i) == fs.locvars[fs.actvar[i]].name

AdjustVars(fs, nvars) ==
    LET n == IF fs.err = "" THEN fs.nactvar + nvars ELSE fs.nactvar IN
    [fs EXCEPT !.nactvar = n,
               !.locvars = [v \in DOMAIN @ |->
                   IF \E i \in fs.nactvar + 1 .. n : fs.actvar[i] = v
                   THEN [@[v] EXCEPT !.startpc = Pc(fs)] ELSE @[v]]]

adjustlocalvars(S, nvars) ==
    IF S.err # "" THEN S ELSE Do(S, LAMBDA fs : AdjustVars(fs, nvars))

removevars(fs, tolevel) ==
    [fs EXCEPT !.nactvar = tolevel,
               !.locvars = [v \in DOMAIN @ |->
                   IF \E i \in tolevel + 1 .. fs.nactvar : fs.actvar[i] = v
                   THEN [@[v] EXCEPT !.endpc = Pc(fs)] ELSE @[v]]]

(* Where an upvalue is found is known by its kind and index. *)
UpvalueIndexes(fs, e) ==
    {i \in DOMAIN fs.upvalues : fs.upvalues[i].k = e.k /\ fs.upvalues[i].info = e.info}

indexupvalue(fs, n, e) ==
    IF UpvalueIndexes(fs, e) # {}
    THEN lua_assert(fs, \A i \in UpvalueIndexes(fs, e) : fs.upvalues[i].name = n)
    ELSE LET g == lua_assert(fs, e.k \in {"VLOCAL", "VUPVAL"})
         IN [(IF Len(fs.upvalues) + 1 > LUAI_MAXUPVALUES THEN Fail(g, "too many upvalues") ELSE g)
             EXCEPT !.upvalues = Append(@, [k |-> e.k, info |-> e.info, name |-> n])]

searchvar(fs, n) ==
    LET found == {i \in 1 .. fs.nactvar : VarName(fs, i) = n}
    IN IF found = {} THEN -1 ELSE (CHOOSE i \in found : \A j \in found : j <= i) - 1

(* The innermost block that declares a variable is told that a closure     *)
(* will refer to it.                                                       *)
markupval(fs, level) ==
    LET around == {i \in DOMAIN fs.bl : fs.bl[i].nactvar <= level}
    IN IF around = {} THEN fs
       ELSE [fs EXCEPT !.bl[CHOOSE i \in around : \A j \in around : j <= i].upval = TRUE]

RECURSIVE singlevaraux(_, _, _, _)
singlevaraux(S, level, n, base) ==
    IF level = 0 THEN Pair(S, init_exp("VGLOBAL", NO_REG))
    ELSE LET v == searchvar(S.fs[level], n)
             r == singlevaraux(S, level - 1, n, FALSE)
             g == indexupvalue(r.s.fs[level], n, r.e)
         IN IF v >= 0
            THEN Pair(IF base THEN S ELSE [S EXCEPT !.fs[level] = markupval(@, v)], init_exp("VLOCAL", v))
            ELSE IF r.e.k = "VGLOBAL" THEN r
            ELSE Pair(Error([r.s EXCEPT !.fs[level] = g], g.err),
                      init_exp("VUPVAL", (CHOOSE i \in UpvalueIndexes(g, r.e) : TRUE) - 1))

codestring(S, s) ==
    LET T == Do(S, LAMBDA fs : addk(fs, KString(s)))
    IN Pair(T, init_exp("VK", KIndex(Cur(T), KString(s))))

checkname(S) == LET r == codestring(check(S, "name"), Sem(S)) IN Pair(luaX_next(r.s), r.e)

singlevar(S) ==
    LET n == Sem(S)
        r == singlevaraux(luaX_next(check(S, "name")), Len(S.fs), n, TRUE)
        k == codestring(r.s, n)
    IN IF r.e.k = "VGLOBAL" THEN Pair(k.s, [r.e EXCEPT !.info = k.e.info]) ELSE r

(* Registers for nvars variables from the values of nexps expressions, the *)
(* last of which is r.e.                                                   *)
adjust_assign(r, nvars, nexps) ==
    LET extra == nvars - nexps
        multi == IF extra + 1 < 0 THEN 0 ELSE extra + 1
        m == Gen(r, LAMBDA x : luaK_setreturns(x, multi)).s
        c == IF r.e.k = "VVOID" THEN r.s ELSE Gen(r, luaK_exp2nextreg).s
    IN CASE hasmultret(r.e.k) ->
              IF multi > 1 THEN Do(m, LAMBDA fs : luaK_reserveregs(fs, multi - 1)) ELSE m
         [] extra > 0 /\ ~hasmultret(r.e.k) ->
              Do(c, LAMBDA fs : luaK_nil(luaK_reserveregs(fs, extra), fs.freereg, extra))
         [] OTHER -> c

-----------------------------------------------------------------------------
(* Levels, blocks and functions. *)

enterlevel(S) ==
    LET T == [S EXCEPT !.level = @ + 1]
    IN IF T.level > LUAI_MAXCCALLS THEN Error(T, "chunk has too many syntax levels") ELSE T
leavelevel(S) == [S EXCEPT !.level = @ - 1]

enterblock(S, isbreakable) ==
    Do(S, LAMBDA fs :
      [lua_assert(fs, fs.freereg = fs.nactvar) EXCEPT
         !.bl = Append(@, [breaklist |-> NO_JUMP, nactvar |-> fs.nactvar,
                           upval |-> FALSE, isbreakable |-> isbreakable])])

CloseBlock(fs) ==
    LET bl == fs.bl[Len(fs.bl)]
        g  == removevars([fs EXCEPT !.bl = SubSeq(@, 1, Len(@) - 1)], bl.nactvar)
        h  == IF bl.upval THEN luaK_codeABC(g, "CLOSE", bl.nactvar, 0, 0) ELSE g
    IN luaK_patchtohere([lua_assert(h, ~bl.isbreakable \/ ~bl.upval) EXCEPT !.freereg = h.nactvar],
                        bl.breaklist)

leaveblock(S) == Do(S, CloseBlock)

(* The words after CLOSURE say where each upvalue of the closure is. *)
pushclosure(S, f, upvalues) ==
    LET closure(fs) == luaK_codeABx(fs, "CLOSURE", 0, Len(fs.p) - 1)
        RECURSIVE ups(_, _)
        ups(fs, i) == IF i > f.nups THEN fs
                      ELSE ups(luaK_codeABC(fs, IF upvalues[i].k = "VLOCAL" THEN "MOVE" ELSE "GETUPVAL",
                                            0, upvalues[i].info, 0), i + 1)
        grown(fs) == [(IF Len(fs.p) >= MAXARG_Bx THEN Fail(fs, "constant table overflow") ELSE fs)
                      EXCEPT !.p = Append(@, f)]
        pc == LastPc(closure(grown(Cur(S))))
    IN Pair(Do(S, LAMBDA fs : ups(closure(grown(fs)), 1)), init_exp("VRELOCABLE", pc))

(* is_vararg is the set of its flags. *)
NewFunc == [source |-> "chunk", code |-> <<>>, k |-> <<>>, p |-> <<>>, upvalues |-> <<>>, locvars |-> <<>>,
            actvar |-> <<>>, nactvar |-> 0, freereg |-> 0, jpc |-> NO_JUMP, lasttarget |-> -1,
            maxstacksize |-> 2, numparams |-> 0, is_vararg |-> {}, bl |-> <<>>, err |-> "", ok |-> TRUE]

open_func(S) == [S EXCEPT !.fs = Append(@, NewFunc)]

Finish(fs) == LET g == luaK_ret(removevars(fs, 0), 0, 0) IN lua_assert(g, g.bl = <<>>)

(* What remains of a function when it is closed. *)
Proto(fs) == [source |-> fs.source, code |-> fs.code, k |-> fs.k, p |-> fs.p,
              nups |-> Len(fs.upvalues), upvalues |-> [i \in DOMAIN fs.upvalues |-> fs.upvalues[i].name],
              locvars |-> fs.locvars, maxstacksize |-> fs.maxstacksize,
              numparams |-> fs.numparams, is_vararg |-> fs.is_vararg]

(* The assertions of a closed function are kept with its parent's. *)
close_func(S) ==
    LET g == Finish(Cur(S))
        T == Error([S EXCEPT !.fs = SubSeq(@, 1, Len(@) - 1)], g.err)
    IN [s |-> IF T.fs = <<>> THEN [T EXCEPT !.ok = g.ok] ELSE Do(T, LAMBDA fs : lua_assert(fs, g.ok)),
        f |-> Proto(g), upvalues |-> g.upvalues]

-----------------------------------------------------------------------------
(* Expressions.  explist1 returns also the number n of expressions,        *)
(* subexpr the first operator it did not treat.                            *)

priority == [o \in {"+", "-", "*", "/", "%", "^", "..", "~=", "==", "<", "<=", ">", ">=", "and", "or"} |->
    CASE o \in {"+", "-"}      -> [left |-> 6, right |-> 6]
      [] o \in {"*", "/", "%"} -> [left |-> 7, right |-> 7]
      [] o = "^"               -> [left |-> 10, right |-> 9]
      [] o = ".."              -> [left |-> 5, right |-> 4]
      [] o = "and"             -> [left |-> 2, right |-> 2]
      [] o = "or"              -> [left |-> 1, right |-> 1]
      [] OTHER                 -> [left |-> 3, right |-> 3]]

UNARY_PRIORITY == 8

RECURSIVE subexpr(_, _), chunk(_), body(_, _), explist1(_), constructor(_)

expr(S) == LET r == subexpr(S, 0) IN Pair(r.s, r.e)

field(r) ==
    LET v == Gen(r, luaK_exp2anyreg)
        k == checkname(luaX_next(v.s))
    IN Gen(Pair(k.s, v.e), LAMBDA x : luaK_indexed(x, k.e))

yindex(S) ==
    LET r == Gen(expr(luaX_next(S)), luaK_exp2val) IN Pair(checknext(r.s, "]"), r.e)

funcargs(r) ==
    LET line == r.s.linenumber
        open == luaX_next(IF line # r.s.lastline
                          THEN Error(r.s, "ambiguous syntax (function call x new statement)") ELSE r.s)
        void == init_exp("VVOID", 0)
        inner == IF Tok(open) = ")" THEN Pair(open, void)
                 ELSE LET l == explist1(open) IN Gen(Pair(l.s, l.e), luaK_setmultret)
        str  == codestring(r.s, Sem(r.s))
        args == CASE Tok(r.s) = "("   -> Pair(checknext(inner.s, ")"), inner.e)
                  [] Tok(r.s) = "{"   -> constructor(r.s)
                  [] Tok(r.s) = "str" -> Pair(luaX_next(str.s), str.e)
                  [] OTHER            -> Pair(Error(r.s, "function arguments expected"), void)
        open_call == hasmultret(args.e.k)
        closed == IF open_call \/ args.e.k = "VVOID" THEN args.s ELSE Gen(args, luaK_exp2nextreg).s
        base == r.e.info
        call(fs) == luaK_codeABC(lua_assert(fs, r.e.k = "VNONRELOC"), "CALL", base,
                                 IF open_call THEN 0 ELSE fs.freereg - base, 2)
        done == Do(closed, LAMBDA fs : [call(fs) EXCEPT !.freereg = base + 1])
    IN Pair(done, init_exp("VCALL", LastPc(Cur(done))))

prefixexp(S) ==
    CASE Tok(S) = "(" ->
           LET r == expr(luaX_next(S))
           IN Gen(Pair(checknext(r.s, ")"), r.e), luaK_dischargevars)
      [] Tok(S) = "name" -> singlevar(S)
      [] OTHER -> Pair(Error(S, "unexpected symbol"), init_exp("VVOID", 0))

RECURSIVE Suffixed(_)
Suffixed(r) ==
    CASE Tok(r.s) = "." -> Suffixed(field(r))
      [] Tok(r.s) = "[" ->
           LET v == Gen(r, luaK_exp2anyreg)
               k == yindex(v.s)
           IN Suffixed(Gen(Pair(k.s, v.e), LAMBDA x : luaK_indexed(x, k.e)))
      [] Tok(r.s) = ":" ->
           LET k == checkname(luaX_next(r.s))
           IN Suffixed(funcargs(Gen(Pair(k.s, r.e), LAMBDA x : luaK_self(x, k.e))))
      [] Tok(r.s) \in {"(", "str", "{"} -> Suffixed(funcargs(Gen(r, luaK_exp2nextreg)))
      [] OTHER -> r

primaryexp(S) == Suffixed(prefixexp(S))

(* `...' is known to be used, so the function needs no table `arg'. *)
vararg(S) ==
    LET T == IF Cur(S).is_vararg = {} THEN Error(S, "cannot use `...' outside a vararg function") ELSE S
        U == Do(T, LAMBDA fs : luaK_codeABC([fs EXCEPT !.is_vararg = @ \ {"NEEDSARG"}], "VARARG", 0, 1, 0))
    IN Pair(U, init_exp("VVARARG", LastPc(Cur(U))))

simpleexp(S) ==
    LET next(r) == Pair(luaX_next(r.s), r.e) IN
    CASE Tok(S) = "num"      -> next(Pair(S, init_exp("VKNUM", Sem(S))))
      [] Tok(S) = "str"      -> next(codestring(S, Sem(S)))
      [] Tok(S) = "nil"      -> next(Pair(S, init_exp("VNIL", 0)))
      [] Tok(S) = "true"     -> next(Pair(S, init_exp("VTRUE", 0)))
      [] Tok(S) = "false"    -> next(Pair(S, init_exp("VFALSE", 0)))
      [] Tok(S) = "..."      -> next(vararg(S))
      [] Tok(S) = "{"        -> constructor(S)
      [] Tok(S) = "function" -> body(luaX_next(S), FALSE)
      [] OTHER               -> primaryexp(S)

RECURSIVE Operators(_, _)
Operators(r, limit) ==
    LET op == r.op
        i  == Gen(Pair(luaX_next(r.s), r.e), LAMBDA x : luaK_infix(x, op))
        v2 == subexpr(i.s, priority[op].right)
        p  == Gen(Pair(v2.s, i.e), LAMBDA x : luaK_posfix(x, op, v2.e))
    IN IF op \in DOMAIN priority /\ priority[op].left > limit
       THEN Operators([s |-> p.s, e |-> p.e, op |-> v2.op], limit)
       ELSE r

subexpr(S, limit) ==
    LET T   == enterlevel(S)
        uop == Tok(T)
        u   == subexpr(luaX_next(T), UNARY_PRIORITY)
        v   == IF uop \in {"not", "-", "#"} THEN Gen(Pair(u.s, u.e), LAMBDA x : luaK_prefix(x, uop))
               ELSE simpleexp(T)
        r   == Operators([s |-> v.s, e |-> v.e, op |-> Tok(v.s)], limit)
    IN [r EXCEPT !.s = leavelevel(@)]

RECURSIVE MoreExprs(_)
MoreExprs(r) ==
    IF Tok(r.s) # "," THEN r
    ELSE LET e == expr(Gen(Pair(luaX_next(r.s), r.e), luaK_exp2nextreg).s)
         IN MoreExprs([s |-> e.s, e |-> e.e, n |-> r.n + 1])

explist1(S) == LET r == expr(S) IN MoreExprs([s |-> r.s, e |-> r.e, n |-> 1])

-----------------------------------------------------------------------------
(* Constructors.  cc = [s, v, t, na, tostore]: the last list item read, the*)
(* table's register, the items so far and those not yet stored.  The sizes *)
(* that NEWTABLE preallocates are left out.                                *)

recfield(cc) ==
    LET S   == cc.s
        reg == Cur(S).freereg
        key == IF Tok(S) = "name" THEN checkname(S) ELSE yindex(S)
        k   == Gen(Pair(checknext(key.s, "="), key.e), luaK_exp2RK)
        v   == Gen(expr(k.s), luaK_exp2RK)
    IN [cc EXCEPT !.s = Do(v.s, LAMBDA fs :
           [luaK_codeABC(fs, "SETTABLE", cc.t, RK(k.e), RK(v.e)) EXCEPT !.freereg = reg])]

closelistfield(cc) ==
    LET r == Gen(Pair(cc.s, cc.v), luaK_exp2nextreg)
        flushed == Do(r.s, LAMBDA fs : luaK_setlist(fs, cc.t, cc.na, cc.tostore))
    IN IF cc.v.k = "VVOID" THEN cc
       ELSE IF cc.tostore = LFIELDS_PER_FLUSH
       THEN [cc EXCEPT !.s = flushed, !.v.k = "VVOID", !.tostore = 0]
       ELSE [cc EXCEPT !.s = r.s, !.v.k = "VVOID"]

lastlistfield(cc) ==
    LET m == Gen(Pair(cc.s, cc.v), luaK_setmultret)
        r == IF cc.v.k = "VVOID" THEN Pair(cc.s, cc.v) ELSE Gen(Pair(cc.s, cc.v), luaK_exp2nextreg)
    IN IF cc.tostore = 0 THEN cc.s
       ELSE IF hasmultret(cc.v.k) THEN Do(m.s, LAMBDA fs : luaK_setlist(fs, cc.t, cc.na, -1))
       ELSE Do(r.s, LAMBDA fs : luaK_setlist(fs, cc.t, cc.na, cc.tostore))

listfield(cc) ==
    LET r == expr(cc.s)
    IN [cc EXCEPT !.s = r.s, !.v = r.e, !.na = @ + 1, !.tostore = @ + 1]

RECURSIVE Items(_)
Items(cc) ==
    LET ok  == [cc EXCEPT !.s = Do(@, LAMBDA fs : lua_assert(fs, cc.v.k = "VVOID" \/ cc.tostore > 0))]
        cl  == closelistfield(ok)
        la  == [cl EXCEPT !.s = luaX_lookahead(@)]
        one == CASE Tok(cl.s) = "name" ->
                      IF TokenAt(la.s, la.s.pos + 1)[1] = "=" THEN recfield(la) ELSE listfield(la)
                 [] Tok(cl.s) = "[" -> recfield(cl)
                 [] OTHER -> listfield(cl)
    IN IF Tok(cc.s) = "}" THEN ok
       ELSE IF Tok(one.s) \in {",", ";"} THEN Items([one EXCEPT !.s = luaX_next(@)])
       ELSE one

constructor(S) ==
    LET T  == Do(S, LAMBDA fs : luaK_codeABC(fs, "NEWTABLE", 0, 0, 0))
        t  == Gen(Pair(T, init_exp("VRELOCABLE", LastPc(Cur(T)))), luaK_exp2nextreg)
        cc == Items([s |-> checknext(t.s, "{"), v |-> init_exp("VVOID", 0),
                     t |-> t.e.info, na |-> 0, tostore |-> 0])
    IN Pair(lastlistfield([cc EXCEPT !.s = checknext(@, "}")]), t.e)

-----------------------------------------------------------------------------
(* Functions. *)

RECURSIVE Params(_, _)
Params(S, n) ==
    CASE Tok(S) = "name" ->
           LET T == luaX_next(new_localvar(S, Sem(S), n))
           IN IF Tok(T) = "," THEN Params(luaX_next(T), n + 1) ELSE [s |-> T, n |-> n + 1]
      [] Tok(S) = "..." ->
           [s |-> Do(new_localvar(luaX_next(S), "arg", n), LAMBDA fs :
                       [fs EXCEPT !.is_vararg = {"HASARG", "NEEDSARG", "ISVARARG"}]),
            n |-> n + 1]
      [] OTHER -> [s |-> Error(S, "<name> or `...' expected"), n |-> n]

parlist(S) ==
    LET ps == IF Tok(S) = ")" THEN [s |-> S, n |-> 0] ELSE Params(S, 0)
    IN Do(adjustlocalvars(ps.s, ps.n), LAMBDA fs :
            luaK_reserveregs([fs EXCEPT !.numparams =
                                 fs.nactvar - (IF "HASARG" \in fs.is_vararg THEN 1 ELSE 0)], fs.nactvar))

body(S, needself) ==
    LET o == checknext(open_func(S), "(")
        p == parlist(IF needself THEN adjustlocalvars(new_localvar(o, "self", 0), 1) ELSE o)
        c == close_func(checknext(chunk(checknext(p, ")")), "end"))
    IN pushclosure(c.s, c.f, c.upvalues)

-----------------------------------------------------------------------------
(* Statements. *)

block_follow(t) == t \in {"else", "elseif", "end", "until", "eos", "error"}

block(S) ==
    LET T == chunk(enterblock(S, FALSE))
        bl == Cur(T).bl
    IN leaveblock(Do(T, LAMBDA fs : lua_assert(fs, bl[Len(bl)].breaklist = NO_JUMP)))

Jump(S) == Do(S, luaK_jump)
PatchToHere(S, list) == Do(S, LAMBDA fs : luaK_patchtohere(fs, list))
PatchList(S, list, target) == Do(S, LAMBDA fs : luaK_patchlist(fs, list, target))

(* Targets to the left of a local variable that is about to be assigned    *)
(* keep using a copy of its value.                                         *)
check_conflict(S, lhs, v) ==
    LET extra == Cur(S).freereg
        uses(w) == w.k = "VINDEXED" /\ (w.info = v.info \/ w.aux = v.info)
        safe(w) == IF w.k # "VINDEXED" THEN w
                   ELSE [w EXCEPT !.info = IF @ = v.info THEN extra ELSE @,
                                  !.aux  = IF @ = v.info THEN extra ELSE @]
    IN IF \E i \in DOMAIN lhs : uses(lhs[i])
       THEN [s |-> Do(S, LAMBDA fs :
                       luaK_reserveregs(luaK_codeABC(fs, "MOVE", fs.freereg, v.info, 0), 1)),
             lhs |-> [i \in DOMAIN lhs |-> safe(lhs[i])]]
       ELSE [s |-> S, lhs |-> lhs]

(* Store the value on the top register into each target, the last first. *)
RECURSIVE StoreAll(_, _)
StoreAll(S, lhs) ==
    IF lhs = <<>> THEN S
    ELSE StoreAll(Do(S, LAMBDA fs : luaK_storevar(On(fs, init_exp("VNONRELOC", fs.freereg - 1)), lhs[Len(lhs)])),
                  SubSeq(lhs, 1, Len(lhs) - 1))

(* lhs: the targets read so far. *)
RECURSIVE assignment(_, _)
assignment(S, lhs) ==
    LET v  == lhs[Len(lhs)]
        T  == IF v.k \in {"VLOCAL", "VUPVAL", "VGLOBAL", "VINDEXED"} THEN S ELSE Error(S, "syntax error")
        nv == primaryexp(luaX_next(T))
        cc == IF nv.e.k = "VLOCAL" THEN check_conflict(nv.s, lhs, nv.e) ELSE [s |-> nv.s, lhs |-> lhs]
        lim == IF Len(lhs) > LUAI_MAXCCALLS - cc.s.level
               THEN Error(cc.s, "too many variables in assignment") ELSE cc.s
        es == explist1(checknext(T, "="))
        x1 == Gen(Pair(es.s, es.e), luaK_setoneret)
        one == Do(x1.s, LAMBDA fs : luaK_storevar(On(fs, x1.e), v))
        many == Do(adjust_assign(Pair(es.s, es.e), Len(lhs), es.n), LAMBDA fs :
                     IF es.n > Len(lhs) THEN [fs EXCEPT !.freereg = @ - (es.n - Len(lhs))] ELSE fs)
    IN IF Tok(T) = "," THEN assignment(lim, Append(cc.lhs, nv.e))
       ELSE IF es.n = Len(lhs) THEN StoreAll(one, SubSeq(lhs, 1, Len(lhs) - 1))
       ELSE StoreAll(many, lhs)

(* The jumps to take when the condition is false. *)
cond(S) ==
    LET r == expr(S)
        v == Gen(IF r.e.k = "VNIL" THEN [r EXCEPT !.e.k = "VFALSE"] ELSE r, luaK_goiftrue)
    IN [s |-> v.s, f |-> v.e.f]

(* Mutant: only the innermost block is asked for upvalues. *)
BreakOutInner(fs) ==
    LET loops == {i \in DOMAIN fs.bl : fs.bl[i].isbreakable}
        l     == CHOOSE i \in loops : \A j \in loops : j <= i
        upval == fs.bl[Len(fs.bl)].upval
        j     == luaK_jump(IF upval THEN luaK_codeABC(fs, "CLOSE", fs.bl[l].nactvar, 0, 0) ELSE fs)
    IN IF loops = {} THEN Fail(fs, "no loop to break")
       ELSE [luaK_concat(j, fs.bl[l].breaklist, LastPc(j))
             EXCEPT !.bl[l].breaklist = Joined(@, LastPc(j))]

BreakOut(fs) ==
    LET loops == {i \in DOMAIN fs.bl : fs.bl[i].isbreakable}
        l     == CHOOSE i \in loops : \A j \in loops : j <= i
        upval == \E i \in l + 1 .. Len(fs.bl) : fs.bl[i].upval
        j     == luaK_jump(IF upval THEN luaK_codeABC(fs, "CLOSE", fs.bl[l].nactvar, 0, 0) ELSE fs)
    IN IF loops = {} THEN Fail(fs, "no loop to break")
       ELSE [luaK_concat(j, fs.bl[l].breaklist, LastPc(j))
             EXCEPT !.bl[l].breaklist = Joined(@, LastPc(j))]

breakstat(S) == Do(S, BreakOut)

whilestat(S) ==
    LET T    == Do(luaX_next(S), luaK_getlabel)
        c    == cond(T)
        b    == Jump(block(checknext(enterblock(c.s, TRUE), "do")))
        back == checknext(PatchList(b, LastPc(Cur(b)), Pc(Cur(T))), "end")
    IN PatchToHere(leaveblock(back), c.f)

(* A scope with upvalues has to be closed before the loop repeats. *)
repeatstat(S) ==
    LET T == Do(S, luaK_getlabel)
        top == Pc(Cur(T))
        c == cond(checknext(chunk(luaX_next(enterblock(enterblock(T, TRUE), FALSE))), "until"))
        bl == Cur(c.s).bl
        j == Jump(leaveblock(PatchToHere(breakstat(c.s), c.f)))
    IN leaveblock(IF ~bl[Len(bl)].upval THEN PatchList(leaveblock(c.s), c.f, top)
                  ELSE PatchList(j, LastPc(Cur(j)), top))

exp1(S) == Gen(expr(S), luaK_exp2nextreg).s

forbody(S, base, nvars, isnum) ==
    LET T == checknext(adjustlocalvars(S, 3), "do")
        P == Do(T, LAMBDA fs : IF isnum THEN luaK_codeABx(fs, "FORPREP", base, NO_JUMP) ELSE luaK_jump(fs))
        prep == LastPc(Cur(P))
        B == Do(adjustlocalvars(enterblock(P, FALSE), nvars), LAMBDA fs : luaK_reserveregs(fs, nvars))
        L == PatchToHere(leaveblock(block(B)), prep)
        E == Do(L, LAMBDA fs : IF isnum THEN luaK_codeABx(fs, "FORLOOP", base, NO_JUMP)
                               ELSE luaK_jump(luaK_codeABC(fs, "TFORLOOP", base, 0, nvars)))
    IN PatchList(E, LastPc(Cur(E)), prep + 1)

Hidden(S, names) ==
    new_localvar(new_localvar(new_localvar(S, names[1], 0), names[2], 1), names[3], 2)

fornum(S, varname) ==
    LET base == Cur(S).freereg
        T == checknext(new_localvar(Hidden(S, <<"(for index)", "(for limit)", "(for step)">>), varname, 3), "=")
        L == exp1(checknext(exp1(T), ","))
        one == Do(L, LAMBDA fs : LET g == addk(fs, <<"num", 1>>) IN
                    luaK_reserveregs(luaK_codeABx(g, "LOADK", g.freereg, KIndex(g, <<"num", 1>>)), 1))
    IN forbody(IF Tok(L) = "," THEN exp1(luaX_next(L)) ELSE one, base, 1, TRUE)

RECURSIVE MoreNames(_, _)
MoreNames(S, n) ==
    IF Tok(S) # "," THEN [s |-> S, n |-> n]
    ELSE LET T == luaX_next(S)
         IN MoreNames(luaX_next(new_localvar(check(T, "name"), Sem(T), n)), n + 1)

forlist(S, indexname) ==
    LET base == Cur(S).freereg
        T  == new_localvar(Hidden(S, <<"(for generator)", "(for state)", "(for control)">>), indexname, 3)
        m  == MoreNames(T, 4)
        es == explist1(checknext(m.s, "in"))
        A  == Do(adjust_assign(Pair(es.s, es.e), 3, es.n), LAMBDA fs : luaK_checkstack(fs, 3))
    IN forbody(A, base, m.n - 3, FALSE)

forstat(S) ==
    LET T == luaX_next(enterblock(S, TRUE))
        U == luaX_next(check(T, "name"))
        F == CASE Tok(U) = "="         -> fornum(U, Sem(T))
               [] Tok(U) \in {",", "in"} -> forlist(U, Sem(T))
               [] OTHER                -> Error(U, "`=' or `in' expected")
    IN leaveblock(checknext(F, "end"))

test_then_block(S) ==
    LET c == cond(luaX_next(S)) IN [s |-> block(checknext(c.s, "then")), f |-> c.f]

(* i = [s, f]: the jumps taken when the last condition is false; escape:   *)
(* the jumps out of the parts already read.                                *)
RECURSIVE ElseParts(_, _)
ElseParts(i, escape) ==
    LET j   == Jump(i.s)
        out == PatchToHere(Do(j, LAMBDA fs : luaK_concat(fs, escape, LastPc(fs))), i.f)
        esc == Joined(escape, LastPc(Cur(j)))
        none == Do(i.s, LAMBDA fs : luaK_concat(fs, escape, i.f))
    IN CASE Tok(i.s) = "elseif" -> ElseParts(test_then_block(out), esc)
         [] Tok(i.s) = "else"   -> PatchToHere(block(luaX_next(out)), esc)
         [] OTHER               -> PatchToHere(none, Joined(escape, i.f))

ifstat(S) == checknext(ElseParts(test_then_block(S), NO_JUMP), "end")

localfunc(S) ==
    LET T == luaX_next(new_localvar(check(S, "name"), Sem(S), 0))
        v == init_exp("VLOCAL", Cur(T).freereg)
        b == body(adjustlocalvars(Do(T, LAMBDA fs : luaK_reserveregs(fs, 1)), 1), FALSE)
    IN Do(b.s, LAMBDA fs : LET g == luaK_storevar(On(fs, b.e), v) IN
             IF g.nactvar = 0 THEN g
             ELSE [g EXCEPT !.locvars[g.actvar[g.nactvar]].startpc = Pc(g)])

localstat(S) ==
    LET m  == MoreNames(luaX_next(new_localvar(check(S, "name"), Sem(S), 0)), 1)
        es == explist1(luaX_next(m.s))
        A  == IF Tok(m.s) = "=" THEN adjust_assign(Pair(es.s, es.e), m.n, es.n)
              ELSE adjust_assign(Pair(m.s, init_exp("VVOID", 0)), m.n, 0)
    IN adjustlocalvars(A, m.n)

RECURSIVE Fields(_)
Fields(r) == IF Tok(r.s) = "." THEN Fields(field(r)) ELSE r

funcstat(S) ==
    LET n == Fields(singlevar(luaX_next(S)))
        needself == Tok(n.s) = ":"
        v == IF needself THEN field(n) ELSE n
        b == body(v.s, needself)
    IN Do(b.s, LAMBDA fs : luaK_storevar(On(fs, b.e), v.e))

exprstat(S) ==
    LET v == primaryexp(S)
    IN IF v.e.k = "VCALL" THEN Do(v.s, LAMBDA fs : [fs EXCEPT !.code[v.e.info + 1].c = 1])
       ELSE assignment(v.s, <<v.e>>)

retstat(S) ==
    LET T    == luaX_next(S)
        es   == explist1(T)
        p    == Pair(es.s, es.e)
        m    == Gen(p, luaK_setmultret).s
        tail(fs) == IF es.e.k = "VCALL" /\ es.n = 1
                    THEN [lua_assert(fs, Instr(fs, es.e.info).a = fs.nactvar)
                          EXCEPT !.code[es.e.info + 1].op = "TAILCALL"] ELSE fs
        any  == Gen(p, luaK_exp2anyreg)
        next == Gen(p, luaK_exp2nextreg).s
    IN CASE block_follow(Tok(T)) \/ Tok(T) = ";" -> Do(T, LAMBDA fs : luaK_ret(fs, 0, 0))
         [] hasmultret(es.e.k) -> Do(m, LAMBDA fs : luaK_ret(tail(fs), fs.nactvar, -1))
         [] es.n = 1 -> Do(any.s, LAMBDA fs : luaK_ret(fs, any.e.info, 1))
         [] OTHER -> Do(next, LAMBDA fs :
                       luaK_ret(lua_assert(fs, es.n = fs.freereg - fs.nactvar), fs.nactvar, es.n))

statement(S) ==
    CASE Tok(S) = "if"       -> ifstat(S)
      [] Tok(S) = "while"    -> whilestat(S)
      [] Tok(S) = "do"       -> checknext(block(luaX_next(S)), "end")
      [] Tok(S) = "for"      -> forstat(S)
      [] Tok(S) = "repeat"   -> repeatstat(S)
      [] Tok(S) = "function" -> funcstat(S)
      [] Tok(S) = "local"    -> LET T == luaX_next(S) IN
                                IF Tok(T) = "function" THEN localfunc(luaX_next(T)) ELSE localstat(T)
      [] Tok(S) = "return"   -> retstat(S)
      [] Tok(S) = "break"    -> breakstat(luaX_next(S))
      [] OTHER               -> exprstat(S)

RECURSIVE Statements(_)
Statements(S) ==
    LET T == testnext(statement(S), ";")
        U == Do(T, LAMBDA fs : [lua_assert(fs, fs.maxstacksize >= fs.freereg /\ fs.freereg >= fs.nactvar)
                                EXCEPT !.freereg = fs.nactvar])
    IN IF block_follow(Tok(S)) THEN S
       ELSE IF Tok(S) \in {"return", "break"} THEN U
       ELSE Statements(U)

chunk(S) == leavelevel(Statements(enterlevel(S)))

(* The main function takes any number of arguments.  The result is the     *)
(* prototype, the error and whether every assertion held.                  *)
luaY_parser(toks, newline) ==
    LET S0 == [toks |-> toks, pos |-> 0, newline |-> newline, linenumber |-> 1, lastline |-> 1,
               ahead |-> FALSE, fs |-> <<>>, level |-> 0, err |-> "", ok |-> TRUE]
        S1 == Do(open_func(S0), LAMBDA fs : [fs EXCEPT !.is_vararg = {"ISVARARG"}])
        c  == close_func(check(chunk(luaX_next(S1)), "eos"))
    IN [f |-> c.f, err |-> c.s.err, ok |-> c.s.ok /\ c.f.nups = 0]
===========================================================================
