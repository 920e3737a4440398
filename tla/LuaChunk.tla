----------------------------- MODULE LuaChunk -----------------------------
(***************************************************************************)
(* Binary chunks (ldump.c, lundump.c).  A chunk is a sequence of items,    *)
(* one for each block that the writer is given; vectors are written item   *)
(* by item.  Line numbers are left out.  A loader's state R is a record:   *)
(* the items not yet read, the depth of functions, the error that unwinds  *)
(* it, and the value v read last.                                          *)
(***************************************************************************)
EXTENDS LuaCheck

CONSTANT LUAI_MAXCCALLS

luaU_header == <<"header", "Lua 5.1, format 0">>

IntItem(n)    == <<"int", n>>
CharItem(c)   == <<"char", c>>
StringItem(s) == <<"string", s>>
NullString    == <<"null", 0>>

-----------------------------------------------------------------------------
(* Writing. *)

DumpConstant(o) ==
    CASE o[1] = "nil"  -> <<CharItem("nil")>>
      [] o[1] = "bool" -> <<CharItem("bool"), CharItem(o[2])>>
      [] o[1] = "num"  -> <<CharItem("num"), <<"number", o[2]>>>>
      [] o[1] = "str"  -> <<CharItem("str"), StringItem(o[2])>>

DumpVector(s) == <<IntItem(Len(s))>> \o s
DumpAll(s, Item(_)) == <<IntItem(Len(s))>> \o FlatMap(s, Item)

DumpDebug(f, strip) ==
    LET locvars  == IF strip THEN <<>> ELSE f.locvars
        upvalues == IF strip THEN <<>> ELSE f.upvalues
    IN DumpAll(locvars, LAMBDA v : <<StringItem(v.name), IntItem(v.startpc), IntItem(v.endpc)>>)
       \o DumpAll(upvalues, LAMBDA u : <<StringItem(u)>>)

(* p: the source of the enclosing function. *)
RECURSIVE DumpFunction(_, _, _)
DumpFunction(f, p, strip) ==
    <<IF f.source = p \/ strip THEN NullString ELSE StringItem(f.source),
      CharItem(f.nups), CharItem(f.numparams), CharItem(f.is_vararg), CharItem(f.maxstacksize)>>
    \o DumpVector(f.code)
    \o DumpAll(f.k, DumpConstant)
    \o DumpAll(f.p, LAMBDA g : DumpFunction(g, f.source, strip))
    \o DumpDebug(f, strip)

luaU_dump(f, strip) == <<luaU_header>> \o DumpFunction(f, "", strip)

(* A writer that fails is not called again. *)
Written(chunk, blocks) == SubSeq(chunk, 1, blocks)

-----------------------------------------------------------------------------
(* Reading. *)

LoadError(R, why) == IF R.err = "" THEN [R EXCEPT !.err = why, !.z = <<>>] ELSE R

LoadBlock(R) ==
    IF R.z = <<>> THEN LoadError([R EXCEPT !.v = <<"none", 0>>], "unexpected end")
    ELSE [R EXCEPT !.z = Tail(@), !.v = Head(R.z)]

(* n items read one after the other; v is their sequence. *)
RECURSIVE LoadItems(_, _, _, _)
LoadItems(R, n, Item(_), got) ==
    IF n = 0 \/ R.err # "" THEN [R EXCEPT !.v = got]
    ELSE LET r == Item(R) IN LoadItems(r, n - 1, Item, Append(got, r.v))

LoadAll(R, Item(_)) ==
    LET n == LoadBlock(R) IN LoadItems(n, IF n.err = "" THEN n.v[2] ELSE 0, Item, <<>>)

LoadString(R) ==
    LET r == LoadBlock(R) IN [r EXCEPT !.v = IF @[1] = "null" THEN NullString ELSE @]

LoadConstant(R) ==
    LET t == LoadBlock(R)
        o == LoadBlock(t)
    IN CASE t.err # ""   -> t
         [] t.err = "" /\ t.v[2] = "nil" -> [t EXCEPT !.v = <<"nil", 0>>]
         [] t.err = "" /\ t.v[2] \in {"bool", "num", "str"} -> [o EXCEPT !.v = <<t.v[2], @[2]>>]
         [] OTHER -> LoadError(t, "bad constant")

(* Mutant: the two positions are read in the other order. *)
LoadLocVarSwapped(R) ==
    LET n == LoadString(R)
        e == LoadBlock(n)
        s == LoadBlock(e)
    IN [s EXCEPT !.v = [name |-> n.v[2], startpc |-> s.v[2], endpc |-> e.v[2]]]

LoadLocVar(R) ==
    LET n == LoadString(R)
        s == LoadBlock(n)
        e == LoadBlock(s)
    IN [e EXCEPT !.v = [name |-> n.v[2], startpc |-> s.v[2], endpc |-> e.v[2]]]

LoadUpvalueName(R) == LET n == LoadString(R) IN [n EXCEPT !.v = @[2]]

RECURSIVE LoadFunction(_, _)
LoadFunction(R, p) ==
    LET deep == [R EXCEPT !.level = @ + 1]
        in   == IF deep.level > LUAI_MAXCCALLS THEN LoadError(deep, "code too deep") ELSE deep
        so   == LoadString(in)
        source == IF so.v[1] = "null" THEN p ELSE so.v[2]
        nu   == LoadBlock(so)
        np   == LoadBlock(nu)
        va   == LoadBlock(np)
        ms   == LoadBlock(va)
        co   == LoadAll(ms, LoadBlock)
        ks   == LoadAll(co, LoadConstant)
        ps   == LoadAll(ks, LAMBDA r : LoadFunction(r, source))
        lv   == LoadAll(ps, LoadLocVar)
        uv   == LoadAll(lv, LoadUpvalueName)
        f    == [source |-> source, code |-> co.v, k |-> ks.v, p |-> ps.v, locvars |-> lv.v,
                 nups |-> nu.v[2], upvalues |-> uv.v, maxstacksize |-> ms.v[2],
                 numparams |-> np.v[2], is_vararg |-> va.v[2]]
    IN IF uv.err # "" THEN uv
       ELSE IF ~luaG_checkcode(f) THEN LoadError(uv, "bad code")
       ELSE [uv EXCEPT !.v = f, !.level = @ - 1]

luaU_undump(z) ==
    LET R == LoadBlock([z |-> z, level |-> 0, err |-> "", v |-> <<"none", 0>>])
    IN IF R.err = "" /\ R.v # luaU_header THEN LoadError(R, "bad header") ELSE LoadFunction(R, "=?")
===========================================================================
