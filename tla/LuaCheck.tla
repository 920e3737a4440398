----------------------------- MODULE LuaCheck -----------------------------
(***************************************************************************)
(* The code checker (ldebug.c), which the parser asserts of every function *)
(* it closes and the loader of binary chunks requires of every function it *)
(* reads.  symbexec is modelled as luaG_checkcode calls it, over the whole *)
(* code and tracing no register.                                           *)
(***************************************************************************)
EXTENDS LuaOpcodes, FiniteSets

CONSTANT MAXSTACK

At(pt, pc) == pt.code[pc + 1]
SizeCode(pt) == Len(pt.code)
checkreg(pt, r) == r < pt.maxstacksize

precheck(pt) ==
    /\ pt.maxstacksize <= MAXSTACK
    /\ pt.numparams + Cardinality(pt.is_vararg \cap {"HASARG"}) <= pt.maxstacksize
    /\ "NEEDSARG" \in pt.is_vararg => "HASARG" \in pt.is_vararg
    /\ Len(pt.upvalues) <= pt.nups
    /\ SizeCode(pt) > 0 /\ At(pt, SizeCode(pt) - 1).op = "RETURN"

(* Only these instructions take the open results of the one before. *)
luaG_checkopenop(i) == i.op \in {"CALL", "TAILCALL", "RETURN", "SETLIST"} /\ i.b = 0

checkArgMode(pt, r, mode) ==
    CASE mode = "OpArgN" -> r = 0
      [] mode = "OpArgU" -> TRUE
      [] mode = "OpArgR" -> checkreg(pt, r)
      [] mode = "OpArgK" -> IF ISK(r) THEN INDEXK(r) < Len(pt.k) ELSE r < pt.maxstacksize

(* A jump may not lead to the count of a SETLIST; whether the word before  *)
(* the destination is a SETLIST or itself a count depends on how many      *)
(* words that look like SETLIST stand in a row.                            *)
LooksLikeSetlist(i) == i.op = "SETLIST" /\ i.c = 0
checkjump(pt, dest) ==
    /\ dest \in 0 .. SizeCode(pt) - 1
    /\ LET others == {p \in 0 .. dest - 1 : ~LooksLikeSetlist(At(pt, p))}
           start  == IF others = {} THEN 0 ELSE (CHOOSE p \in others : \A q \in others : q <= p) + 1
       IN (dest - start) % 2 = 0

checkOperands(pt, pc) ==
    LET i == At(pt, pc) IN
    /\ checkreg(pt, i.a)
    /\ getOpMode(i.op) = "iABC" => /\ checkArgMode(pt, i.b, getBMode(i.op))
                                   /\ checkArgMode(pt, i.c, getCMode(i.op))
    /\ getOpMode(i.op) = "iABx" /\ getBMode(i.op) = "OpArgK" => i.b < Len(pt.k)
    /\ getOpMode(i.op) = "iAsBx" => checkjump(pt, pc + 1 + i.b)
    /\ testTMode(i.op) => pc + 2 < SizeCode(pt) /\ At(pt, pc + 1).op = "JMP"

checkopen(pt, pc) == pc + 1 < SizeCode(pt) /\ luaG_checkopenop(At(pt, pc + 1))

checkInstruction(pt, pc) ==
    LET i == At(pt, pc)  op == i.op IN
    CASE op = "LOADBOOL" /\ i.c = 1 -> pc + 2 < SizeCode(pt) /\ ~LooksLikeSetlist(At(pt, pc + 1))
      [] op \in {"GETUPVAL", "SETUPVAL"} -> i.b < pt.nups
      [] op \in {"GETGLOBAL", "SETGLOBAL"} -> pt.k[i.b + 1][1] = "str"
      [] op = "SELF" -> checkreg(pt, i.a + 1)
      [] op = "CONCAT" -> i.b < i.c
      [] op = "TFORLOOP" -> i.c >= 1 /\ checkreg(pt, i.a + 2 + i.c)
      [] op \in {"FORLOOP", "FORPREP"} -> checkreg(pt, i.a + 3)
      [] op \in {"CALL", "TAILCALL"} ->
           /\ i.b # 0 => checkreg(pt, i.a + i.b - 1)
           /\ i.c = 0 => checkopen(pt, pc)
           /\ i.c > 1 => checkreg(pt, i.a + i.c - 2)
      [] op = "RETURN" -> i.b > 1 => checkreg(pt, i.a + i.b - 2)
      [] op = "SETLIST" ->
           /\ i.b > 0 => checkreg(pt, i.a + i.b)
           /\ i.c = 0 => pc + 1 < SizeCode(pt) - 1
      [] op = "CLOSURE" ->
           /\ i.b < Len(pt.p)
           /\ pc + pt.p[i.b + 1].nups < SizeCode(pt)
           /\ \A j \in 1 .. pt.p[i.b + 1].nups : At(pt, pc + j).op \in {"GETUPVAL", "MOVE"}
      [] op = "VARARG" ->
           /\ "ISVARARG" \in pt.is_vararg /\ "NEEDSARG" \notin pt.is_vararg
           /\ i.b = 0 => checkopen(pt, pc)
           /\ checkreg(pt, i.a + i.b - 2)
      [] OTHER -> TRUE

RECURSIVE checkfrom(_, _)
checkfrom(pt, pc) ==
    \/ pc = SizeCode(pt)
    \/ /\ checkOperands(pt, pc) /\ checkInstruction(pt, pc)
       /\ checkfrom(pt, IF LooksLikeSetlist(At(pt, pc)) THEN pc + 2 ELSE pc + 1)

luaG_checkcode(pt) == precheck(pt) /\ checkfrom(pt, 0)
===========================================================================
