---------------------------- MODULE LuaCompile ----------------------------
(***************************************************************************)
(* From source to outcome.  A program is compiled, its code may be saved   *)
(* as a binary chunk by a writer that may fail and loaded again, and it    *)
(* runs to its end (f_parser in ldo.c, lua_dump in lapi.c).  What a        *)
(* program means is said by LuaReference, which knows nothing of           *)
(* registers, jumps, constants or upvalues.                                *)
(***************************************************************************)
EXTENDS LuaParser, LuaVM

Ref   == INSTANCE LuaReference
Chunk == INSTANCE LuaChunk

CONSTANTS Programs,           \* from a key to [block, newline, args, saved]
          Globals             \* the global variables a program starts with

(* The parser and the meaning are functions of the program alone, so they  *)
(* are tabulated once.                                                     *)
CONSTANTS Compiled, Meanings

(* The tokens at which a second line may not start: the parenthesis that   *)
(* opens the arguments of a call.                                          *)
OpensArguments(toks, t) ==
    /\ t \in 2 .. Len(toks) /\ toks[t][1] = "("
    /\ toks[t - 1][1] \in {"name", ")", "]"}
    /\ t > 2 => toks[t - 2][1] # "function"

Source(n) == Ref!BlockTokens(Programs[n].block)
CompiledPrograms ==
    LET compiled(n) == luaY_parser(Source(n), Programs[n].newline)
    IN [n \in DOMAIN Programs |-> compiled(n)]
ProgramMeanings ==
    LET blockOf(n) == Programs[n].block
        meaning(n) ==
            [wellformed |-> Ref!WellFormed(blockOf(n)),
             ambiguous  |-> OpensArguments(Source(n), Programs[n].newline),
             outcome    |-> IF ~Ref!WellFormed(blockOf(n)) THEN Nil
                            ELSE Ref!Meaning(blockOf(n), Globals, Programs[n].args)]
    IN [n \in DOMAIN Programs |-> meaning(n)]

ASSUME TablesAssumption == Compiled = CompiledPrograms /\ Meanings = ProgramMeanings

VARIABLES n,                  \* which program
          phase,
          parsed,             \* the result of the parser
          written             \* the binary chunk, as far as it was written

vars == <<n, phase, parsed, written, main, L>>

NoParse == [f |-> Proto(NewFunc), err |-> "", ok |-> TRUE]
Idle    == [status |-> "idle"]

Init ==
    /\ n \in DOMAIN Programs
    /\ phase = "source" /\ parsed = NoParse /\ written = <<>>
    /\ main = NoParse.f /\ L = Idle

(* f_parser with the text of the program. *)
Parse ==
    /\ phase = "source"
    /\ parsed' = Compiled[n]
    /\ main' = parsed'.f
    /\ phase' = IF parsed'.err = "" THEN "compiled" ELSE "refused"
    /\ UNCHANGED <<n, written, L>>

(* The writer fails after some blocks, or after the last. *)
lua_dump ==
    /\ phase = "compiled" /\ Programs[n].saved
    /\ LET all == Chunk!luaU_dump(main, FALSE)
       IN \E blocks \in 1 .. Len(all) : written' = Chunk!Written(all, blocks)
    /\ phase' = "saved"
    /\ UNCHANGED <<n, parsed, main, L>>

(* f_parser with a binary chunk. *)
Undump ==
    /\ phase = "saved"
    /\ LET r == Chunk!luaU_undump(written)
       IN /\ phase' = IF r.err = "" THEN "loaded" ELSE "refused"
          /\ main' = IF r.err = "" THEN r.v ELSE NoParse.f
    /\ UNCHANGED <<n, parsed, written, L>>

lua_call ==
    /\ phase \in {"compiled", "loaded"}
    /\ phase' = "running"
    /\ L' = Start(Globals, Programs[n].args)
    /\ UNCHANGED <<n, parsed, written, main>>

Execute ==
    /\ phase = "running" /\ luaV_execute
    /\ UNCHANGED <<n, phase, parsed, written, main>>

Next == Parse \/ lua_dump \/ Undump \/ lua_call \/ Execute
Spec == Init /\ [][Next]_vars

-----------------------------------------------------------------------------

LimitErrors ==
    {"control structure too long", "function or expression too complex", "constant table overflow",
     "too many local variables", "too many upvalues", "chunk has too many syntax levels",
     "too many variables in assignment"}


RECURSIVE AllChecked(_)
AllChecked(f) == Chunk!luaG_checkcode(f) /\ \A j \in DOMAIN f.p : AllChecked(f.p[j])

(* Every function the parser closes passes the checker of binary chunks    *)
(* (lparser.c:374), the parser's assertions having held (lua_assert in     *)
(* lcode.c and lparser.c).                                                 *)
CodeChecked == phase = "compiled" => parsed.ok /\ AllChecked(main)

(* A binary chunk gives back the function it was written from, or, cut     *)
(* short, nothing (lundump.c:40).                                          *)
LoadedAsSaved ==
    /\ phase = "loaded" => main = parsed.f
    /\ phase \in {"loaded", "refused"} /\ written # <<>> =>
           (phase = "loaded" <=> written = Chunk!luaU_dump(parsed.f, FALSE))

(* The word after a SETLIST without a batch number is the batch number and *)
(* stays it while jumps around it are patched (lopcodes.h:227: "if (C ==   *)
(* 0) then next `instruction' is real C").                                 *)
CountsKept ==
    phase = "compiled" => \A pc \in DOMAIN main.code :
        main.code[pc].op = "SETLIST" /\ main.code[pc].c = 0 => "count" \in DOMAIN main.code[pc + 1]

Running == phase = "running" /\ L.status = "run" /\ IsLua(L) /\ ~ci.wait

(* Before an instruction the top of the stack is the activation's limit,   *)
(* unless the instruction takes the open results of the one before         *)
(* (lvm.c:403-405).                                                        *)
TopAtLimit ==
    Running => /\ base <= L.top /\ L.top <= StackSize
               /\ L.top = ci.top \/ Chunk!luaG_checkopenop(i)

(* An open upvalue is the only one of a slot that an active activation     *)
(* holds, and the slot belongs to a variable in scope until the            *)
(* instruction that closes it (luaF_findupval in lfunc.c, leaveblock and   *)
(* breakstat in lparser.c).                                                *)
OwnerOf(at) == CHOOSE j \in DOMAIN L.ci : L.ci[j].base <= at /\ \A m \in j + 1 .. Len(L.ci) : at < L.ci[m].base
VariablesAt(f, pc) == Cardinality({v \in DOMAIN f.locvars : f.locvars[v].startpc <= pc /\ pc < f.locvars[v].endpc})
UpvaluesInScope ==
    Running => \A u \in DOMAIN L.upvals : L.upvals[u].open =>
        /\ OpenAt(L, L.upvals[u].at) = {u}
        /\ L.upvals[u].at < L.ci[Len(L.ci)].top
        /\ LET c == L.ci[OwnerOf(L.upvals[u].at)]
               f == ProtoAt(main, L.closures[L.stack[c.func][2]].p)
           IN \/ L.upvals[u].at - c.base < VariablesAt(f, c.pc)
              \/ f.code[c.pc + 1].op \in {"CLOSE", "RETURN", "TAILCALL"}
===========================================================================
