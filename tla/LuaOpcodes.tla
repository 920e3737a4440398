---------------------------- MODULE LuaOpcodes ----------------------------
(***************************************************************************)
(* The instruction set of the virtual machine (lopcodes.h, lopcodes.c) and *)
(* the arithmetic of lua_Number (luaconf.h).  An instruction is a record   *)
(* [op, a, b, c]; the wide operands Bx and sBx are kept in b.  Numbers are *)
(* the integers: programs divide only exactly.                             *)
(***************************************************************************)
EXTENDS Integers, Sequences

CONSTANTS MAXINDEXRK,         \* the largest constant an RK operand can name
          MAXARG_C,           \* the largest batch number of OP_SETLIST
          MAXARG_Bx,          \* constants, or nested functions, of a function
          MAXARG_sBx,         \* the longest jump
          LFIELDS_PER_FLUSH   \* list items stored by one OP_SETLIST

ASSUME OpcodesAssumption ==
    /\ {MAXINDEXRK, MAXARG_C, MAXARG_Bx, MAXARG_sBx} \subseteq Nat
    /\ LFIELDS_PER_FLUSH \in Nat \ {0}

NO_REG == 255
BITRK  == 256
ISK(x) == x >= BITRK
INDEXK(x) == x - BITRK
RKASK(x) == x + BITRK

ArithOps == {"ADD", "SUB", "MUL", "DIV", "MOD", "POW"}
RKRKOps  == ArithOps \cup {"EQ", "LT", "LE", "SETTABLE"}

testTMode(op) == op \in {"EQ", "LT", "LE", "TEST", "TESTSET", "TFORLOOP"}
testAMode(op) == op \notin {"SETGLOBAL", "SETUPVAL", "SETTABLE", "JMP", "EQ", "LT", "LE",
                            "RETURN", "TFORLOOP", "SETLIST", "CLOSE"}
getOpMode(op) == CASE op \in {"LOADK", "GETGLOBAL", "SETGLOBAL", "CLOSURE"} -> "iABx"
                   [] op \in {"JMP", "FORLOOP", "FORPREP"} -> "iAsBx"
                   [] OTHER -> "iABC"
getBMode(op) == CASE op \in {"TFORLOOP", "CLOSE"} -> "OpArgN"
                  [] op \in RKRKOps \cup {"LOADK", "GETGLOBAL", "SETGLOBAL"} -> "OpArgK"
                  [] op \in {"LOADBOOL", "GETUPVAL", "SETUPVAL", "NEWTABLE", "CALL", "TAILCALL",
                             "RETURN", "SETLIST", "CLOSURE", "VARARG"} -> "OpArgU"
                  [] OTHER -> "OpArgR"
getCMode(op) == CASE op \in RKRKOps \cup {"GETTABLE", "SELF"} -> "OpArgK"
                  [] op \in {"LOADBOOL", "NEWTABLE", "TEST", "TESTSET", "CALL", "TAILCALL",
                             "TFORLOOP", "SETLIST"} -> "OpArgU"
                  [] op = "CONCAT" -> "OpArgR"
                  [] OTHER -> "OpArgN"

FlatMap(s, F(_)) ==
    LET upto[n \in 0 .. Len(s)] == IF n = 0 THEN <<>> ELSE upto[n - 1] \o F(s[n]) IN upto[Len(s)]

(* luai_numadd ... luai_numpow; the remainder has the sign of the divisor. *)
luai_num(op, v1, v2) ==
    CASE op = "ADD" -> v1 + v2
      [] op = "SUB" -> v1 - v2
      [] op = "MUL" -> v1 * v2
      [] op = "DIV" -> v1 \div v2
      [] op = "MOD" -> v1 % v2
      [] op = "POW" -> v1 ^ v2
      [] op = "UNM" -> -v1
===========================================================================
