----------------------------- MODULE LuaValues -----------------------------
(***************************************************************************)
(* Values and what the instructions do with them.  A value is a pair       *)
(* <<type, data>>; a string is a sequence of its characters.  No value has *)
(* a metatable, strings are not read as numbers, and only numbers are      *)
(* ordered.                                                                *)
(***************************************************************************)
EXTENDS LuaOpcodes, SequencesExt, TLC

Nil     == <<"nil", 0>>
Bool(b) == <<"bool", b>>
Num(n)  == <<"num", n>>
l_isfalse(v) == v = Nil \/ v = Bool(FALSE)
tostring(v)  == IF v[1] = "num" THEN <<ToString(v[2])>> ELSE v[2]

RawGet(t, k) == IF k \in DOMAIN t THEN t[k] ELSE Nil
RawSet(t, k, v) ==
    IF v = Nil THEN [j \in DOMAIN t \ {k} |-> t[j]] ELSE (k :> v) @@ t
Border(t) == CHOOSE n \in 0 .. Cardinality(DOMAIN t) :
                 /\ Num(n + 1) \notin DOMAIN t
                 /\ \A i \in 1 .. n : Num(i) \in DOMAIN t

(* The library functions that programs call: emit records its arguments    *)
(* and returns them, iter counts from its second argument up to its first. *)
Observable(v) == IF v[1] \in {"tab", "cl"} THEN <<v[1], 0>> ELSE v
CResults(f, args) ==
    CASE f = "emit" -> args
      [] f = "iter" -> LET n == IF args[2] = Nil THEN 0 ELSE args[2][2]
                       IN <<IF n < args[1][2] THEN Num(n + 1) ELSE Nil>>
===========================================================================
