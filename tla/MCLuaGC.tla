------------------------------ MODULE MCLuaGC ------------------------------
(* Small populations of the heap for TLC.                                  *)
EXTENDS LuaGC, TLC

CONSTANTS main, t1, t2, t3, f1, f2, n1, u1, u2, s1, s2, p1, p2, c1

MCNoFields == {{}}
MCWeakFields == {{}, {"v"}}
MCKeyFields == {{}, {"k"}}
MCGcFields == {{}, {"gc"}}
MCKeyGcFields == {{}, {"k", "gc"}}
MCModeGcFields == {{}, {"k", "gc"}, {"v"}}
MCBucket == [s \in Str |-> 0]
MCTwoBuckets == [s \in Str |-> IF s = s1 THEN 0 ELSE 1]
=============================================================================
