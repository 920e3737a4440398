---------------------------- MODULE MCLuaRegistry ----------------------------
(* Small tables: a few keys of every kind, hash functions with and without *)
(* collisions.                                                             *)
EXTENDS LuaRegistry

CONSTANTS str, v1, r1, r2

(* All in one chain; strings against numbers; spread.                      *)
MCHashes == {[k \in Key |-> 1],
             [k \in Key |-> IF k \in IntKey THEN k * k + 1 ELSE 3]}
MCUsed == {1, 2, 4, str}
=============================================================================
