------------------------------- MODULE LuaMap -------------------------------
(***************************************************************************)
(* What a Lua table promises (ltable.c): a function from keys to       *)
(* values in which an absent key has the value Nil.  A traversal with      *)
(* next() visits every key that stays in the table exactly once, in any    *)
(* order, while fields that exist are changed or cleared.  Assigning to a  *)
(* field that does not exist gives the traversal up.                       *)
(***************************************************************************)
CONSTANTS Key, Nil,
          Together   \* the sets of fields that are assigned in one step

VARIABLES map,         \* what each key is associated with
          traversing,  \* a traversal is under way
          visited      \* the keys it has returned

mapVars == <<map, traversing, visited>>

Present(m) == {k \in Key : m[k] # Nil}

MapInit == map = [k \in Key |-> Nil] /\ traversing = FALSE /\ visited = {}

GiveUp == traversing' = FALSE /\ visited' = {}

(* The program assigns to some fields, or the collector clears them.       *)
Assign(changed) ==
    /\ \E S \in Together : changed \subseteq S
    /\ \/ GiveUp
       \/ changed \subseteq Present(map) /\ UNCHANGED <<traversing, visited>>

Start == ~traversing /\ traversing' = TRUE /\ visited' = {}

Visit(k) ==
    /\ traversing
    /\ k \in Present(map) \ visited
    /\ visited' = visited \cup {k}
    /\ UNCHANGED traversing

Finish == traversing /\ Present(map) \subseteq visited /\ GiveUp

MapNext ==
    \E changed \in {{k \in Key : map'[k] # map[k]}} :
        \/ Assign(changed)
        \/ changed = {} /\ (Start \/ (\E k \in visited' : Visit(k)) \/ Finish)

MapSpec == MapInit /\ [][MapNext]_mapVars
=============================================================================
