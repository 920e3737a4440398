----------------------------- MODULE LuaRegistry -----------------------------
(***************************************************************************)
(* A table with references, lauxlib.c: luaL_ref hands out integer keys *)
(* and keeps the free ones in a list inside the table itself, which starts *)
(* at the field FREELIST_REF.  The registry is such a table: other fields  *)
(* of it belong to other parts of the program.                             *)
(***************************************************************************)
EXTENDS LuaTable

CONSTANTS Referent,   \* values references are made for
          MaxRef      \* bound: references taken

VARIABLES registry,   \* integer keys of the table are left to luaL_ref
          held        \* the references handed out, with what they stand for

vars == <<tableVars, registry, held>>

FREELIST_REF == 0

rawgeti(tab, i) == Get(tab, i)
ToInteger(v) == IF v \in IntKey THEN v ELSE 0

RefInit ==
    /\ TableInit
    /\ registry \in BOOLEAN
    /\ held = {}

luaL_ref(v) ==
    /\ registry
    /\ Cardinality(held) < MaxRef
    /\ LET free == ToInteger(rawgeti(t, FREELIST_REF))
           ref == IF free # 0 THEN free ELSE luaH_getn(t) + 1
           unlinked == IF free # 0 THEN Store(t, FREELIST_REF, rawgeti(t, ref)) ELSE t
       IN /\ t' = Store(unlinked, ref, v)
          /\ held' = held \cup {<<ref, v>>}
    /\ Abandon
    /\ UNCHANGED <<hash, invalid, registry>>

(* Mutant: the head of the free list is replaced before it is copied.      *)
luaL_unrefSwapped(r) ==
    /\ registry
    /\ LET head == Store(t, FREELIST_REF, r[1])
       IN t' = Store(head, r[1], rawgeti(head, FREELIST_REF))
    /\ held' = held \ {r}
    /\ Abandon
    /\ UNCHANGED <<hash, invalid, registry>>

luaL_unref(r) ==
    /\ registry
    /\ LET linked == Store(t, r[1], rawgeti(t, FREELIST_REF))
       IN t' = Store(linked, FREELIST_REF, r[1])
    /\ held' = held \ {r}
    /\ Abandon
    /\ UNCHANGED <<hash, invalid, registry>>

(* What the rest of the program does with the table.                       *)
Other ==
    /\ \/ \E k \in UsedKey, v \in Value \cup {Nil} :
             (registry => k \notin IntKey) /\ SetField(k, v)
       \/ ~registry /\ \E n \in Lists, v \in Value : SetList(n, v)
       \/ StartTraversal
       \/ NextField
       \/ Collect
       \/ ~registry /\ \E k \in UsedKey : ClearWeak(k)
    /\ UNCHANGED <<registry, held>>

Next ==
    \/ Other
    \/ \E v \in Referent : (\A r \in held : r[2] # v) /\ luaL_ref(v)
    \/ \E r \in held : luaL_unref(r)

Spec == RefInit /\ [][Next]_vars

-----------------------------------------------------------------------------
RegistryTypeOK ==
    /\ t.array \in Seq(Value \cup Referent \cup IntKey \cup {Nil})
    /\ \A i \in DOMAIN t.node :
          t.node[i] \in [key : Key \cup {Nil}, dead : BOOLEAN,
                         val : Value \cup Referent \cup IntKey \cup {Nil},
                         next : -1..(sizenode(t) - 1)]
    /\ t.lastfree \in -1..sizenode(t)
    /\ cursor \in Key \cup {Nil, Idle}

(* A table is a map, whatever collides, moves, is rehashed, cleared or     *)
(* collected, and a traversal visits each field that stays exactly once    *)
(* (luaH_set, newkey, resize, findindex, luaH_next).                       *)
Map == INSTANCE LuaMap WITH
           Together <- {{k} : k \in Key} \cup {1..n : n \in Lists}
                         \cup {{FREELIST_REF, k} : k \in IntKey},
           map <- [k \in Key |-> Get(t, k)],
           traversing <- cursor # Idle,
           visited <- seen

(* next() accepts every key it has returned, although the entry may have   *)
(* been emptied, its key marked dead, and its address used again, in the   *)
(* meantime (findindex).                                                   *)
NextAcceptsItsKeys == ~invalid

(* The invariant the header of ltable.c states: if an element is not in    *)
(* its main position, the element that is there is in its own.             *)
CollidingInMainPosition ==
    \A i \in UsedNodes(t) :
        LET mp == mainposition(t, gnode(t, i).key)
        IN mp # i /\ gnode(t, mp).val # Nil => mainposition(t, gnode(t, mp).key) = mp

(* The length is a border, also where the hash part continues the array    *)
(* part and where the search by doubling would overflow (luaH_getn).       *)
LengthIsBorder ==
    LET n == luaH_getn(t)
    IN (n = 0 \/ Get(t, n) # Nil) /\ (n = MAX_INT \/ Get(t, n + 1) = Nil)

(* An insertion rehashes at most once: the new sizes have room for every   *)
(* entry, which is put back, and for the new key (rehash, resize).         *)
RehashFits == t.rehashed <= 1

(* After a rehash the array part has the largest size of which more than   *)
(* half is in use, counting the new key (computesizes).                    *)
IntsUsed == {k \in IntKey \cap 1..MAXASIZE : Get(t, k) # Nil}
BestSize(ints) ==
    LET Good(n) == 2 * Cardinality({k \in ints : k <= n}) > n
        sizes == {n \in {2^i : i \in 0..MAXBITS} : Good(n)}
    IN IF sizes = {} THEN 0 ELSE CHOOSE n \in sizes : \A m \in sizes : m <= n
ArrayHalfUsed ==
    \A k \in UsedKey, v \in Value :
        LET s == Store(t, k, v)
        IN s.rehashed = 1 => Len(s.array) = BestSize(IntsUsed \cup ({k} \cap 1..MAXASIZE))

(* Storing a field changes that field and no other, whatever has to move,  *)
(* be chained or be rehashed for it (luaH_set, newkey, resize).            *)
StoreChangesOne ==
    \A k \in UsedKey, v \in Referent :
        LET s == Store(t, k, v)
        IN \A j \in Key : Get(s, j) = IF j = k THEN v ELSE Get(t, j)

(* Two references handed out and not released differ, and each still       *)
(* yields its value (luaL_ref, luaL_unref).                                *)
ReferencesHold == \A r \in held : Get(t, r[1]) = r[2]
=============================================================================
