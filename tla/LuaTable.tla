------------------------------ MODULE LuaTable ------------------------------
(***************************************************************************)
(* Tables, ltable.c: an array part and a hash part whose nodes form    *)
(* chains that start at the main position of their keys, with a pointer    *)
(* that runs down through the free nodes, rehashing when it meets none,    *)
(* dead keys, the traversal with next() and the length operator.           *)
(* LuaMap is what it implements.                                           *)
(***************************************************************************)
EXTENDS Integers, Sequences, SequencesExt

CONSTANTS StringKey,
          UsedKey,    \* the keys the program assigns to
          Value, Nil,
          Idle,       \* no traversal
          Hashes,     \* the hash functions considered
          MAX_INT, MAXBITS,
          ArraySizes, HashSizes,  \* the sizes luaH_new is asked for
          Lists                   \* the lengths of list constructors

ASSUME BitsAssumption == MAXBITS \in Nat /\ MAX_INT \in Nat \ {0}
ASSUME KeysAssumption == StringKey \cap (0..MAX_INT) = {}

VARIABLES t,        \* the table
          hash,     \* the hash value of every key
          cursor,   \* the key next() will be called with, or Idle
          seen,     \* the keys the traversal has returned
          invalid   \* next() has raised "invalid key to 'next'"

tableVars == <<t, hash, cursor, seen, invalid>>

(* The hash of an object is taken like that of a number, and it dies like  *)
(* a string.                                                               *)
IntKey == 0..MAX_INT
Key == IntKey \cup StringKey
Collectable == StringKey

FreeNode == [key |-> Nil, dead |-> FALSE, val |-> Nil, next |-> -1]

Fold(op(_, _), base, s) ==
    LET f[i \in 0..Len(s)] == IF i = 0 THEN base ELSE op(f[i - 1], s[i]) IN f[Len(s)]

-----------------------------------------------------------------------------
(* Sizes and positions.  dummynode is a hash part without nodes.           *)

MAXASIZE == 2^MAXBITS
twoto(size) == CHOOSE p \in {2^i : i \in 0..MAXBITS} :
                   size <= p /\ (p = 1 \/ p \div 2 < size)

sizenode(tab) == Len(tab.node)
gnode(tab, i) == tab.node[i + 1]

hashmod(n, size) == n % (IF size = 1 THEN 1 ELSE size - 1)

mainposition(tab, k) ==
    CASE k \in IntKey /\ k = 0 -> 0
      [] k \in StringKey -> hash[k] % sizenode(tab)
      [] OTHER -> hashmod(hash[k], sizenode(tab))

(* The node of key k in the chain from node i on, or -1; the key of an     *)
(* entry that the collector removed counts only if asked for.              *)
RECURSIVE Search(_, _, _, _)
Search(tab, i, k, dead) ==
    IF i = -1 \/ (gnode(tab, i).key = k /\ (dead \/ ~gnode(tab, i).dead)) THEN i
    ELSE Search(tab, gnode(tab, i).next, k, dead)

FindNode(tab, k, dead) ==
    IF sizenode(tab) = 0 THEN -1 ELSE Search(tab, mainposition(tab, k), k, dead)

(* Slots are numbered as findindex does: the array part comes first.       *)
InArray(tab, k) == k \in IntKey /\ k \in 1..Len(tab.array)
NodeSlot(tab, i) == Len(tab.array) + i

SlotValue(tab, p) ==
    IF p < Len(tab.array) THEN tab.array[p + 1] ELSE gnode(tab, p - Len(tab.array)).val
PutSlot(tab, p, v) ==
    IF p < Len(tab.array) THEN [tab EXCEPT !.array[p + 1] = v]
    ELSE [tab EXCEPT !.node[p - Len(tab.array) + 1].val = v]

luaH_get(tab, k) ==
    IF InArray(tab, k) THEN k - 1
    ELSE LET n == FindNode(tab, k, FALSE)
         IN IF n = -1 THEN -1 ELSE NodeSlot(tab, n)

Get(tab, k) == LET p == luaH_get(tab, k) IN IF p = -1 THEN Nil ELSE SlotValue(tab, p)

-----------------------------------------------------------------------------
(* Rehash                                                                  *)

UsedNodes(tab) == {i \in 0..(sizenode(tab) - 1) : gnode(tab, i).val # Nil}
ArrayIndex(k) == k \in IntKey /\ k \in 1..MAXASIZE

(* Mutant: the last slot of the array part is not counted.                 *)
numusearrayShort(tab) == {i \in 1..(Len(tab.array) - 1) : tab.array[i] # Nil}

numusearray(tab) == {i \in 1..Len(tab.array) : tab.array[i] # Nil}

numusehash(tab) == {gnode(tab, i).key : i \in UsedNodes(tab)}

(* nums[i] counts the keys in (2^(i-1), 2^i].                              *)
countint(ints) ==
    [i \in 0..MAXBITS |-> Cardinality({k \in ints : k <= 2^i /\ (i = 0 \/ 2^(i - 1) < k)})]

(* Mutant: half of the slots is enough.                                    *)
computesizesHalf(nums, narray) ==
    LET step(s, i) ==
            IF 2^i \div 2 >= narray \/ s.a = narray THEN s
            ELSE LET a == s.a + nums[i]
                 IN IF nums[i] > 0 /\ a >= 2^i \div 2
                    THEN [a |-> a, na |-> a, n |-> 2^i] ELSE [s EXCEPT !.a = a]
    IN Fold(step, [a |-> 0, na |-> 0, n |-> 0], [i \in 1..(MAXBITS + 1) |-> i - 1])

computesizes(nums, narray) ==
    LET step(s, i) ==
            IF 2^i \div 2 >= narray \/ s.a = narray THEN s
            ELSE LET a == s.a + nums[i]
                 IN IF nums[i] > 0 /\ a > 2^i \div 2
                    THEN [a |-> a, na |-> a, n |-> 2^i] ELSE [s EXCEPT !.a = a]
    IN Fold(step, [a |-> 0, na |-> 0, n |-> 0], [i \in 1..(MAXBITS + 1) |-> i - 1])

RECURSIVE luaH_set(_, _), newkey(_, _), resize(_, _, _), rehash(_, _)

(* Mutant: the free pointer starts one node too far.                       *)
luaH_newPast(narray, nhash) ==
    LET size == IF nhash = 0 THEN 0 ELSE twoto(nhash)
    IN [array |-> [i \in 1..narray |-> Nil],
        node |-> [i \in 1..size |-> FreeNode],
        lastfree |-> size + 1,
        rehashed |-> 0]

luaH_new(narray, nhash) ==
    LET size == IF nhash = 0 THEN 0 ELSE twoto(nhash)
    IN [array |-> [i \in 1..narray |-> Nil],
        node |-> [i \in 1..size |-> FreeNode],
        lastfree |-> size,
        rehashed |-> 0]

(* Entries of a vanishing slice of the array go first, then the old nodes  *)
(* from the last to the first.                                             *)
resize(tab, nasize, nhsize) ==
    LET old == Len(tab.array)
        kept == [i \in 1..nasize |-> IF i <= old THEN tab.array[i] ELSE Nil]
        slice == [i \in 1..(IF nasize < old THEN old - nasize ELSE 0) |->
                    [key |-> nasize + i, val |-> tab.array[nasize + i]]]
        entries == SelectSeq(slice \o Reverse(tab.node), LAMBDA e : e.val # Nil)
        insert(new, e) == LET s == luaH_set(new, e.key) IN PutSlot(s.tab, s.slot, e.val)
    IN Fold(insert, [luaH_new(nasize, nhsize) EXCEPT
                           !.array = kept, !.rehashed = tab.rehashed], entries)

luaH_resizearray(tab, nasize) == resize(tab, nasize, sizenode(tab))

rehash(tab, ek) ==
    LET array == numusearray(tab)
        hashed == numusehash(tab)
        ints == array \cup {k \in hashed \cup {ek} : ArrayIndex(k)}
        sizes == computesizes(countint(ints), Cardinality(ints))
        totaluse == Cardinality(array) + Cardinality(hashed) + 1
    IN resize([tab EXCEPT !.rehashed = @ + 1], sizes.n, totaluse - sizes.na)

-----------------------------------------------------------------------------
(* Insertion.  An operator that may move the table returns it together     *)
(* with the slot.                                                          *)

getfreepos(tab) ==
    LET free == {i \in 0..(tab.lastfree - 1) : gnode(tab, i).key = Nil}
    IN IF free = {} THEN -1 ELSE Max(free)

RECURSIVE Previous(_, _, _)
Previous(tab, i, mp) ==
    IF gnode(tab, i).next = mp THEN i ELSE Previous(tab, gnode(tab, i).next, mp)

Placed(tab, i, k) ==
    [tab |-> [tab EXCEPT !.node[i + 1].key = k, !.node[i + 1].dead = FALSE],
     slot |-> NodeSlot(tab, i)]


(* The colliding node moves to the free place n, with its link.            *)
MoveColliding(tab, n, mp) ==
    LET prev == Previous(tab, mainposition(tab, gnode(tab, mp).key), mp)
        moved == [tab EXCEPT !.node[prev + 1].next = n]
    IN [moved EXCEPT !.node[n + 1] = gnode(tab, mp), !.node[mp + 1] = FreeNode]

(* Mutant: the rest of the chain is lost.                                  *)
ChainNewAlone(tab, n, mp) == [tab EXCEPT !.node[mp + 1].next = n]

ChainNew(tab, n, mp) ==
    [tab EXCEPT !.node[n + 1].next = gnode(tab, mp).next, !.node[mp + 1].next = n]

(* Mutant: the new key always goes to the free place.                      *)
newkeyInFree(tab, k) ==
    LET mp == mainposition(tab, k)
        n == getfreepos(tab)
        t1 == [tab EXCEPT !.lastfree = n]
    IN IF sizenode(tab) > 0 /\ gnode(tab, mp).val = Nil THEN Placed(tab, mp, k)
       ELSE IF n = -1 THEN luaH_set(rehash(tab, k), k)
       ELSE Placed(ChainNew(t1, n, mp), n, k)

newkey(tab, k) ==
    LET mp == mainposition(tab, k)
        n == getfreepos(tab)
        t1 == [tab EXCEPT !.lastfree = n]
    IN IF sizenode(tab) > 0 /\ gnode(tab, mp).val = Nil THEN Placed(tab, mp, k)
       ELSE IF n = -1 THEN luaH_set(rehash(tab, k), k)
       ELSE IF mainposition(tab, gnode(tab, mp).key) # mp
            THEN Placed(MoveColliding(t1, n, mp), mp, k)
            ELSE Placed(ChainNew(t1, n, mp), n, k)

luaH_set(tab, k) ==
    LET p == luaH_get(tab, k)
    IN IF p # -1 THEN [tab |-> tab, slot |-> p] ELSE newkey(tab, k)

Store(tab, k, v) ==
    LET s == luaH_set([tab EXCEPT !.rehashed = 0], k) IN PutSlot(s.tab, s.slot, v)

-----------------------------------------------------------------------------
(* Traversal: the slot of a key that next() is given; a dead key is found  *)
(* by its address.                                                         *)

(* Mutant: dead keys are not found.                                        *)
findindexAlive(tab, k) ==
    IF k = Nil THEN -1 ELSE IF luaH_get(tab, k) = -1 THEN -2 ELSE luaH_get(tab, k)

findindex(tab, k) ==
    IF k = Nil THEN -1
    ELSE IF InArray(tab, k) THEN k - 1
    ELSE LET n == FindNode(tab, k, TRUE)
         IN IF n = -1 THEN -2 ELSE NodeSlot(tab, n)

SlotKey(tab, p) ==
    IF p < Len(tab.array) THEN p + 1 ELSE gnode(tab, p - Len(tab.array)).key

luaH_next(tab, k) ==
    LET i == findindex(tab, k)
        rest == {p \in (i + 1)..(Len(tab.array) + sizenode(tab) - 1) : SlotValue(tab, p) # Nil}
    IN IF rest = {} THEN -1 ELSE Min(rest)

-----------------------------------------------------------------------------
(* Length.  i is present or 0, j is absent.                                *)

RECURSIVE BinarySearch(_, _, _), unbound_search(_, _, _)
BinarySearch(tab, i, j) ==
    IF j - i <= 1 THEN i
    ELSE LET m == (i + j) \div 2
         IN IF Get(tab, m) = Nil THEN BinarySearch(tab, i, m) ELSE BinarySearch(tab, m, j)

LinearSearch(tab) == CHOOSE i \in 0..MAX_INT :
    (i = MAX_INT \/ Get(tab, i + 1) = Nil) /\ \A j \in 1..i : Get(tab, j) # Nil

unbound_search(tab, i, j) ==
    IF Get(tab, j) = Nil THEN BinarySearch(tab, i, j)
    ELSE IF 2 * j > MAX_INT THEN LinearSearch(tab)
    ELSE unbound_search(tab, j, 2 * j)

(* Mutant: a full array part ends the table.                               *)
luaH_getnArray(tab) ==
    LET j == Len(tab.array)
    IN IF j > 0 /\ tab.array[j] = Nil THEN BinarySearch(tab, 0, j) ELSE j

luaH_getn(tab) ==
    LET j == Len(tab.array)
    IN IF j > 0 /\ tab.array[j] = Nil THEN BinarySearch(tab, 0, j)
       ELSE IF sizenode(tab) = 0 THEN j
       ELSE unbound_search(tab, j, j + 1)

-----------------------------------------------------------------------------
TableInit ==
    /\ \E na \in ArraySizes, nh \in HashSizes : t = luaH_new(na, nh)
    /\ hash \in Hashes
    /\ cursor = Idle /\ seen = {} /\ invalid = FALSE

Abandon == cursor' = Idle /\ seen' = {}

(* lua_rawset, luaV_settable: a field that does not exist gets a node even *)
(* when the value is nil.                                                  *)
SetField(k, v) ==
    /\ t' = Store(t, k, v)
    /\ IF Get(t, k) = Nil THEN Abandon ELSE UNCHANGED <<cursor, seen>>
    /\ UNCHANGED <<hash, invalid>>

(* OP_SETLIST: fields n down to 1 of a constructor, which may have set any  *)
(* other fields before.                                                    *)
SetList(n, v) ==
    /\ cursor = Idle
    /\ LET grown == IF n > Len(t.array)
                    THEN luaH_resizearray([t EXCEPT !.rehashed = 0], n)
                    ELSE [t EXCEPT !.rehashed = 0]
           fill(tab, i) == LET s == luaH_set(tab, n + 1 - i) IN PutSlot(s.tab, s.slot, v)
       IN t' = Fold(fill, grown, [i \in 1..n |-> i])
    /\ Abandon
    /\ UNCHANGED <<hash, invalid>>

StartTraversal ==
    /\ cursor = Idle
    /\ cursor' = Nil /\ seen' = {}
    /\ UNCHANGED <<t, hash, invalid>>

NextField ==
    /\ cursor # Idle
    /\ LET p == luaH_next(t, cursor)
       IN IF findindex(t, cursor) = -2 THEN invalid' = TRUE /\ Abandon
          ELSE /\ UNCHANGED invalid
               /\ IF p = -1 THEN Abandon
                  ELSE cursor' = SlotKey(t, p) /\ seen' = seen \cup {cursor'}
    /\ UNCHANGED <<t, hash>>

(* traversetable marks the keys of empty entries as dead.                  *)
Collect ==
    /\ t' = [t EXCEPT
               !.node = [i \in DOMAIN @ |->
                           [@[i] EXCEPT !.dead = @ \/ (t.node[i].val = Nil
                                                      /\ t.node[i].key \in Collectable)]],
               !.rehashed = 0]
    /\ UNCHANGED <<hash, cursor, seen, invalid>>

(* cleartable: a pair of a weak table goes away because of its value or of *)
(* its key; a key on the stack of the traversal is alive, its value need   *)
(* not be.                                                                 *)
ClearWeak(k) ==
    /\ t' = [t EXCEPT
               !.array = [i \in DOMAIN @ |-> IF i = k THEN Nil ELSE @[i]],
               !.node = [i \in DOMAIN @ |->
                           IF @[i].key # k \/ @[i].val = Nil THEN @[i]
                           ELSE [@[i] EXCEPT !.val = Nil, !.dead = k \in Collectable]],
               !.rehashed = 0]
    /\ UNCHANGED <<hash, cursor, seen, invalid>>

TableNext ==
    \/ \E k \in UsedKey, v \in Value \cup {Nil} : SetField(k, v)
    \/ \E n \in Lists, v \in Value : SetList(n, v)
    \/ StartTraversal
    \/ NextField
    \/ Collect
    \/ \E k \in UsedKey : ClearWeak(k)

TableSpec == TableInit /\ [][TableNext]_tableVars
=============================================================================
