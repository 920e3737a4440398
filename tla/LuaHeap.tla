------------------------------ MODULE LuaHeap ------------------------------
(***************************************************************************)
(* The heap of the Lua 5.1.5 runtime as a Lua or C program sees it: the    *)
(* objects, the references between them and the operations that change     *)
(* them (lapi.c, lvm.c, ltable.c, lfunc.c, lstring.c, lstate.c), together  *)
(* with the promise the garbage collector makes about it.  Nothing here    *)
(* mentions colours, barriers or phases: an object may be freed only while *)
(* it cannot be reached from the roots, a pair leaves a weak table only    *)
(* when one of its halves is gone, and a finalizer runs once, before its   *)
(* userdata is freed.  LuaGC conjoins the incremental collector of lgc.c   *)
(* with these operations and is checked to implement HeapSpec.             *)
(*                                                                         *)
(* Every function is total over Object: an object that has no such field   *)
(* keeps the neutral value (Nil or {}), and so does an unallocated one.    *)
(***************************************************************************)
EXTENDS Naturals, Sequences, FiniteSets

CONSTANTS
    Table, Closure, Udata, UpVal, Str, Thread,  \* the kinds of GCObject
    NativeClosure, \* closures that hold values directly: CClosure, and Proto
    FixedStr,      \* strings with FIXEDBIT (reserved words, event names)
    MainThread,    \* G(L)->mainthread
    Registry,      \* registry(L)
    Globals,       \* gt(L) of the main thread when the state is created
    Slot,          \* live stack slots of a thread (a bound)
    ArrayKey,      \* non-collectable keys that live in the array part
    FieldKey,      \* non-collectable keys that live in the hash part
    BasicType,     \* types whose metatable lives in G(L)->mt
    Metafields,    \* the sets of __mode / __gc fields a metatable may have
    MaxEntry,      \* entries per table (a bound)
    Nil

Object == Table \cup Closure \cup Udata \cup UpVal \cup Str \cup Thread

PlainKey == ArrayKey \cup FieldKey

ASSUME KindsDisjoint ==
    /\ Table \cap (Closure \cup Udata \cup UpVal \cup Str \cup Thread) = {}
    /\ Closure \cap (Udata \cup UpVal \cup Str \cup Thread) = {}
    /\ Udata \cap (UpVal \cup Str \cup Thread) = {}
    /\ UpVal \cap (Str \cup Thread) = {}
    /\ Str \cap Thread = {}
    /\ Nil \notin Object
    /\ PlainKey \cap (Object \cup {Nil}) = {}
    /\ ArrayKey \cap FieldKey = {}

ASSUME NilAssumption == Nil \notin Thread \X Slot

ASSUME RootsAssumption ==
    /\ MainThread \in Thread
    /\ Registry \in Table
    /\ Globals \in Table
    /\ NativeClosure \subseteq Closure
    /\ FixedStr \subseteq Str

ASSUME BoundsAssumption ==
    /\ Slot \subseteq Nat
    /\ MaxEntry \in Nat
    /\ Metafields \subseteq SUBSET {"k", "v", "gc"}
    /\ {} \in Metafields

VARIABLES
    alloc,     \* the objects that are allocated
    meta,      \* metatable of a table or a userdata
    env,       \* environment of a closure or a userdata, gt() of a thread
    entries,   \* <<key, value>> pairs of a table
    tm,        \* which of __mode = "k"/"v" and __gc the table has as fields
    upv,       \* what a closure captures: UpVals, or values if it is native
    loc,       \* <<thread, slot>> an open UpVal points at, Nil when closed
    val,       \* value of a closed UpVal
    stack,     \* live slots of each thread
    basicmt,   \* G(L)->mt
    co,        \* the main thread and the coroutines resumed from it, in order
    tmudata,   \* userdata waiting for their finalizer
    finalized, \* userdata with FINALIZEDBIT
    called     \* userdata whose __gc was called (history)

heapVars == <<alloc, meta, env, entries, tm, upv, loc, val, stack, basicmt,
              co, tmudata, finalized, called>>

HeapTypeOK ==
    /\ alloc \subseteq Object
    /\ meta \in [Object -> Table \cup {Nil}]
    /\ env \in [Object -> Table \cup {Nil}]
    /\ entries \in [Object -> SUBSET ((Object \cup PlainKey) \X Object)]
    /\ tm \in [Object -> SUBSET {"k", "v", "gc"}]
    /\ upv \in [Object -> SUBSET Object]
    /\ loc \in [Object -> (Thread \X Slot) \cup {Nil}]
    /\ val \in [Object -> Object \cup {Nil}]
    /\ stack \in [Thread -> [Slot -> Object \cup {Nil}]]
    /\ basicmt \in [BasicType -> Table \cup {Nil}]
    /\ co \in Seq(Thread) /\ co # <<>>
    /\ tmudata \subseteq Udata
    /\ finalized \subseteq Udata
    /\ called \subseteq Udata

-----------------------------------------------------------------------------
(* References.                                                             *)

L == co[Len(co)]                        \* the running thread

Open(u) == loc[u] # Nil

UpValue(u) == IF Open(u) THEN stack[loc[u][1]][loc[u][2]] ELSE val[u]

HasMode(t, w) == meta[t] # Nil /\ w \in tm[meta[t]]

WeakKey(t) == HasMode(t, "k")
WeakValue(t) == HasMode(t, "v")
IsWeak(t) == t \in Table /\ (WeakKey(t) \/ WeakValue(t))

HasGC(u) == HasMode(u, "gc")

KeysOf(t) == {e[1] : e \in entries[t]} \cap Object
ValuesOf(t) == {e[2] : e \in entries[t]}

Resumed(th) == {co[i + 1] : i \in {j \in 1 .. Len(co) - 1 : co[j] = th}}

StackOf(th) == {stack[th][s] : s \in Slot}

(* What an object refers to apart from table entries.                      *)
Fixtures(o) ==
    (({meta[o], env[o]} \cup upv[o]
      \cup (IF o \in UpVal THEN {UpValue(o)} ELSE {})
      \cup (IF o \in Thread THEN StackOf(o) \cup Resumed(o) ELSE {})) \ {Nil})

Refs(o) == Fixtures(o) \cup KeysOf(o) \cup ValuesOf(o)

(* Strings "behave as values" in weak tables (iscleared).                  *)
Held(o) ==
    Fixtures(o)
      \cup (IF WeakKey(o) THEN KeysOf(o) \cap Str ELSE KeysOf(o))
      \cup (IF WeakValue(o) THEN ValuesOf(o) \cap Str ELSE ValuesOf(o))

Roots == ({MainThread, Registry} \cup {basicmt[b] : b \in BasicType}
            \cup FixedStr \cup tmudata) \ {Nil}

Closed(R) == \A o \in R : Held(o) \subseteq R

(* No object of D can be reached from the roots.                           *)
Garbage(D) == \E R \in SUBSET (alloc \ D) : Roots \subseteq R /\ Closed(R)

(* What the running program can name: its slots and the pseudo-indices.    *)
Accessible == ({stack[L][s] : s \in Slot} \cup {Registry, env[L]}) \ {Nil}

(* What it can copy into a slot: also what those objects refer to.         *)
Readable ==
    Accessible \cup
    UNION { (Refs(o) \cup {UpValue(u) : u \in upv[o] \cap UpVal})
              \ (UpVal \cup {Nil}) : o \in Accessible }

-----------------------------------------------------------------------------
(* Operations of the program.                                              *)

Assign(s, v) == stack' = [stack EXCEPT ![L][s] = v]

(* Loads, moves and pops: every instruction or API call whose only effect  *)
(* is to change a slot of the running thread.                              *)
HLoad(s, v) ==
    /\ Assign(s, v)
    /\ UNCHANGED <<alloc, meta, env, entries, tm, upv, loc, val, basicmt, co,
                   tmudata, finalized, called>>

(* luaH_new, luaS_newudata, luaE_newthread, a native closure, a string:    *)
(* the object is allocated and its value pushed.                           *)
HNew(s, o, e, captured) ==
    /\ alloc' = alloc \cup {o}
    /\ env' = [env EXCEPT ![o] = e]
    /\ upv' = [upv EXCEPT ![o] = captured]
    /\ Assign(s, o)
    /\ UNCHANGED <<meta, entries, tm, loc, val, basicmt, co, tmudata,
                   finalized, called>>

(* OP_CLOSURE: the new closure f captures u, which is created open on      *)
(* `place' unless it exists already.                                       *)
HNewClosure(s, f, u, place) ==
    /\ alloc' = alloc \cup {f, u}
    /\ env' = [env EXCEPT ![f] = env[L]]
    /\ upv' = [upv EXCEPT ![f] = {u}]
    /\ loc' = IF u \in alloc THEN loc ELSE [loc EXCEPT ![u] = place]
    /\ Assign(s, f)
    /\ UNCHANGED <<meta, entries, tm, val, basicmt, co, tmudata, finalized,
                   called>>

HSetTable(t, k, v) ==
    /\ entries' = [entries EXCEPT ![t] =
                     {e \in @ : e[1] # k} \cup (IF v = Nil THEN {} ELSE {<<k, v>>})]
    /\ UNCHANGED <<alloc, meta, env, tm, upv, loc, val, stack, basicmt, co,
                   tmudata, finalized, called>>

(* A store to the "__mode" or "__gc" field of a metatable.                 *)
HSetMetafields(m, fields) ==
    /\ tm' = [tm EXCEPT ![m] = fields]
    /\ UNCHANGED <<alloc, meta, env, entries, upv, loc, val, stack, basicmt,
                   co, tmudata, finalized, called>>

HSetMetatable(o, m) ==
    /\ meta' = [meta EXCEPT ![o] = m]
    /\ UNCHANGED <<alloc, env, entries, tm, upv, loc, val, stack, basicmt, co,
                   tmudata, finalized, called>>

HSetBasicMetatable(b, m) ==
    /\ basicmt' = [basicmt EXCEPT ![b] = m]
    /\ UNCHANGED <<alloc, meta, env, entries, tm, upv, loc, val, stack, co,
                   tmudata, finalized, called>>

HSetFenv(o, e) ==
    /\ env' = [env EXCEPT ![o] = e]
    /\ UNCHANGED <<alloc, meta, entries, tm, upv, loc, val, stack, basicmt, co,
                   tmudata, finalized, called>>

(* A store to a native closure's own upvalue (or to a Proto's constants).  *)
HSetCapture(f, v) ==
    /\ upv' = [upv EXCEPT ![f] = {v} \ {Nil}]
    /\ UNCHANGED <<alloc, meta, env, entries, tm, loc, val, stack, basicmt, co,
                   tmudata, finalized, called>>

HSetUpval(u, v) ==
    /\ IF Open(u)
         THEN /\ stack' = [stack EXCEPT ![loc[u][1]][loc[u][2]] = v]
              /\ val' = val
         ELSE /\ val' = [val EXCEPT ![u] = v]
              /\ stack' = stack
    /\ UNCHANGED <<alloc, meta, env, entries, tm, upv, loc, basicmt, co,
                   tmudata, finalized, called>>

OpenAbove(th, s) == {u \in UpVal : Open(u) /\ loc[u][1] = th /\ loc[u][2] >= s}

(* luaF_close: upvalues at or above level s take their value with them;    *)
(* those in D are freed instead.                                           *)
HCloseUpvals(s, D) ==
    LET C == OpenAbove(L, s) IN
    /\ alloc' = alloc \ D
    /\ loc' = [u \in Object |-> IF u \in C THEN Nil ELSE loc[u]]
    /\ val' = [u \in Object |-> IF u \in C \ D THEN UpValue(u) ELSE val[u]]
    /\ UNCHANGED <<meta, env, entries, tm, upv, stack, basicmt, co, tmudata,
                   finalized, called>>

HXMove(th, s, v) ==
    /\ stack' = [stack EXCEPT ![th][s] = v]
    /\ UNCHANGED <<alloc, meta, env, entries, tm, upv, loc, val, basicmt, co,
                   tmudata, finalized, called>>

HResume(th) ==
    /\ co' = Append(co, th)
    /\ UNCHANGED <<alloc, meta, env, entries, tm, upv, loc, val, stack,
                   basicmt, tmudata, finalized, called>>

HYield ==
    /\ co' = SubSeq(co, 1, Len(co) - 1)
    /\ UNCHANGED <<alloc, meta, env, entries, tm, upv, loc, val, stack,
                   basicmt, tmudata, finalized, called>>

-----------------------------------------------------------------------------
(* What the collector may do.                                              *)

(* Free the objects of D.  A freed thread closes the upvalues still open   *)
(* on its stack (luaE_freethread), which outlive it.                       *)
HFree(D) ==
    LET orphan(u) == Open(u) /\ loc[u][1] \in D IN
    /\ alloc' = alloc \ D
    /\ meta' = [o \in Object |-> IF o \in D THEN Nil ELSE meta[o]]
    /\ env' = [o \in Object |-> IF o \in D THEN Nil ELSE env[o]]
    /\ entries' = [o \in Object |-> IF o \in D THEN {} ELSE entries[o]]
    /\ tm' = [o \in Object |-> IF o \in D THEN {} ELSE tm[o]]
    /\ upv' = [o \in Object |-> IF o \in D THEN {} ELSE upv[o]]
    /\ loc' = [o \in Object |-> IF o \in D \/ orphan(o) THEN Nil ELSE loc[o]]
    /\ val' = [o \in Object |-> IF o \in D THEN Nil
                                ELSE IF orphan(o) THEN UpValue(o) ELSE val[o]]
    /\ stack' = [t \in Thread |-> IF t \in D THEN [s \in Slot |-> Nil]
                                  ELSE stack[t]]
    /\ finalized' = finalized \ D
    /\ called' = called \ D
    /\ UNCHANGED <<basicmt, co, tmudata>>

(* Hand over to their finalizers those of the userdata S that have one.    *)
HSeparate(S) ==
    /\ finalized' = finalized \cup S
    /\ tmudata' = tmudata \cup {u \in S : HasGC(u)}
    /\ UNCHANGED <<alloc, meta, env, entries, tm, upv, loc, val, stack,
                   basicmt, co, called>>

(* Remove pairs from tables.                                               *)
HClearWeak ==
    /\ entries' \in [Object -> SUBSET UNION {entries[t] : t \in Object}]
    /\ \A t \in Object : entries'[t] \subseteq entries[t]
    /\ UNCHANGED <<alloc, meta, env, tm, upv, loc, val, stack, basicmt, co,
                   tmudata, finalized, called>>

(* GCTM: take u out of tmudata and, if it still has __gc, call it with u   *)
(* in a slot of the running thread.                                        *)
HCallGC(u, s) ==
    /\ tmudata' = tmudata \ {u}
    /\ IF HasGC(u)
         THEN /\ called' = called \cup {u}
              /\ Assign(s, u)
         ELSE UNCHANGED <<called, stack>>
    /\ UNCHANGED <<alloc, meta, env, entries, tm, upv, loc, val, basicmt, co,
                   finalized>>

-----------------------------------------------------------------------------
(* The promise.                                                            *)

HeapInit ==
    /\ alloc = {MainThread, Registry, Globals} \cup FixedStr
    /\ meta = [o \in Object |-> Nil]
    /\ env = [o \in Object |-> IF o = MainThread THEN Globals ELSE Nil]
    /\ entries = [o \in Object |-> {}]
    /\ tm = [o \in Object |-> {}]
    /\ upv = [o \in Object |-> {}]
    /\ loc = [o \in Object |-> Nil]
    /\ val = [o \in Object |-> Nil]
    /\ stack = [t \in Thread |-> [s \in Slot |-> Nil]]
    /\ basicmt = [b \in BasicType |-> Nil]
    /\ co = <<MainThread>>
    /\ tmudata = {}
    /\ finalized = {}
    /\ called = {}

(* The pairs a collection may drop from a weak table: a non-string half    *)
(* that nothing else keeps alive, or a value that was being finalized.     *)
Clearable(t, e) ==
    /\ IsWeak(t)
    /\ \/ \E x \in ({e[1], e[2]} \cap Object) \ Str : Garbage({x})
       \/ e[2] \in finalized

(* What no reference leads to, but for those of userdata that wait for     *)
(* their finalizer already: marktmu runs after separateudata, and a        *)
(* userdata that is still in tmudata when luaC_fullgc starts to mark is    *)
(* black, so that nothing looks into it before.                            *)
Separable(S) ==
    \E R \in SUBSET (alloc \ S) :
      /\ Roots \ tmudata \subseteq R
      /\ \A o \in R \ tmudata : Held(o) \subseteq R

AbstractMutator ==
    \/ \E s \in Slot :
         \/ \E v \in Readable \cup {Nil} : HLoad(s, v)
         \/ \E o \in Object \ UpVal, e \in Accessible \cup {Nil},
                c \in {{}} \cup {{x} : x \in Accessible} : HNew(s, o, e, c)
         \/ \E f \in Closure, u \in UpVal, p \in Slot :
                HNewClosure(s, f, u, <<L, p>>)
         \/ \E D \in SUBSET OpenAbove(L, s) : HCloseUpvals(s, D) /\ Garbage(D)
         \/ \E th \in Accessible \cap Thread, v \in Accessible : HXMove(th, s, v)
    \/ \E t \in Accessible, k \in Accessible \cup PlainKey,
           v \in Accessible \cup {Nil} : HSetTable(t, k, v)
    \/ \E m \in Accessible, fields \in Metafields : HSetMetafields(m, fields)
    \/ \E o \in Accessible, m \in Accessible \cup {Nil} : HSetMetatable(o, m)
    \/ \E b \in BasicType, m \in Accessible \cup {Nil} : HSetBasicMetatable(b, m)
    \/ \E o \in Accessible, e \in Accessible : HSetFenv(o, e)
    \/ \E f \in Accessible, v \in Accessible \cup {Nil} : HSetCapture(f, v)
    \/ \E f \in Accessible, v \in Accessible \cup {Nil} :
           \E u \in upv[f] : HSetUpval(u, v)
    \/ \E th \in Accessible \cap Thread : HResume(th)
    \/ Len(co) > 1 /\ HYield

AbstractCollector ==
    \/ \E D \in SUBSET alloc : HFree(D) /\ Garbage(D)
    \/ \E S \in SUBSET ((Udata \cap alloc) \ finalized) :
           HSeparate(S) /\ Separable(S)
    \/ /\ HClearWeak
       /\ \A t \in Object : \A e \in entries[t] \ entries'[t] : Clearable(t, e)
    \/ \E u \in tmudata, s \in Slot : HCallGC(u, s)

HeapNext == AbstractMutator \/ AbstractCollector

HeapSpec == HeapInit /\ [][HeapNext]_heapVars

=============================================================================
