------------------------------- MODULE LuaGC -------------------------------
(***************************************************************************)
(* The incremental tri-colour mark-and-sweep collector of Lua 5.1.5        *)
(* (lgc.c, lgc.h) running against the program that changes the heap        *)
(* (lapi.c, lvm.c, ltable.c, lfunc.c, lstring.c, lstate.c).                *)
(*                                                                         *)
(* One action per singlestep() of the collector and one per operation of   *)
(* the program.  luaC_checkGC may run any number of single steps between   *)
(* two operations, so the two interleave freely, except inside atomic()    *)
(* (variable `stage') and inside luaC_fullgc (variable `fullgc'), which    *)
(* do not return to the program.  The lists linked through `gclist' and    *)
(* the unswept rest of `rootgc' are sets: the order in which they are      *)
(* visited is left open.                                                   *)
(***************************************************************************)
EXTENDS LuaHeap

CONSTANTS
    NBucket,   \* G(L)->strt.size
    Bucket,    \* the string-table bucket each string hashes to
    Ops        \* the stores the program performs (a bound on each instance)

AllOps == {"settable", "objectkey", "metafields", "setmetatable",
           "udatametatable", "basicmt", "setfenv", "setcapture", "setupval", "debug.setupvalue", "xmove",
           "fullgc"}

ASSUME StringTableAssumption ==
    /\ NBucket \in Nat \ {0}
    /\ Bucket \in [Str -> 0 .. NBucket - 1]
    /\ Ops \subseteq AllOps

VARIABLES
    mark,         \* colour bits of `marked'; "none" for unallocated objects
    currentwhite, \* the white new objects get
    gcstate,
    stage,        \* how far atomic() has got, 0 outside it
    gray, grayagain, weak,  \* the lists linked through gclist
    sweepgc,      \* objects of rootgc the sweep has not visited yet
    sweepstrgc,   \* next bucket of the string table to sweep
    fullgc        \* progress of luaC_fullgc, "no" when it is not running

gcVars == <<mark, currentwhite, gcstate, stage, gray, grayagain, weak,
            sweepgc, sweepstrgc, fullgc>>

vars == <<heapVars, gcVars>>

Whites == {"white0", "white1"}
Colour == Whites \cup {"gray", "black", "none"}
GCState == {"pause", "propagate", "sweepstring", "sweep", "finalize"}
FullGC == {"no", "pending", "cycle", "finalizer"}

GCTypeOK ==
    /\ mark \in [Object -> Colour]
    /\ currentwhite \in Whites
    /\ gcstate \in GCState
    /\ stage \in 0 .. 4
    /\ gray \subseteq Object
    /\ grayagain \subseteq Object
    /\ weak \subseteq Object
    /\ sweepgc \subseteq Object
    /\ sweepstrgc \in 0 .. NBucket
    /\ fullgc \in FullGC

TypeOK == HeapTypeOK /\ GCTypeOK

-----------------------------------------------------------------------------
(* Colours and marking.                                                    *)

otherwhite == IF currentwhite = "white0" THEN "white1" ELSE "white0"

IsWhite(o) == mark[o] \in Whites
IsDead(o) == mark[o] = otherwhite

(* Mutant: sweeplist tests the object after it turned it white.            *)
DoomedNever(o) == FALSE

(* What the sweep under way frees: FIXEDBIT makes sweeplist spare a dead   *)
(* object.                                                                 *)
Doomed(o) == IsDead(o) /\ o \notin FixedStr

(* Mutant: makewhite leaves the black bit alone.                           *)
MakeWhiteBlackBit(o) ==
    IF mark[o] = "black" THEN mark ELSE [mark EXCEPT ![o] = currentwhite]

MakeWhite(o) == [mark EXCEPT ![o] = currentwhite]

(* Kinds that wait in a gclist for their traversal.                        *)
Listed == Table \cup Closure \cup Thread

White(S) == {o \in S : IsWhite(o)}

(* The objects reallymarkobject turns from white when it is applied to     *)
(* each white object of S: a userdata is traversed at once, and an upvalue *)
(* marks its value at once.                                                *)
ReallyMarked(S) ==
    LET direct == White(S)
        values == White({UpValue(u) : u \in direct \cap UpVal} \ {Nil})
        tables == White((UNION {{meta[u], env[u]} :
                                u \in (direct \cup values) \cap Udata}) \ {Nil})
    IN direct \cup values \cup tables

(* `mark' after reallymarkobject turned the objects of W.                  *)
Painted(W) ==
    [o \in Object |->
        IF o \notin W THEN mark[o]
        ELSE IF o \in Udata \/ (o \in UpVal /\ ~Open(o)) THEN "black"
        ELSE "gray"]

(* What traversetable, traverseclosure and traversestack mark.             *)
Traversed(o) ==
    Fixtures(o)
      \cup (IF WeakKey(o) THEN {} ELSE KeysOf(o))
      \cup (IF WeakValue(o) THEN {} ELSE ValuesOf(o))

(* Mutant: markmt does nothing.                                            *)
MarkMtNone == {}

MarkMt == {basicmt[b] : b \in BasicType} \ {Nil}

MarkRootSet == ({MainThread, Registry, env[MainThread]} \ {Nil}) \cup MarkMt

-----------------------------------------------------------------------------
(* The collector.                                                          *)

Running ==      \* whether the program, and not the collector, is executing
    stage = 0 /\ fullgc \in {"no", "finalizer"}

(* GCSpause, and the second half of luaC_fullgc.                           *)
MarkRoot ==
    /\ \/ gcstate = "pause" /\ fullgc' = fullgc
       \/ gcstate = "finalize" /\ fullgc = "pending" /\ fullgc' = "cycle"
    /\ LET W == ReallyMarked(MarkRootSet) IN
         /\ mark' = Painted(W)
         /\ gray' = W \cap Listed
    /\ grayagain' = {}
    /\ weak' = {}
    /\ gcstate' = "propagate"
    /\ UNCHANGED <<heapVars, currentwhite, stage, sweepgc, sweepstrgc>>

(* propagatemark: a thread goes to grayagain and a weak table to weak, and *)
(* both stay gray; anything else turns black.                              *)
PropagateMark(o) ==
    /\ gcstate = "propagate"
    /\ o \in gray
    /\ LET W == ReallyMarked(Traversed(o)) IN
         /\ mark' = [Painted(W) EXCEPT ![o] =
                       IF o \in Thread \/ IsWeak(o) THEN "gray" ELSE "black"]
         /\ gray' = (gray \ {o}) \cup (W \cap Listed)
    /\ grayagain' = grayagain \cup ({o} \cap Thread)
    /\ weak' = IF IsWeak(o) THEN weak \cup {o} ELSE weak
    /\ UNCHANGED <<heapVars, currentwhite, gcstate, stage, sweepgc,
                   sweepstrgc, fullgc>>

(* atomic() moves to its stage n when the gray list is empty again.        *)
AtomicStage(n) ==
    /\ gcstate = "propagate"
    /\ gray = {}
    /\ stage = n - 1
    /\ stage' = n
    /\ UNCHANGED <<currentwhite, gcstate, sweepgc, sweepstrgc, fullgc>>

(* Mutant: open upvalues are not remarked.                                 *)
RemarkUpvalsNone ==
    /\ AtomicStage(1)
    /\ UNCHANGED <<heapVars, mark, gray, grayagain, weak>>

RemarkUpvals ==
    /\ AtomicStage(1)
    /\ LET W == ReallyMarked({UpValue(u) : u \in {x \in UpVal :
                                 Open(x) /\ mark[x] = "gray"}} \ {Nil}) IN
         /\ mark' = Painted(W)
         /\ gray' = W \cap Listed
    /\ UNCHANGED <<heapVars, grayagain, weak>>

RemarkWeak ==
    /\ AtomicStage(2)
    /\ LET W == ReallyMarked({L} \cup MarkMt) IN
         /\ mark' = Painted(W)
         /\ gray' = weak \cup (W \cap Listed)
    /\ weak' = {}
    /\ UNCHANGED <<heapVars, grayagain>>

RemarkGrayAgain ==
    /\ AtomicStage(3)
    /\ gray' = grayagain
    /\ grayagain' = {}
    /\ UNCHANGED <<heapVars, mark, weak>>

(* Mutant: a userdata without __gc does not get FINALIZEDBIT.              *)
ToSeparateOnlyGC == White({u \in (Udata \cap alloc) \ finalized : HasGC(u)})

ToSeparate == White((Udata \cap alloc) \ finalized)

(* Mutant: marktmu is not called.                                          *)
MarkTmuNone == {}

(* marktmu also marks again the userdata left from an earlier cycle.       *)
MarkTmu == tmudata' \cup ReallyMarked(UNION {Fixtures(u) : u \in tmudata'})

(* luaC_separateudata(L, 0) and marktmu.                                   *)
SeparateUdata ==
    /\ AtomicStage(4)
    /\ HSeparate(ToSeparate)
    /\ mark' = Painted(MarkTmu)
    /\ gray' = MarkTmu \cap Listed
    /\ UNCHANGED <<grayagain, weak>>

(* Mutant: userdata being finalized are dropped as keys, too.              *)
IsClearedFinalizedKey(x, iskey) ==
    x \in Object \ Str /\ (IsWhite(x) \/ (x \in Udata /\ x \in finalized))

(* iscleared: userdata being finalized stay as keys but not as values.     *)
IsCleared(x, iskey) ==
    /\ x \in Object \ Str
    /\ IsWhite(x) \/ (x \in Udata /\ ~iskey /\ x \in finalized)

(* Mutant: cleartable tests the values only.                               *)
ClearedByValue(t) == {e \in entries[t] : IsCleared(e[2], FALSE)}

(* cleartable looks at array slots only in tables with weak values.        *)
Cleared(t) ==
    {e \in entries[t] : IF e[1] \in ArrayKey
                          THEN WeakValue(t) /\ IsCleared(e[2], FALSE)
                          ELSE IsCleared(e[1], TRUE) \/ IsCleared(e[2], FALSE)}

(* Mutant: iscleared does not mark strings.                                *)
StringsMarkedNone == {}

(* The strings iscleared marks on its way.                                 *)
StringsMarked ==
    (UNION { {e[1] : e \in entries[t]}
               \cup {e[2] : e \in {x \in entries[t] : ~IsCleared(x[1], TRUE)}}
             : t \in weak }) \cap Str

ClearWeakAndFlip ==
    /\ gcstate = "propagate"
    /\ gray = {}
    /\ stage = 4
    /\ entries' = [t \in Object |->
                     IF t \in weak THEN entries[t] \ Cleared(t) ELSE entries[t]]
    /\ mark' = [o \in Object |->
                  IF o \in White(StringsMarked) THEN "gray" ELSE mark[o]]
    /\ currentwhite' = otherwhite
    /\ sweepstrgc' = 0
    /\ sweepgc' = {o \in alloc \ (Str \cup tmudata) : ~Open(o)}
    /\ gcstate' = "sweepstring"
    /\ stage' = 0
    /\ UNCHANGED <<alloc, meta, env, tm, upv, loc, val, stack, basicmt, co,
                   tmudata, finalized, called, gray, grayagain, weak, fullgc>>

(* sweeplist on objects S: the dead ones are freed, the others get the     *)
(* current white for the next cycle.                                       *)
Sweep(S) ==
    LET D == {o \in S : Doomed(o)} IN
    /\ HFree(D)
    /\ mark' = [o \in Object |-> IF o \in D THEN "none"
                                 ELSE IF o \in S THEN currentwhite
                                 ELSE mark[o]]

(* Mutant: one bucket too many.                                            *)
LastBucketLate == sweepstrgc + 1 > NBucket

LastBucket == sweepstrgc + 1 >= NBucket

SweepString ==
    /\ gcstate = "sweepstring"
    /\ Sweep({o \in Str \cap alloc : Bucket[o] = sweepstrgc})
    /\ sweepstrgc' = sweepstrgc + 1
    /\ gcstate' = IF LastBucket THEN "sweep" ELSE gcstate
    /\ UNCHANGED <<currentwhite, stage, gray, grayagain, weak, sweepgc, fullgc>>

(* One object of rootgc; a thread brings its open upvalues along.          *)
SweepObject(o) ==
    /\ gcstate = "sweep"
    /\ o \in sweepgc
    /\ Sweep({o} \cup {u \in UpVal : Open(u) /\ loc[u][1] = o})
    /\ sweepgc' = sweepgc \ {o}
    /\ gcstate' = IF sweepgc' = {} THEN "finalize" ELSE gcstate
    /\ UNCHANGED <<currentwhite, stage, gray, grayagain, weak, sweepstrgc,
                   fullgc>>

(* GCTM.                                                                   *)
CallGCTM(u, s) ==
    /\ gcstate = "finalize"
    /\ fullgc # "pending"
    /\ u \in tmudata
    /\ HCallGC(u, s)
    /\ mark' = MakeWhite(u)
    /\ fullgc' = IF fullgc = "cycle" /\ HasGC(u) THEN "finalizer" ELSE fullgc
    /\ UNCHANGED <<currentwhite, gcstate, stage, gray, grayagain, weak,
                   sweepgc, sweepstrgc>>

EndCycle ==
    /\ gcstate = "finalize"
    /\ fullgc # "pending"
    /\ tmudata = {}
    /\ gcstate' = "pause"
    /\ fullgc' = "no"
    /\ UNCHANGED <<heapVars, mark, currentwhite, stage, gray, grayagain, weak,
                   sweepgc, sweepstrgc>>

Collector ==
    \/ MarkRoot
    \/ \E o \in gray : PropagateMark(o)
    \/ RemarkUpvals
    \/ RemarkWeak
    \/ RemarkGrayAgain
    \/ SeparateUdata
    \/ ClearWeakAndFlip
    \/ SweepString
    \/ \E o \in sweepgc : SweepObject(o)
    \/ \E u \in tmudata, s \in Slot : CallGCTM(u, s)
    \/ EndCycle

-----------------------------------------------------------------------------
(* Barriers.                                                               *)

(* Mutant: the black object turns white even while marking.                *)
BarrierForwardWhiten(o, v) ==
    /\ mark' = IF v # Nil /\ mark[o] = "black" /\ IsWhite(v)
                 THEN MakeWhite(o) ELSE mark
    /\ gray' = gray

(* Mutant: no barrier.                                                     *)
BarrierForwardNone(o, v) == UNCHANGED <<mark, gray>>

(* luaC_barrier and luaC_objbarrier: object o now refers to v.             *)
BarrierForward(o, v) ==
    IF v # Nil /\ mark[o] = "black" /\ IsWhite(v)
      THEN IF gcstate = "propagate"
             THEN LET W == ReallyMarked({v}) IN
                    /\ mark' = Painted(W)
                    /\ gray' = gray \cup (W \cap Listed)
             ELSE /\ mark' = MakeWhite(o)
                  /\ gray' = gray
      ELSE UNCHANGED <<mark, gray>>

(* Mutant: the table turns gray but is not linked into grayagain.          *)
BarrierBackUnlinked(t, S) ==
    /\ mark' = IF mark[t] = "black" /\ White(S \cap Object) # {}
                 THEN [mark EXCEPT ![t] = "gray"] ELSE mark
    /\ UNCHANGED grayagain

(* luaC_barriert and luaC_objbarriert: table t now refers to a member of S.*)
BarrierBack(t, S) ==
    IF mark[t] = "black" /\ White(S \cap Object) # {}
      THEN /\ mark' = [mark EXCEPT ![t] = "gray"]
           /\ grayagain' = grayagain \cup {t}
      ELSE UNCHANGED <<mark, grayagain>>

-----------------------------------------------------------------------------
(* The program.                                                            *)

Load(s, v) ==
    /\ HLoad(s, v)
    /\ UNCHANGED gcVars

(* luaC_link: a new object gets the current white.                         *)
Link(o) ==
    /\ mark' = MakeWhite(o)
    /\ UNCHANGED <<currentwhite, gcstate, stage, gray, grayagain, weak,
                   sweepgc, sweepstrgc, fullgc>>

NewTable(s, t) ==
    /\ t \in Table \ alloc
    /\ HNew(s, t, Nil, {})
    /\ Link(t)

NewUdata(s, u) ==
    /\ u \in Udata \ alloc
    /\ HNew(s, u, env[L], {})
    /\ Link(u)

NewThread(s, th) ==
    /\ th \in Thread \ alloc
    /\ HNew(s, th, env[L], {})
    /\ Link(th)

(* lua_pushcclosure, with an upvalue v.                                    *)
PushCClosure(s, f, v) ==
    /\ f \in NativeClosure \ alloc
    /\ HNew(s, f, env[L], {v})
    /\ Link(f)

(* Mutant: a dead string is returned as it is.                             *)
ResurrectedNot(o) == mark

Resurrected(o) == IF IsDead(o) THEN MakeWhite(o) ELSE mark

(* luaS_newlstr: an equal string may already be there, even a dead one.    *)
NewString(s, str) ==
    /\ IF str \notin alloc
         THEN HNew(s, str, Nil, {}) /\ Link(str)
         ELSE /\ HLoad(s, str)
              /\ mark' = Resurrected(str)
              /\ UNCHANGED <<currentwhite, gcstate, stage, gray, grayagain,
                             weak, sweepgc, sweepstrgc, fullgc>>

(* luaF_findupval: the open upvalues that already stand for slot p.        *)
UpvalsOn(p) == {u \in UpVal : loc[u] = <<L, p>>}

(* OP_CLOSURE with an upvalue: a local in slot p of the running function   *)
(* (found, resurrected or created) or one that closure g has.              *)
NewClosure(s, f, u, p) ==
    /\ f \in (Closure \ NativeClosure) \ alloc
    /\ \/ u \in UpvalsOn(p)
       \/ u \in UpVal \ alloc /\ UpvalsOn(p) = {}
       \/ \E g \in Accessible : u \in upv[g] \cap UpVal
    /\ HNewClosure(s, f, u, <<L, p>>)
    /\ mark' = [o \in Object |->
                  IF \/ o = f
                     \/ o = u /\ u \notin alloc
                     \/ o = u /\ u \in UpvalsOn(p) /\ IsDead(u)
                    THEN currentwhite ELSE mark[o]]
    /\ UNCHANGED <<currentwhite, gcstate, stage, gray, grayagain, weak,
                   sweepgc, sweepstrgc, fullgc>>

(* luaV_settable, lua_rawset, lua_rawseti: newkey has its own barrier.     *)
SetTable(t, k, v) ==
    /\ t \in Table
    /\ k \in Object \cup PlainKey
    /\ LET isnew == \A e \in entries[t] : e[1] # k IN
         /\ isnew /\ v # Nil => Cardinality(entries[t]) < MaxEntry
         /\ HSetTable(t, k, v)
         /\ BarrierBack(t, {v} \cup (IF isnew THEN {k} ELSE {}))
    /\ UNCHANGED <<currentwhite, gcstate, stage, gray, weak, sweepgc,
                   sweepstrgc, fullgc>>

(* A store to a metatable's __mode or __gc field.  Its key and value are   *)
(* not objects of the model: whether they are white, and the barrier that  *)
(* depends on it fires, is left open.                                      *)
SetMetafields(m, fields) ==
    /\ m \in Table
    /\ fields \in Metafields
    /\ HSetMetafields(m, fields)
    /\ \/ UNCHANGED <<mark, grayagain>>
       \/ /\ mark[m] = "black"
          /\ mark' = [mark EXCEPT ![m] = "gray"]
          /\ grayagain' = grayagain \cup {m}
    /\ UNCHANGED <<currentwhite, gcstate, stage, gray, weak, sweepgc,
                   sweepstrgc, fullgc>>

(* lua_setmetatable on a table.                                            *)
SetMetatable(t, m) ==
    /\ t \in Table
    /\ m \in Table \cup {Nil}
    /\ HSetMetatable(t, m)
    /\ BarrierBack(t, {m})
    /\ UNCHANGED <<currentwhite, gcstate, stage, gray, weak, sweepgc,
                   sweepstrgc, fullgc>>

(* lua_setmetatable on a userdata.                                         *)
SetUdataMetatable(u, m) ==
    /\ u \in Udata
    /\ m \in Table \cup {Nil}
    /\ HSetMetatable(u, m)
    /\ BarrierForward(u, m)
    /\ UNCHANGED <<currentwhite, gcstate, stage, grayagain, weak, sweepgc,
                   sweepstrgc, fullgc>>

(* lua_setmetatable on any other value: no barrier, markmt marks it again. *)
SetBasicMetatable(b, m) ==
    /\ m \in Table \cup {Nil}
    /\ HSetBasicMetatable(b, m)
    /\ UNCHANGED gcVars

(* lua_setfenv, and lua_replace on LUA_ENVIRONINDEX.                       *)
SetFenv(o, e) ==
    /\ o \in Closure \cup Udata \cup Thread
    /\ e \in Table
    /\ HSetFenv(o, e)
    /\ BarrierForward(o, e)
    /\ UNCHANGED <<currentwhite, gcstate, stage, grayagain, weak, sweepgc,
                   sweepstrgc, fullgc>>

(* lua_replace on an upvalue index, lua_setupvalue on a C closure, and     *)
(* addk, the parser's stores to a Proto.                                   *)
SetCapture(f, v) ==
    /\ f \in NativeClosure
    /\ HSetCapture(f, v)
    /\ BarrierForward(f, v)
    /\ UNCHANGED <<currentwhite, gcstate, stage, grayagain, weak, sweepgc,
                   sweepstrgc, fullgc>>

(* OP_SETUPVAL: the barrier is on the upvalue.                             *)
SetUpval(f, u, v) ==
    /\ f \in Closure \ NativeClosure
    /\ u \in upv[f]
    /\ HSetUpval(u, v)
    /\ BarrierForward(u, v)
    /\ UNCHANGED <<currentwhite, gcstate, stage, grayagain, weak, sweepgc,
                   sweepstrgc, fullgc>>

(* lua_setupvalue on a Lua closure: the barrier is on the closure.         *)
DebugSetUpvalue(f, u, v) ==
    /\ f \in Closure \ NativeClosure
    /\ u \in upv[f]
    /\ HSetUpval(u, v)
    /\ BarrierForward(f, v)
    /\ UNCHANGED <<currentwhite, gcstate, stage, grayagain, weak, sweepgc,
                   sweepstrgc, fullgc>>

(* Mutant: luaC_linkupval blackens a gray upvalue without a barrier.       *)
ClosingMarksNone(G) == {}

ClosingMarks(G) == ReallyMarked({UpValue(u) : u \in G} \ {Nil})

(* luaF_close: dead upvalues are freed; luaC_linkupval blackens a gray one *)
(* (with a barrier) while marking and whitens it while sweeping.           *)
CloseUpvals(s) ==
    LET C == OpenAbove(L, s)
        D == {u \in C : IsDead(u)}
        G == {u \in C : mark[u] = "gray"}
        W == IF gcstate = "propagate" THEN ClosingMarks(G) ELSE {}
    IN
    /\ C # {}
    /\ HCloseUpvals(s, D)
    /\ mark' = [o \in Object |->
                  IF o \in D THEN "none"
                  ELSE IF o \notin G THEN Painted(W)[o]
                  ELSE IF gcstate = "propagate" THEN "black"
                  ELSE currentwhite]
    /\ gray' = gray \cup (W \cap Listed)
    /\ UNCHANGED <<currentwhite, gcstate, stage, grayagain, weak, sweepgc,
                   sweepstrgc, fullgc>>

(* lua_xmove to a coroutine that is not running.                           *)
XMove(th, s, v) ==
    /\ th \in Thread \ {co[i] : i \in DOMAIN co}
    /\ HXMove(th, s, v)
    /\ UNCHANGED gcVars

Resume(th) ==
    /\ th \in Thread \ {co[i] : i \in DOMAIN co}
    /\ HResume(th)
    /\ UNCHANGED gcVars

Yield ==
    /\ Len(co) > 1
    /\ HYield
    /\ UNCHANGED gcVars

(* Mutant: the cycle under way counts as the full collection.              *)
StartFullGCNoRestart ==
    /\ fullgc' = "cycle"
    /\ UNCHANGED <<heapVars, mark, currentwhite, gcstate, stage, gray,
                   grayagain, weak, sweepgc, sweepstrgc>>

(* luaC_fullgc up to its first single step.                                *)
StartFullGC ==
    /\ IF gcstate \in {"pause", "propagate"}
         THEN /\ sweepstrgc' = 0
              /\ sweepgc' = {o \in alloc \ (Str \cup tmudata) : ~Open(o)}
              /\ gray' = {} /\ grayagain' = {} /\ weak' = {}
              /\ gcstate' = "sweepstring"
         ELSE UNCHANGED <<sweepstrgc, sweepgc, gray, grayagain, weak, gcstate>>
    /\ fullgc' = "pending"
    /\ UNCHANGED <<heapVars, mark, currentwhite, stage>>

(* An error in a finalizer unwinds luaC_fullgc.                            *)
FinalizerError ==
    /\ fullgc = "finalizer"
    /\ fullgc' = "no"
    /\ UNCHANGED <<heapVars, mark, currentwhite, gcstate, stage, gray,
                   grayagain, weak, sweepgc, sweepstrgc>>

Allocate ==
    \E s \in Slot :
      \/ \E t \in Table : NewTable(s, t)
      \/ \E u \in Udata : NewUdata(s, u)
      \/ \E th \in Thread : NewThread(s, th)
      \/ \E f \in NativeClosure, v \in Accessible : PushCClosure(s, f, v)
      \/ \E str \in Str : NewString(s, str)
      \/ \E f \in Closure, u \in UpVal, p \in Slot : NewClosure(s, f, u, p)

Store ==
    \/ /\ "settable" \in Ops
       /\ \E t \in Accessible, v \in Accessible \cup {Nil} :
            \E k \in PlainKey \cup (IF "objectkey" \in Ops THEN Accessible ELSE {}) :
              SetTable(t, k, v)
    \/ /\ "metafields" \in Ops
       /\ \E m \in Accessible, fields \in Metafields : SetMetafields(m, fields)
    \/ /\ "setmetatable" \in Ops
       /\ \E o \in Accessible, m \in Accessible \cup {Nil} : SetMetatable(o, m)
    \/ /\ "udatametatable" \in Ops
       /\ \E u \in Accessible, m \in Accessible \cup {Nil} : SetUdataMetatable(u, m)
    \/ /\ "basicmt" \in Ops
       /\ \E b \in BasicType, m \in Accessible \cup {Nil} : SetBasicMetatable(b, m)
    \/ /\ "setfenv" \in Ops
       /\ \E o \in Accessible, e \in Accessible : SetFenv(o, e)
    \/ /\ "setcapture" \in Ops
       /\ \E f \in Accessible, v \in Accessible \cup {Nil} : SetCapture(f, v)
    \/ /\ "setupval" \in Ops
       /\ \E f \in Accessible, v \in Accessible \cup {Nil} :
            \E u \in upv[f] : SetUpval(f, u, v)
    \/ /\ "debug.setupvalue" \in Ops
       /\ \E f \in Accessible, v \in Accessible \cup {Nil} :
            \E u \in upv[f] : DebugSetUpvalue(f, u, v)

Control ==
    \/ \E s \in Slot : CloseUpvals(s)
    \/ \E th \in Accessible : Resume(th)
    \/ Yield
    \/ /\ "xmove" \in Ops
       /\ \E th \in Accessible, s \in Slot, v \in Accessible : XMove(th, s, v)
    \/ "fullgc" \in Ops /\ StartFullGC
    \/ FinalizerError

Program ==
    /\ Running
    /\ \/ \E s \in Slot, v \in Readable \cup {Nil} : Load(s, v)
       \/ Allocate
       \/ Store
       \/ Control

GCInit ==
    /\ mark = [o \in Object |-> IF o \in alloc THEN "white0" ELSE "none"]
    /\ currentwhite = "white0"
    /\ gcstate = "pause"
    /\ stage = 0
    /\ gray = {} /\ grayagain = {} /\ weak = {}
    /\ sweepgc = {}
    /\ sweepstrgc = 0
    /\ fullgc = "no"

Init == HeapInit /\ GCInit

Next == Program \/ Collector

Spec == Init /\ [][Next]_vars

(* luaC_checkGC runs at every allocation: a program that keeps allocating  *)
(* keeps the collector going.                                              *)
FairSpec == Spec /\ WF_vars(Collector)

-----------------------------------------------------------------------------
(* Properties.                                                             *)

(* While marking, nothing that was traversed (black) refers to an object   *)
(* that is still white: the barriers of lapi.c, lvm.c, ltable.c and        *)
(* luaC_linkupval keep it so.  Userdata waiting for a finalizer since an   *)
(* earlier cycle are black but have not been traversed before marktmu.     *)
TriColour ==
    gcstate = "propagate" =>
      \A o \in alloc : mark[o] = "black" /\ (o \in tmudata => stage = 4) =>
        White(Refs(o)) = {}

(* `gclist' is one field: while marking, a gray table, closure or thread   *)
(* is in exactly one of the lists gray, grayagain and weak, and the kinds  *)
(* in each are the ones atomic() expects.                                  *)
GrayLists ==
    gcstate = "propagate" =>
      /\ gray \cap (grayagain \cup weak) = {} /\ grayagain \cap weak = {}
      /\ gray \cup grayagain \cup weak = {o \in Listed : mark[o] = "gray"}
      /\ weak \subseteq Table
      /\ grayagain \subseteq Table \cup Thread

(* Nothing that survives this cycle, no root and no active coroutine       *)
(* refers to an object that was freed or is about to be.                   *)
MemorySafe ==
    LET live == {o \in alloc : ~Doomed(o)} IN
    /\ Roots \cup {co[i] : i \in DOMAIN co} \subseteq live
    /\ \A o \in live : Refs(o) \subseteq live

(* After the sweep every object has the current white, so that the next    *)
(* cycle starts from scratch and the barriers find nothing black.          *)
WhiteAfterSweep ==
    gcstate \in {"finalize", "pause"} =>
      \A o \in alloc \ tmudata : mark[o] = currentwhite

(* The collector keeps the promise of LuaHeap.                             *)
ImplementsHeap == HeapSpec

(* Whatever a full collection leaves allocated is reachable, or is kept by *)
(* a userdata whose finalizer was due: luaC_fullgc throws away a half-done *)
(* mark phase and finishes a sweep under way before it marks from scratch. *)
FullGCCollects ==
    [][fullgc = "cycle" /\ fullgc' = "no" =>
         \A o \in alloc :
           ~ \E R \in SUBSET (alloc \ {o}) :
               Roots \cup finalized \subseteq R /\ Closed(R)]_vars

(* A userdata is freed only after separateudata looked at it, and never    *)
(* while its finalizer is still due.                                       *)
FinalizerBeforeFree ==
    [][\A u \in (alloc \ alloc') \cap Udata :
         u \in finalized /\ u \notin tmudata]_vars

(* Garbage is freed, unless the program gets hold of it again (an interned *)
(* string, an open upvalue, a finalized userdata).                         *)
GarbageCollected ==
    \A o \in Object :
      (o \in alloc /\ Garbage({o})) ~> (o \notin alloc \/ ~Garbage({o}))

(* lgc.c:664 asserts that luaC_barrierf is not called in the finalize and  *)
(* pause phases, where it would whiten the black object.                   *)
NoBarrierAfterSweep ==
    [][(gcstate \in {"finalize", "pause"} /\ UNCHANGED <<gcstate, tmudata>>) =>
         \A o \in Object : mark[o] = "black" => mark'[o] = "black"]_vars

(* iscleared's comment: collected objects are dropped from weak tables,    *)
(* and values that are being finalized.                                    *)
ClearsOnlyCollected ==
    [][stage = 4 /\ gcstate' = "sweepstring" =>
         \A t \in Table : \A e \in entries[t] \ entries'[t] :
           \E x \in {e[1], e[2]} \cap Object : IsWhite(x) \/ x \in tmudata]_vars

=============================================================================
