------------------------- MODULE LuaGCSafety_proofs -------------------------
(***************************************************************************)
(* The collector of LuaGC is safe: no object that survives, no root and no *)
(* running coroutine ever refers to an object that was freed or is about   *)
(* to be.  The steps of the program are in LuaGCProgram_proofs; here are   *)
(* those of the collector and the theorems.                                *)
(***************************************************************************)
EXTENDS LuaGCProgram_proofs, WellFoundedInduction

USE DEF Object

-----------------------------------------------------------------------------
(* Marking.                                                                *)

HeapKept ==
    UNCHANGED <<alloc, meta, env, entries, tm, upv, loc, val, stack, basicmt, co>>

(* A step of the mark phase turns allocated objects gray or black.         *)
Darkened(x) ==
    /\ x \in alloc /\ mark'[x] \in {"gray", "black"}
    /\ mark'[x] = "black" => x \notin Str \cup Thread /\ ~Open(x)
    /\ mark'[x] = "gray" => x \notin Udata /\ (x \in UpVal => Open(x))

MarkingStepOf ==
    /\ HeapKept /\ currentwhite' = currentwhite
    /\ ~Sweeping /\ gcstate' = "propagate" /\ tmudata' \subseteq alloc
    /\ \A x \in Object : mark'[x] = mark[x] \/ Darkened(x)

LEMMA SameHeap ==
    ASSUME HeapKept
    PROVE  /\ \A x : Refs(x)' = Refs(x) /\ UpValue(x)' = UpValue(x)
           /\ \A x : Open(x)' <=> Open(x)
           /\ \A x : IsWeak(x)' <=> IsWeak(x)
           /\ \A x : Traversed(x)' = Traversed(x)
           /\ MarkMt' = MarkMt /\ Chain' = Chain
BY DEF HeapKept, Refs, Fixtures, KeysOf, ValuesOf, StackOf, Resumed, UpValue, Open,
       Traversed, IsWeak, WeakKey, WeakValue, HasMode, MarkMt, Chain

LEMMA MarkingKeeps ==
    ASSUME TypeOK, TypeOK', SafetyInv, MarkingStepOf
    PROVE  /\ HeapInv' /\ Colours' /\ SweepInv' /\ WhiteAfterSweep' /\ MemorySafe'
           /\ \A x \in Object : IsWhite(x)' => IsWhite(x)
<1>. USE DEF MarkingStepOf
<1>1. \A x \in Object : /\ mark[x] = "none" <=> x \notin alloc
                        /\ ~IsDead(x)
  BY DEF SafetyInv, HeapInv, ColourInv, SweepInv, Kinds, Neutral
<1>2. HeapInv'
  BY <1>1 DEF SafetyInv, HeapInv, Kinds, Values, Neutral, Open, HeapKept, Darkened
<1>3. Colours'
  BY SameHeap DEF Colours, Darkened, SafetyInv, ColourInv
<1>4. /\ otherwhite' = otherwhite /\ otherwhite \notin {"gray", "black", "none"}
      /\ {"gray", "black"} \cap Whites = {}
  BY WhitesDiffer DEF otherwhite, TypeOK, Whites
<1>5. \A x \in Object : ~IsDead(x)'
  BY <1>1, <1>4 DEF IsDead, Darkened
<1>6. SweepInv' /\ WhiteAfterSweep'
  BY <1>5 DEF SweepInv, Sweeping, WhiteAfterSweep
<1>7. \A x \in Object : IsWhite(x)' => IsWhite(x)
  BY <1>4 DEF IsWhite, Darkened
<1>8. MemorySafe'
  <2>1. Live = alloc /\ Live' = alloc
    BY <1>1, <1>5 DEF Live, Doomed, HeapKept, TypeOK, HeapTypeOK
  <2>2. Roots' \subseteq Roots \cup tmudata' /\ Nil \notin Roots'
    BY DEF Roots, HeapKept
  <2>. QED
    BY <2>1, <2>2, SameHeap, SafeIff, SafeIffNext DEF SafetyInv
<1>. QED
  BY <1>2, <1>3, <1>6, <1>7, <1>8

LEMMA RefsType ==
    ASSUME TypeOK, NEW o \in Object
    PROVE  /\ Refs(o) \subseteq Object /\ Traversed(o) \subseteq Refs(o)
           /\ UpValue(o) \in Object \cup {Nil}
<1>1. UpValue(o) \in Object \cup {Nil}
  BY DEF TypeOK, HeapTypeOK, UpValue, Open
<1>2. Resumed(o) \subseteq Thread
  <2>1. co \in Seq(Thread)
    BY DEF TypeOK, HeapTypeOK
  <2>2. \A j \in 1 .. Len(co) - 1 : co[j + 1] \in Thread
    BY <2>1
  <2>. QED
    BY <2>2 DEF Resumed
<1>3. \A r \in Refs(o) : r \in Object
  BY <1>1, <1>2, RefsIff DEF TypeOK, HeapTypeOK
<1>. QED
  BY <1>1, <1>3 DEF Traversed, Refs

(* What the invariant says of a mark phase under way stays true of what it *)
(* spoke of; what turned black in this step has been traversed.            *)
LEMMA MarkingPropagates ==
    ASSUME TypeOK, TypeOK', SafetyInv, MarkingStepOf, gcstate = "propagate",
           tmudata \subseteq tmudata',
           \A x \in Object :
             /\ \/ mark'[x] = "black" /\ mark[x] # "black"
                \/ mark'[x] = "black" /\ x \in tmudata /\ stage # 4 /\ stage' = 4
                \/ mark'[x] = "gray" /\ mark[x] # "gray" /\ x \in UpVal
             => \A r \in Refs(x) : ~IsWhite(r)'
    PROVE  /\ TriColour' /\ Dark({MainThread, Registry})'
           /\ stage >= 1 => \A u \in UpVal : mark'[u] = "gray" => Dark({UpValue(u)})'
           /\ stage >= 2 => /\ Dark(MarkMt)'
                            /\ \A t \in weak : IsWeak(t)' /\ Dark(Traversed(t))'
           /\ stage >= 3 => \A o \in grayagain : o \in Thread /\ Dark(Traversed(o))'
<1>1. \A x \in Object : IsWhite(x)' => IsWhite(x)
  BY MarkingKeeps
<1>2. /\ \A x : Refs(x)' = Refs(x) /\ UpValue(x)' = UpValue(x)
      /\ \A x : IsWeak(x)' <=> IsWeak(x)
      /\ \A x : Traversed(x)' = Traversed(x)
      /\ MarkMt' = MarkMt /\ alloc' = alloc
  BY SameHeap DEF MarkingStepOf, HeapKept
<1>3. PropagateInv /\ alloc \subseteq Object /\ weak \subseteq Object /\ grayagain \subseteq Object
  BY DEF SafetyInv, ColourInv, TypeOK, HeapTypeOK, GCTypeOK
<1>4. ASSUME NEW x \in alloc, mark'[x] = "black", x \in tmudata' => stage' = 4,
             NEW r \in Refs(x)
      PROVE  ~IsWhite(r)'
  <2>1. CASE mark[x] = "black" /\ (x \in tmudata => stage = 4)
    <3>1. ~IsWhite(r)
      BY <1>3, <2>1 DEF PropagateInv, TriColour, White
    <3>2. r \in Object
      BY <1>3, RefsType
    <3>. QED
      BY <1>1, <3>1, <3>2
  <2>2. CASE ~(mark[x] = "black" /\ (x \in tmudata => stage = 4))
    BY <1>3, <1>4, <2>2
  <2>. QED
    BY <2>1, <2>2
<1>5. TriColour'
  BY <1>2, <1>4 DEF TriColour, White
<1>6. Dark({MainThread, Registry})'
  BY <1>1, <1>3, RootsAssumption DEF PropagateInv, Dark
<1>7. ASSUME stage >= 1, NEW u \in UpVal, mark'[u] = "gray" PROVE Dark({UpValue(u)})'
  <2>1. UpValue(u) \in Object \cup {Nil}
    BY RefsType
  <2>2. CASE mark[u] = "gray"
    BY <1>1, <1>2, <1>3, <1>7, <2>1, <2>2 DEF PropagateInv, Dark
  <2>3. CASE mark[u] # "gray"
    <3>1. UpValue(u) # Nil => UpValue(u) \in Refs(u)
      BY RefsIff
    <3>2. \A r \in Refs(u) : ~IsWhite(r)'
      BY <1>7, <2>3
    <3>. QED
      BY <1>2, <3>1, <3>2 DEF Dark
  <2>. QED
    BY <2>2, <2>3
<1>8. \A x \in Object : Dark(Traversed(x)) => Dark(Traversed(x))'
  BY <1>1, <1>2, RefsType DEF Dark
<1>9. Dark(MarkMt) => Dark(MarkMt)'
  <2>1. MarkMt \subseteq Object
    BY DEF MarkMt, TypeOK, HeapTypeOK
  <2>. QED
    BY <1>1, <1>2, <2>1 DEF Dark
<1>. QED
  BY <1>2, <1>3, <1>5, <1>6, <1>7, <1>8, <1>9 DEF PropagateInv

(* What reallymarkobject does when it is applied to S, in a step that also *)
(* turns the objects of E gray or black.                                   *)
MarksFrom(S, W, E) ==
    /\ S \subseteq Object /\ W = ReallyMarked(S)
    /\ \A x \in Object \ E : mark'[x] = Painted(W)[x]
    /\ \A x \in E : mark'[x] \in {"gray", "black"}

Darkens(S, W, E) ==
    /\ W \subseteq Object
    /\ \A x \in W : IsWhite(x) /\ mark[x] # "gray" /\ x \in alloc
    /\ \A r \in S : ~IsWhite(r)'
    /\ \A x \in W \cap (Udata \cup UpVal) : \A r \in Refs(x) : ~IsWhite(r)'
    /\ \A x \in Object \ E :
         /\ x \in W => /\ Darkened(x)
                       /\ mark'[x] = "black" => x \in Udata \cup UpVal
                       /\ x \in Listed => mark'[x] = "gray"
         /\ x \notin W => mark'[x] = mark[x]

LEMMA ReallyMarkedDarkens ==
    ASSUME TypeOK, HeapInv, NEW S, NEW W, NEW E, MarksFrom(S, W, E)
    PROVE  Darkens(S, W, E)
<1>. USE DEF MarksFrom, Darkens
<1>1. /\ W \subseteq Object
      /\ \A x \in W : IsWhite(x)
      /\ White(S) \subseteq W
      /\ \A x \in W \cap (Udata \cup UpVal) : White(Refs(x)) \subseteq W
  BY ReallyMarkedClosed
<1>2. \A x \in W : x \in alloc /\ mark[x] # "gray"
  BY <1>1 DEF HeapInv, Kinds, Neutral, IsWhite, Whites
<1>3. {"gray", "black"} \cap Whites = {}
  BY DEF Whites
<1>4. ASSUME NEW x \in Object \ E
      PROVE  /\ x \in W => /\ Darkened(x)
                           /\ mark'[x] = "black" => x \in Udata \cup UpVal
                           /\ x \in Listed => mark'[x] = "gray"
             /\ x \notin W => mark'[x] = mark[x]
  BY <1>2, KindsDisjoint DEF Painted, Darkened, Listed, HeapInv, Kinds, Open
<1>5. ASSUME NEW r \in Object, IsWhite(r) => r \in W PROVE ~IsWhite(r)'
  BY <1>3, <1>4, <1>5 DEF IsWhite, Darkened
<1>6. \A r \in S : ~IsWhite(r)'
  BY <1>1, <1>5 DEF White
<1>7. \A x \in W \cap (Udata \cup UpVal) : \A r \in Refs(x) : ~IsWhite(r)'
  BY <1>1, <1>5, RefsType DEF White
<1>. QED
  BY <1>1, <1>2, <1>4, <1>6, <1>7

-----------------------------------------------------------------------------
(* The steps of the mark phase.                                            *)

(* Everything is white again when the roots are marked, but for userdata   *)
(* that wait for their finalizer.                                          *)
LEMMA MarkRootSafe ==
    ASSUME TypeOK, TypeOK', SafetyInv, FinalizerInv, MarkRoot PROVE SafetyInv'
<1>. DEFINE W == ReallyMarked(MarkRootSet)
<1>1. /\ UNCHANGED heapVars /\ UNCHANGED <<currentwhite, stage>>
      /\ gcstate \in {"pause", "finalize"} /\ gcstate' = "propagate"
      /\ mark' = Painted(W) /\ gray' = W \cap Listed
      /\ grayagain' = {} /\ weak' = {}
  BY DEF MarkRoot
<1>2. stage' = 0 /\ alloc \subseteq Object /\ mark \in [Object -> Colour]
  BY <1>1 DEF FinalizerInv, Separated, TypeOK, HeapTypeOK, GCTypeOK
<1>3. MarkRootSet \subseteq Object /\ MainThread \in MarkRootSet /\ Registry \in MarkRootSet
  BY RootsAssumption, KindsDisjoint DEF MarkRootSet, MarkMt, TypeOK, HeapTypeOK
<1>4. Darkens(MarkRootSet, W, {})
  <2>1. MarksFrom(MarkRootSet, W, {})
    BY <1>1, <1>3 DEF MarksFrom
  <2>. HIDE DEF W
  <2>. QED
    BY <2>1, ReallyMarkedDarkens DEF SafetyInv
<1>. HIDE DEF W
<1>. USE DEF Darkens
<1>5. MarkingStepOf
  BY <1>1, <1>4
  DEF MarkingStepOf, HeapKept, heapVars, Sweeping, FinalizerInv, UdataAllocated
<1>6. HeapInv' /\ Colours' /\ SweepInv' /\ WhiteAfterSweep' /\ MemorySafe'
  BY <1>5, MarkingKeeps
<1>7. \A x \in Object : mark[x] \in {"gray", "black"} => x \in tmudata
  <2>1. \A x \in Object : x \notin alloc => mark[x] = "none"
    BY DEF SafetyInv, HeapInv, Kinds, Neutral
  <2>2. \A x \in alloc \ tmudata : mark[x] = currentwhite
    BY <1>1 DEF SafetyInv, ColourInv, WhiteAfterSweep
  <2>. QED
    BY <2>1, <2>2 DEF TypeOK, GCTypeOK, Whites
<1>8. GrayLists'
  <2>1. \A o \in Listed : o \in Object /\ o \notin tmudata
    BY KindsDisjoint DEF Listed, TypeOK, HeapTypeOK
  <2>2. gray' = {o \in Listed : mark'[o] = "gray"}
    BY <1>1, <1>4, <1>7, <2>1
  <2>. QED
    BY <1>1, <2>2 DEF GrayLists
<1>9. TriColour'
  <2>1. ASSUME NEW o \in alloc, mark'[o] = "black", o \notin tmudata, NEW r \in Refs(o)
        PROVE  ~IsWhite(r)'
    BY <1>2, <1>4, <1>7, <2>1
  <2>. QED
    BY <1>1, <1>2, <1>5, <2>1, SameHeap DEF TriColour, White, MarkingStepOf, heapVars
<1>10. Dark({MainThread, Registry})'
  BY <1>3, <1>4 DEF Dark
<1>11. PropagateInv'
  BY <1>2, <1>8, <1>9, <1>10 DEF PropagateInv
<1>. QED
  BY <1>6, <1>11 DEF SafetyInv, ColourInv

LEMMA PropagateMarkSafe ==
    ASSUME TypeOK, TypeOK', SafetyInv, FinalizerInv, NEW o \in gray, PropagateMark(o)
    PROVE  SafetyInv'
<1>. DEFINE W == ReallyMarked(Traversed(o))
<1>1. /\ UNCHANGED heapVars /\ UNCHANGED <<currentwhite, stage, gcstate>>
      /\ gcstate = "propagate"
      /\ mark' = [Painted(W) EXCEPT ![o] =
                    IF o \in Thread \/ IsWeak(o) THEN "gray" ELSE "black"]
      /\ gray' = (gray \ {o}) \cup (W \cap Listed)
      /\ grayagain' = grayagain \cup ({o} \cap Thread)
      /\ weak' = IF IsWeak(o) THEN weak \cup {o} ELSE weak
  BY DEF PropagateMark
<1>2. /\ GrayLists /\ o \in Listed /\ mark[o] = "gray" /\ o \in Object /\ o \in alloc
      /\ o \notin Udata \cup UpVal \cup Str
  <2>1. GrayLists
    BY <1>1 DEF SafetyInv, ColourInv, PropagateInv
  <2>2. o \in Listed /\ mark[o] = "gray"
    BY <1>1, <2>1 DEF GrayLists
  <2>3. o \in Object /\ o \notin Udata \cup UpVal \cup Str
    BY <2>2, KindsDisjoint DEF Listed
  <2>. QED
    BY <2>1, <2>2, <2>3 DEF SafetyInv, HeapInv, Kinds, Neutral
<1>3. Traversed(o) \subseteq Object
  BY <1>2, RefsType
<1>4. mark'[o] = IF o \in Thread \/ IsWeak(o) THEN "gray" ELSE "black"
  BY <1>1, <1>2 DEF Painted
<1>5. Darkens(Traversed(o), W, {o})
  <2>1. \A x \in Object \ {o} : mark'[x] = Painted(W)[x]
    BY <1>1 DEF Painted
  <2>2. MarksFrom(Traversed(o), W, {o})
    BY <1>3, <1>4, <2>1 DEF MarksFrom
  <2>. HIDE DEF W
  <2>. QED
    BY <2>2, ReallyMarkedDarkens DEF SafetyInv
<1>. HIDE DEF W
<1>. USE DEF Darkens
<1>6. o \notin W
  BY <1>2, <1>5 DEF IsWhite, Whites
<1>7. MarkingStepOf
  <2>1. Darkened(o)
    BY <1>2, <1>4 DEF Darkened, SafetyInv, HeapInv, Kinds, Open
  <2>. QED
    BY <1>1, <1>5, <2>1
    DEF MarkingStepOf, HeapKept, heapVars, Sweeping, FinalizerInv, UdataAllocated
<1>8. HeapInv' /\ Colours' /\ SweepInv' /\ WhiteAfterSweep' /\ MemorySafe'
  BY <1>7, MarkingKeeps
<1>9. mark'[o] = "black" => Traversed(o) = Refs(o)
  <2>1. o \notin Table => entries[o] = {}
    BY <1>2 DEF SafetyInv, HeapInv, Kinds
  <2>2. ~IsWeak(o) => Traversed(o) = Refs(o)
    BY <2>1 DEF Traversed, Refs, IsWeak, KeysOf, ValuesOf
  <2>. QED
    BY <1>4, <2>2
<1>10. \A x \in Object :
         /\ \/ mark'[x] = "black" /\ mark[x] # "black"
            \/ mark'[x] = "black" /\ x \in tmudata /\ stage # 4 /\ stage' = 4
            \/ mark'[x] = "gray" /\ mark[x] # "gray" /\ x \in UpVal
         => \A r \in Refs(x) : ~IsWhite(r)'
  BY <1>1, <1>2, <1>5, <1>9
<1>11. /\ TriColour' /\ Dark({MainThread, Registry})'
       /\ stage >= 1 => \A u \in UpVal : mark'[u] = "gray" => Dark({UpValue(u)})'
       /\ stage >= 2 => /\ Dark(MarkMt)'
                        /\ \A t \in weak : IsWeak(t)' /\ Dark(Traversed(t))'
       /\ stage >= 3 => \A x \in grayagain : x \in Thread /\ Dark(Traversed(x))'
  BY <1>1, <1>7, <1>10, MarkingPropagates DEF heapVars
<1>12. Dark(Traversed(o))' /\ (IsWeak(o)' <=> IsWeak(o))
  BY <1>5, <1>7, SameHeap DEF Dark, MarkingStepOf
<1>13. GrayLists'
  <2>1. \A x \in Listed : x \in Object
    BY DEF Listed
  <2>2. \A x \in W : x \notin gray \cup grayagain \cup weak
    BY <1>1, <1>2, <1>5 DEF GrayLists
  <2>3. IsWeak(o) => o \in Table /\ o \notin Thread
    BY KindsDisjoint DEF IsWeak
  <2>. QED
    BY <1>1, <1>2, <1>4, <1>5, <1>6, <2>1, <2>2, <2>3 DEF GrayLists
<1>14. PropagateInv'
  BY <1>1, <1>11, <1>12, <1>13 DEF PropagateInv
<1>. QED
  BY <1>8, <1>14 DEF SafetyInv, ColourInv

(* The first stages of atomic() change nothing but colours.                *)
LEMMA AtomicMarks ==
    ASSUME TypeOK, TypeOK', SafetyInv, FinalizerInv, UNCHANGED heapVars,
           UNCHANGED <<gcstate, currentwhite>>, gcstate = "propagate", stage' # 4,
           NEW S, NEW W, Darkens(S, W, {})
    PROVE  /\ HeapInv' /\ Colours' /\ SweepInv' /\ WhiteAfterSweep' /\ MemorySafe'
           /\ TriColour' /\ Dark({MainThread, Registry})'
           /\ stage >= 1 => \A u \in UpVal : mark'[u] = "gray" => Dark({UpValue(u)})'
           /\ stage >= 2 => /\ Dark(MarkMt)'
                            /\ \A t \in weak : IsWeak(t)' /\ Dark(Traversed(t))'
           /\ stage >= 3 => \A o \in grayagain : o \in Thread /\ Dark(Traversed(o))'
           /\ MarkingStepOf
<1>1. MarkingStepOf
  BY DEF MarkingStepOf, HeapKept, heapVars, Sweeping, FinalizerInv, UdataAllocated,
         Darkens
<1>2. HeapInv' /\ Colours' /\ SweepInv' /\ WhiteAfterSweep' /\ MemorySafe'
  BY <1>1, MarkingKeeps
<1>3. \A x \in Object :
        /\ \/ mark'[x] = "black" /\ mark[x] # "black"
           \/ mark'[x] = "black" /\ x \in tmudata /\ stage # 4 /\ stage' = 4
           \/ mark'[x] = "gray" /\ mark[x] # "gray" /\ x \in UpVal
        => \A r \in Refs(x) : ~IsWhite(r)'
  BY DEF Darkens
<1>4. tmudata' = tmudata
  BY DEF heapVars
<1>. QED
  BY <1>1, <1>2, <1>3, <1>4, MarkingPropagates

(* The lists of gray objects when the gray one was empty and X was taken   *)
(* from the others to be traversed again.                                  *)
LEMMA AtomicLists ==
    ASSUME GrayLists, gcstate = "propagate", gray = {},
           NEW S, NEW W, Darkens(S, W, {}), NEW X \in SUBSET (grayagain \cup weak),
           gray' = X \cup (W \cap Listed),
           grayagain' = grayagain \ X, weak' = weak \ X
    PROVE  GrayLists'
<1>1. \A x \in grayagain \cup weak : mark[x] = "gray" /\ x \in Listed
  BY DEF GrayLists
<1>2. \A x \in W : mark[x] # "gray"
  BY DEF Darkens
<1>3. \A x \in Listed : mark'[x] = "gray" <=> mark[x] = "gray" \/ x \in W
  BY DEF Darkens, Listed
<1>4. gray' \cup grayagain' \cup weak' = {x \in Listed : mark'[x] = "gray"}
  BY <1>1, <1>3 DEF GrayLists
<1>5. gray' \cap (grayagain' \cup weak') = {} /\ grayagain' \cap weak' = {}
  BY <1>1, <1>2 DEF GrayLists
<1>. QED
  BY <1>4, <1>5 DEF GrayLists

LEMMA RemarkUpvalsSafe ==
    ASSUME TypeOK, TypeOK', SafetyInv, FinalizerInv, RemarkUpvals PROVE SafetyInv'
<1>. DEFINE S == {UpValue(u) : u \in {x \in UpVal : Open(x) /\ mark[x] = "gray"}} \ {Nil}
            W == ReallyMarked(S)
<1>1. /\ UNCHANGED heapVars /\ UNCHANGED <<currentwhite, gcstate, grayagain, weak>>
      /\ gcstate = "propagate" /\ gray = {} /\ stage = 0 /\ stage' = 1
      /\ mark' = Painted(W) /\ gray' = W \cap Listed
  BY DEF RemarkUpvals, AtomicStage
<1>2. S \subseteq Object
  BY RefsType
<1>3. \A u \in UpVal : mark[u] = "gray" => UpValue(u) \in S \cup {Nil}
  BY DEF SafetyInv, ColourInv, Colours
<1>. HIDE DEF S
<1>4. Darkens(S, W, {})
  <2>1. MarksFrom(S, W, {})
    BY <1>1, <1>2 DEF MarksFrom
  <2>. HIDE DEF W
  <2>. QED
    BY <2>1, ReallyMarkedDarkens DEF SafetyInv
<1>. HIDE DEF W
<1>5. /\ HeapInv' /\ Colours' /\ SweepInv' /\ WhiteAfterSweep' /\ MemorySafe'
      /\ TriColour' /\ Dark({MainThread, Registry})' /\ MarkingStepOf
  BY <1>1, <1>4, AtomicMarks
<1>6. GrayLists'
  <2>1. GrayLists
    BY <1>1 DEF SafetyInv, ColourInv, PropagateInv
  <2>. QED
    BY <1>1, <1>4, <2>1, AtomicLists
<1>7. ASSUME NEW u \in UpVal, mark'[u] = "gray" PROVE Dark({UpValue(u)})'
  <2>1. UpValue(u)' = UpValue(u)
    BY <1>5, SameHeap DEF MarkingStepOf
  <2>2. CASE mark[u] = "gray"
    BY <1>3, <1>4, <2>1, <2>2 DEF Darkens, Dark
  <2>3. CASE mark[u] # "gray"
    <3>1. u \in W
      BY <1>4, <1>7, <2>3 DEF Darkens
    <3>2. \A r \in Refs(u) : ~IsWhite(r)'
      BY <1>4, <3>1 DEF Darkens
    <3>3. UpValue(u) # Nil => UpValue(u) \in Refs(u)
      BY RefsIff
    <3>. QED
      BY <2>1, <3>2, <3>3 DEF Dark
  <2>. QED
    BY <2>2, <2>3
<1>8. PropagateInv'
  BY <1>1, <1>5, <1>6, <1>7 DEF PropagateInv
<1>. QED
  BY <1>5, <1>8 DEF SafetyInv, ColourInv

LEMMA RemarkWeakSafe ==
    ASSUME TypeOK, TypeOK', SafetyInv, FinalizerInv, RemarkWeak PROVE SafetyInv'
<1>. DEFINE S == {L} \cup MarkMt
            W == ReallyMarked(S)
<1>1. /\ UNCHANGED heapVars /\ UNCHANGED <<currentwhite, gcstate, grayagain>>
      /\ gcstate = "propagate" /\ gray = {} /\ stage = 1 /\ stage' = 2
      /\ mark' = Painted(W) /\ gray' = weak \cup (W \cap Listed) /\ weak' = {}
  BY DEF RemarkWeak, AtomicStage
<1>2. S \subseteq Object /\ MarkMt \subseteq S
  BY RunningThread DEF TypeOK, HeapTypeOK, MarkMt
<1>. HIDE DEF S
<1>3. Darkens(S, W, {})
  <2>1. MarksFrom(S, W, {})
    BY <1>1, <1>2 DEF MarksFrom
  <2>. HIDE DEF W
  <2>. QED
    BY <2>1, ReallyMarkedDarkens DEF SafetyInv
<1>. HIDE DEF W
<1>4. /\ HeapInv' /\ Colours' /\ SweepInv' /\ WhiteAfterSweep' /\ MemorySafe'
      /\ TriColour' /\ Dark({MainThread, Registry})' /\ MarkingStepOf
      /\ \A u \in UpVal : mark'[u] = "gray" => Dark({UpValue(u)})'
  BY <1>1, <1>3, AtomicMarks
<1>5. GrayLists'
  <2>1. GrayLists
    BY <1>1 DEF SafetyInv, ColourInv, PropagateInv
  <2>2. grayagain' = grayagain \ weak /\ weak' = weak \ weak
    BY <1>1, <2>1 DEF GrayLists
  <2>. QED
    BY <1>1, <1>3, <2>1, <2>2, AtomicLists
<1>6. Dark(MarkMt)'
  BY <1>2, <1>3, <1>4, SameHeap DEF MarkingStepOf, Darkens, Dark
<1>7. PropagateInv'
  BY <1>1, <1>4, <1>5, <1>6 DEF PropagateInv
<1>. QED
  BY <1>4, <1>7 DEF SafetyInv, ColourInv

LEMMA RemarkGrayAgainSafe ==
    ASSUME TypeOK, TypeOK', SafetyInv, FinalizerInv, RemarkGrayAgain PROVE SafetyInv'
<1>1. /\ UNCHANGED heapVars /\ UNCHANGED <<mark, currentwhite, gcstate, weak>>
      /\ gcstate = "propagate" /\ gray = {} /\ stage = 2 /\ stage' = 3
      /\ gray' = grayagain /\ grayagain' = {}
  BY DEF RemarkGrayAgain, AtomicStage
<1>2. Darkens({}, {}, {})
  BY <1>1 DEF Darkens
<1>3. /\ HeapInv' /\ Colours' /\ SweepInv' /\ WhiteAfterSweep' /\ MemorySafe'
      /\ TriColour' /\ Dark({MainThread, Registry})'
      /\ \A u \in UpVal : mark'[u] = "gray" => Dark({UpValue(u)})'
      /\ Dark(MarkMt)'
      /\ \A t \in weak : IsWeak(t)' /\ Dark(Traversed(t))'
  BY <1>1, <1>2, AtomicMarks
<1>4. GrayLists'
  <2>1. GrayLists
    BY <1>1 DEF SafetyInv, ColourInv, PropagateInv
  <2>2. gray' = grayagain \cup ({} \cap Listed) /\ grayagain' = grayagain \ grayagain
        /\ weak' = weak \ grayagain
    BY <1>1, <2>1 DEF GrayLists
  <2>. QED
    BY <1>1, <1>2, <2>1, <2>2, AtomicLists
<1>5. PropagateInv'
  BY <1>1, <1>3, <1>4 DEF PropagateInv
<1>. QED
  BY <1>3, <1>5 DEF SafetyInv, ColourInv

(* marktmu marks what the userdata to be finalized refer to, so that all   *)
(* that is black has been traversed from stage 4 on.                       *)
LEMMA SeparateUdataSafe ==
    ASSUME TypeOK, TypeOK', SafetyInv, FinalizerInv, SeparateUdata PROVE SafetyInv'
<1>. DEFINE S == UNION {Fixtures(u) : u \in tmudata'}
            W == ReallyMarked(S)
<1>1. /\ UNCHANGED <<alloc, meta, env, entries, tm, upv, loc, val, stack, basicmt, co>>
      /\ UNCHANGED <<currentwhite, gcstate, grayagain, weak>>
      /\ gcstate = "propagate" /\ gray = {} /\ stage = 3 /\ stage' = 4
      /\ tmudata' = tmudata \cup {u \in ToSeparate : HasGC(u)}
      /\ mark' = Painted(MarkTmu) /\ gray' = MarkTmu \cap Listed
  BY DEF SeparateUdata, AtomicStage, HSeparate
<1>2. tmudata' \subseteq Udata /\ tmudata' \subseteq alloc /\ tmudata \subseteq tmudata'
  BY <1>1 DEF ToSeparate, White, FinalizerInv, UdataAllocated, TypeOK, HeapTypeOK
<1>3. MarkTmu = tmudata' \cup W
  BY DEF MarkTmu
<1>4. S \subseteq Object
  BY <1>2, RefsType DEF Refs
<1>5. \A u \in tmudata' : Refs(u) = Fixtures(u) /\ Fixtures(u) \subseteq S
  BY <1>2, KindsDisjoint DEF Refs, KeysOf, ValuesOf, SafetyInv, HeapInv, Kinds
<1>. HIDE DEF S
<1>6. \A x \in tmudata' : mark'[x] = "black"
  BY <1>1, <1>2, <1>3 DEF Painted
<1>7. Darkens(S, W, tmudata')
  <2>1. \A x \in Object \ tmudata' : mark'[x] = Painted(W)[x]
    BY <1>1, <1>3 DEF Painted
  <2>2. MarksFrom(S, W, tmudata')
    BY <1>4, <1>6, <2>1 DEF MarksFrom
  <2>. HIDE DEF W
  <2>. QED
    BY <2>2, ReallyMarkedDarkens DEF SafetyInv
<1>. HIDE DEF W
<1>8. MarkingStepOf
  <2>1. \A x \in tmudata' : Darkened(x)
    BY <1>2, <1>6, KindsDisjoint DEF Darkened, SafetyInv, HeapInv, Kinds, Open
  <2>. QED
    BY <1>1, <1>2, <1>7, <2>1 DEF MarkingStepOf, HeapKept, Sweeping, Darkens
<1>9. HeapInv' /\ Colours' /\ SweepInv' /\ WhiteAfterSweep' /\ MemorySafe'
  BY <1>8, MarkingKeeps
<1>10. \A x \in Object :
         /\ \/ mark'[x] = "black" /\ mark[x] # "black"
            \/ mark'[x] = "black" /\ x \in tmudata /\ stage # 4 /\ stage' = 4
            \/ mark'[x] = "gray" /\ mark[x] # "gray" /\ x \in UpVal
         => \A r \in Refs(x) : ~IsWhite(r)'
  <2>1. \A x \in tmudata' : \A r \in Refs(x) : ~IsWhite(r)'
    BY <1>5, <1>7 DEF Darkens
  <2>. QED
    BY <1>2, <1>6, <1>7, <2>1 DEF Darkens
<1>11. /\ TriColour' /\ Dark({MainThread, Registry})'
       /\ \A u \in UpVal : mark'[u] = "gray" => Dark({UpValue(u)})'
       /\ Dark(MarkMt)' /\ \A t \in weak : IsWeak(t)' /\ Dark(Traversed(t))'
       /\ \A x \in grayagain : x \in Thread /\ Dark(Traversed(x))'
  BY <1>1, <1>2, <1>8, <1>10, MarkingPropagates
<1>12. GrayLists'
  <2>1. GrayLists
    BY <1>1 DEF SafetyInv, ColourInv, PropagateInv
  <2>2. \A x \in Listed : x \in Object /\ x \notin tmudata'
    BY <1>2, KindsDisjoint DEF Listed
  <2>3. gray' = W \cap Listed
    BY <1>1, <1>3, <2>2
  <2>4. \A x \in grayagain \cup weak : mark[x] = "gray" /\ x \in Listed
    BY <1>1, <2>1 DEF GrayLists
  <2>5. \A x \in W : mark[x] # "gray"
    BY <1>7 DEF Darkens
  <2>6. \A x \in Listed : mark'[x] = "gray" <=> mark[x] = "gray" \/ x \in W
    BY <1>7, <2>2 DEF Darkens
  <2>7. gray' \cup grayagain' \cup weak' = {x \in Listed : mark'[x] = "gray"}
    BY <1>1, <2>1, <2>3, <2>4, <2>6 DEF GrayLists
  <2>8. gray' \cap (grayagain' \cup weak') = {} /\ grayagain' \cap weak' = {}
    BY <1>1, <2>1, <2>3, <2>4, <2>5 DEF GrayLists
  <2>. QED
    BY <1>1, <2>1, <2>7, <2>8 DEF GrayLists
<1>13. PropagateInv'
  BY <1>1, <1>11, <1>12 DEF PropagateInv
<1>. QED
  BY <1>9, <1>13 DEF SafetyInv, ColourInv

-----------------------------------------------------------------------------
(* The end of atomic().                                                    *)

(* The main thread is marked, every thread that is marked is in grayagain  *)
(* and was traversed again, and a thread refers to the one it resumed.     *)
LEMMA ChainDark ==
    ASSUME TypeOK, SafetyInv, gcstate = "propagate", gray = {}, stage = 4
    PROVE  Dark(Chain)
<1>. DEFINE T == {i \in DOMAIN co : IsWhite(co[i])}
<1>1. co \in Seq(Thread) /\ co # <<>> /\ \A i \in DOMAIN co : co[i] \in Thread /\ co[i] \in alloc
  BY SafeIff DEF SafetyInv, Chain, Live, TypeOK, HeapTypeOK
<1>2. DOMAIN co = 1 .. Len(co) /\ Len(co) \in Nat
  BY <1>1
<1>3. PropagateInv /\ GrayLists /\ Dark({MainThread, Registry})
  BY DEF SafetyInv, ColourInv, PropagateInv
<1>4. SUFFICES ASSUME T # {} PROVE FALSE
  BY DEF Dark, Chain
<1>5. T \in SUBSET Nat
  BY <1>2
<1>6. PICK m \in T : \A y \in T : ~ (<<y, m>> \in OpToRel(<, Nat))
  BY <1>4, <1>5, WFMin, NatLessThanWellFounded
<1>7. \A y \in T : ~(y < m)
  BY <1>5, <1>6 DEF OpToRel
<1>8. m # 1
  BY <1>3, <1>6, RootsAssumption, KindsDisjoint DEF SafetyInv, HeapInv, Values, Dark
<1>9. PICK n \in 1 .. Len(co) - 1 : m = n + 1
  <2>. PICK k \in Nat : k = Len(co)
    BY <1>2
  <2>1. m \in 1 .. k
    BY <1>2
  <2>2. m - 1 \in 1 .. k - 1 /\ m = (m - 1) + 1
    BY <1>8, <2>1
  <2>. QED
    BY <2>2
<1>10. n \in DOMAIN co /\ n \notin T
  <2>. PICK k \in Nat : k = Len(co)
    BY <1>2
  <2>1. n \in 1 .. k /\ n \in Nat /\ n < m
    BY <1>9
  <2>. QED
    BY <1>2, <1>7, <2>1
<1>11. co[n] \in Thread /\ co[n] \in alloc /\ ~IsWhite(co[n])
  BY <1>1, <1>10
<1>12. mark[co[n]] = "gray"
  <2>1. mark[co[n]] \notin {"none", "black"}
    BY <1>11 DEF SafetyInv, HeapInv, Kinds, ColourInv, Colours
  <2>. QED
    BY <1>11, <2>1 DEF IsWhite, TypeOK, GCTypeOK, Colour
<1>13. co[n] \in grayagain
  BY <1>3, <1>11, <1>12, KindsDisjoint DEF GrayLists, Listed
<1>14. Dark(Traversed(co[n]))
  BY <1>3, <1>13 DEF PropagateInv
<1>15. co[m] \in Traversed(co[n])
  <2>1. co[m] \in Resumed(co[n])
    BY <1>9 DEF Resumed
  <2>2. co[m] # Nil
    BY <1>1, <1>6, KindsDisjoint
  <2>. QED
    BY <1>11, <2>1, <2>2 DEF Traversed, Fixtures
<1>16. co[m] # Nil /\ IsWhite(co[m])
  BY <1>1, <1>6, KindsDisjoint
<1>. QED
  BY <1>14, <1>15, <1>16 DEF Dark

(* What is marked at the end of the mark phase refers to what is marked,   *)
(* once the weak tables are cleared: what a table that was cleared keeps   *)
(* is marked, or is a string that iscleared marked.                        *)
LEMMA ClearWeakSafe ==
    ASSUME TypeOK, TypeOK', SafetyInv, FinalizerInv, ClearWeakAndFlip
    PROVE  SafetyInv'
<1>1. /\ gcstate = "propagate" /\ gray = {} /\ stage = 4 /\ gcstate' = "sweepstring"
      /\ \A t \in Object : entries'[t] = IF t \in weak THEN entries[t] \ Cleared(t)
                                         ELSE entries[t]
      /\ \A o \in Object : mark'[o] = IF o \in White(StringsMarked) THEN "gray"
                                      ELSE mark[o]
      /\ currentwhite' = otherwhite /\ sweepstrgc' = 0
      /\ sweepgc' = {o \in alloc \ (Str \cup tmudata) : ~Open(o)}
      /\ UNCHANGED <<alloc, meta, env, tm, upv, loc, val, stack, basicmt, co,
                     tmudata, finalized, called>>
  BY DEF ClearWeakAndFlip
<1>2. /\ PropagateInv /\ GrayLists /\ TriColour
      /\ \A o \in Object : ~IsDead(o)
      /\ \A o \in Object : mark[o] = "none" <=> o \notin alloc
      /\ alloc \subseteq Object /\ weak \subseteq Table
      /\ \A u \in UpVal : mark[u] = "gray" => Dark({UpValue(u)})
      /\ Dark(MarkMt) /\ Dark({MainThread, Registry})
      /\ \A t \in weak : IsWeak(t) /\ Dark(Traversed(t))
      /\ \A o \in grayagain : o \in Thread /\ Dark(Traversed(o))
  <2>1. PropagateInv /\ SweepInv /\ Kinds /\ ~Sweeping
    BY <1>1 DEF SafetyInv, HeapInv, ColourInv, Sweeping
  <2>2. \A o \in Object : ~IsDead(o) /\ (mark[o] = "none" <=> o \notin alloc)
    BY <2>1 DEF SweepInv, Kinds, Neutral
  <2>3. alloc \subseteq Object /\ weak \subseteq Table
    BY <1>1, <2>1 DEF PropagateInv, GrayLists, TypeOK, HeapTypeOK
  <2>. QED
    BY <1>1, <2>1, <2>2, <2>3 DEF PropagateInv
<1>3. otherwhite' = currentwhite /\ Whites = {currentwhite, otherwhite}
  BY <1>1 DEF otherwhite, Whites, TypeOK, GCTypeOK
<1>4. StringsMarked \subseteq Str /\ \A o \in Str : Refs(o) = {} /\ Refs(o)' = {}
  <2>1. \A o \in Str :
          /\ meta[o] = Nil /\ env[o] = Nil /\ upv[o] = {} /\ entries[o] = {}
          /\ o \notin UpVal /\ o \notin Thread /\ o \notin Table
    BY KindsDisjoint DEF SafetyInv, HeapInv, Kinds
  <2>2. \A o \in Str : entries'[o] = {}
    BY <1>1, <2>1
  <2>3. StringsMarked \subseteq Str
    BY Zenon DEF StringsMarked
  <2>. QED
    BY <1>1, <2>1, <2>2, <2>3, RefsIff, RefsIffNext
<1>5. Live = alloc
  BY <1>2 DEF Live, Doomed
(* The objects that survive are those that are marked, and FixedStr.       *)
<1>6. ASSUME NEW o \in Object
      PROVE  o \in Live' <=> /\ o \in alloc
                             /\ ~IsWhite(o) \/ o \in White(StringsMarked) \/ o \in FixedStr
  BY <1>1, <1>2, <1>3, <1>4, WhitesDiffer
  DEF Live, Doomed, IsDead, IsWhite, White, TypeOK, Whites
<1>7. ASSUME NEW S, S \subseteq alloc, Dark(S) PROVE S \subseteq Live'
  BY <1>2, <1>6, <1>7, KindsDisjoint DEF Dark
<1>8. \A o \in alloc : Refs(o) \subseteq alloc
  BY <1>5, SafeIff DEF SafetyInv
<1>9. Roots' \cup Chain' \subseteq Live'
  <2>1. Roots \cup Chain \subseteq alloc /\ Roots' = Roots /\ Chain' = Chain
    BY <1>1, <1>5, SafeIff DEF SafetyInv, Roots, Chain
  <2>2. Chain \subseteq Live'
    BY <1>1, <1>7, <2>1, ChainDark
  <2>3. Dark(tmudata)
    BY <1>1 DEF Dark, FinalizerInv, Separated, TypeOK, HeapTypeOK
  <2>4. FixedStr \subseteq Live'
    BY <1>6, <2>1, RootsAssumption, KindsDisjoint DEF Roots
  <2>5. Dark(Roots \ FixedStr)
    BY <1>2, <2>3 DEF Roots, Dark, MarkMt
  <2>6. Roots \ FixedStr \subseteq Live'
    BY <1>7, <2>1, <2>5
  <2>. QED
    BY <2>1, <2>2, <2>4, <2>6
<1>10. ASSUME NEW o \in Object, o \notin weak PROVE Refs(o)' = Refs(o)
  <2>1. UpValue(o)' = UpValue(o) /\ Resumed(o)' = Resumed(o) /\ entries'[o] = entries[o]
    BY <1>1, <1>10 DEF UpValue, Open, Resumed
  <2>2. ASSUME NEW r PROVE r \in Refs(o)' <=> r \in Refs(o)
    BY <1>1, <2>1, RefsIff, RefsIffNext
  <2>. QED
    BY <2>2
<1>11. ASSUME NEW t \in weak PROVE Refs(t)' \subseteq Live'
  <2>1. t \in Table /\ t \in alloc /\ Dark(Traversed(t)) /\ Traversed(t) \subseteq alloc
        /\ t \notin UpVal /\ t \notin Thread
    <3>1. t \in Table /\ mark[t] = "gray"
      BY <1>1, <1>2 DEF GrayLists
    <3>2. t \in alloc
      BY <1>2, <3>1
    <3>. QED
      BY <1>2, <1>8, <3>1, <3>2, RefsType, KindsDisjoint
  <2>2. Traversed(t) \subseteq Live'
    BY <1>7, <2>1
  <2>3. ASSUME NEW e \in entries'[t]
        PROVE  e[2] \in Live' /\ (e[1] \in Object => e[1] \in Live')
    <3>0. e \in entries[t] /\ e \notin Cleared(t)
      BY <1>1, <2>1
    <3>1. e[1] \in Object \cup PlainKey /\ e[2] \in Object
      <4>1. entries[t] \in SUBSET ((Object \cup PlainKey) \X Object)
        BY <2>1 DEF TypeOK, HeapTypeOK
      <4>. QED
        BY <3>0, <4>1
    <3>. DEFINE strings == {x[1] : x \in entries[t]}
                  \cup {x[2] : x \in {y \in entries[t] : ~IsCleared(y[1], TRUE)}}
    <3>s. strings \cap Str \subseteq StringsMarked
      BY Zenon DEF StringsMarked
    <3>2. e[2] \in alloc /\ (e[1] \in Object => e[1] \in alloc)
      BY <1>8, <2>1, <3>0, <3>1, RefsIff
    <3>3. ~IsCleared(e[1], TRUE)
      <4>1. e[1] \in ArrayKey => e[1] \notin Object
        BY KindsDisjoint DEF PlainKey
      <4>. QED
        BY <3>0, <3>1, <4>1 DEF Cleared, IsCleared
    <3>4. e[1] \in Str => e[1] \in StringsMarked
      BY <3>0, <3>s
    <3>5. e[1] \in Object => e[1] \in Live'
      BY <1>6, <3>2, <3>3, <3>4 DEF IsCleared, White
    <3>6. e[2] \in Str => e[2] \in StringsMarked
      BY <3>0, <3>3, <3>s
    <3>7. CASE e[1] \in ArrayKey /\ ~WeakValue(t)
      BY <2>2, <3>0, <3>5, <3>7 DEF Traversed, ValuesOf
    <3>8. CASE ~IsCleared(e[2], FALSE)
      <4>1. e[2] \in Str \/ ~IsWhite(e[2])
        BY <3>1, <3>8 DEF IsCleared
      <4>2. e[2] \in Live'
        BY <1>6, <3>1, <3>2, <3>6, <4>1 DEF White
      <4>. QED
        BY <3>5, <4>2
    <3>. QED
      BY <3>0, <3>7, <3>8 DEF Cleared
  <2>4. Fixtures(t) \subseteq Live'
    BY <2>2 DEF Traversed
  <2>5. \A r \in {meta[t], env[t]} \cup upv[t] : r # Nil => r \in Live'
    BY <2>4 DEF Fixtures
  <2>. QED
    BY <1>1, <2>1, <2>3, <2>5, RefsIffNext
<1>12. ASSUME NEW o \in Live' PROVE Refs(o)' \subseteq Live'
  <2>1. o \in Object /\ o \in alloc /\ (~IsWhite(o) \/ o \in Str)
    <3>1. o \in alloc /\ o \in Object
      BY <1>1, <1>2 DEF Live
    <3>. QED
      BY <1>4, <1>6, <3>1, RootsAssumption DEF White
  <2>2. CASE o \in Str
    BY <1>4, <2>2
  <2>3. CASE o \in weak
    BY <1>11, <2>3
  <2>4. CASE o \notin Str /\ o \notin weak
    <3>1. mark[o] \in {"gray", "black"}
      BY <1>2, <2>1, <2>4 DEF IsWhite, TypeOK, GCTypeOK, Colour
    <3>2. Dark(Refs(o))
      <4>1. CASE mark[o] = "black"
        BY <1>1, <1>2, <2>1, <4>1 DEF TriColour, White, Dark
      <4>2. CASE mark[o] = "gray" /\ o \in Listed
        <5>1. o \in grayagain
          BY <1>1, <1>2, <2>4, <4>2 DEF GrayLists
        <5>2. o \in Thread /\ Dark(Traversed(o))
          BY <1>2, <5>1
        <5>3. Refs(o) \subseteq Traversed(o)
          BY <5>2, KindsDisjoint
          DEF Refs, Traversed, KeysOf, ValuesOf, SafetyInv, HeapInv, Kinds
        <5>. QED
          BY <5>2, <5>3 DEF Dark
      <4>3. CASE mark[o] = "gray" /\ o \notin Listed
        <5>1. o \in UpVal
          BY <2>1, <2>4, <4>3 DEF Listed, SafetyInv, ColourInv, Colours
        <5>2. Refs(o) \subseteq {UpValue(o)} \ {Nil}
          BY <5>1, RefsIff, KindsDisjoint DEF SafetyInv, HeapInv, Kinds
        <5>. QED
          BY <1>2, <4>3, <5>1, <5>2 DEF Dark
      <4>. QED
        BY <3>1, <4>1, <4>2, <4>3
    <3>. QED
      BY <1>7, <1>8, <1>10, <2>1, <2>4, <3>2
  <2>. QED
    BY <2>2, <2>3, <2>4
<1>13. MemorySafe'
  BY <1>9, <1>12, SafeIffNext
<1>14. HeapInv'
  <2>1. \A o \in Object : mark'[o] = "none" <=> o \notin alloc
    BY <1>1, <1>2 DEF White, IsWhite, Whites
  <2>2. \A o \in Object : entries[o] = {} => entries'[o] = {}
    BY <1>1
  <2>. QED
    BY <1>1, <2>1, <2>2 DEF SafetyInv, HeapInv, Kinds, Values, Neutral, Open
<1>15. Colours'
  BY <1>1, <1>4, KindsDisjoint DEF SafetyInv, ColourInv, Colours, White, Open
<1>16. SweepInv'
  BY <1>1, AllPending DEF SafetyInv
<1>17. WhiteAfterSweep' /\ PropagateInv'
  BY <1>1 DEF WhiteAfterSweep, PropagateInv
<1>. QED
  BY <1>13, <1>14, <1>15, <1>16, <1>17 DEF SafetyInv, ColourInv

-----------------------------------------------------------------------------
(* The sweep.                                                              *)

(* What it frees was doomed, so that nothing that survives refers to it;   *)
(* the open upvalues of a thread are swept with it.                        *)
SweepOf(S) ==
    /\ S \subseteq alloc /\ Sweep(S) /\ currentwhite' = currentwhite
    /\ \A u \in Object : Open(u) /\ loc[u][1] \in S => u \in S

LEMMA SweepKeeps ==
    ASSUME TypeOK, TypeOK', SafetyInv, NEW S, SweepOf(S)
    PROVE  /\ HeapInv' /\ Colours' /\ MemorySafe'
           /\ \A x \in Object :
                /\ IsDead(x)' => IsDead(x) /\ x \notin S
                /\ x \in alloc' => x \in alloc /\ (x \in S => mark'[x] = currentwhite)
                /\ x \in alloc /\ x \notin S =>
                     /\ x \in alloc' /\ mark'[x] = mark[x]
                     /\ loc'[x] = loc[x]
<1>. DEFINE D == {o \in S : Doomed(o)}
<1>1. /\ alloc' = alloc \ D /\ UNCHANGED <<basicmt, co, tmudata, currentwhite>>
      /\ \A o \in Object :
           /\ mark'[o] = IF o \in D THEN "none" ELSE IF o \in S THEN currentwhite
                         ELSE mark[o]
           /\ meta'[o] = IF o \in D THEN Nil ELSE meta[o]
           /\ env'[o] = IF o \in D THEN Nil ELSE env[o]
           /\ entries'[o] = IF o \in D THEN {} ELSE entries[o]
           /\ upv'[o] = IF o \in D THEN {} ELSE upv[o]
           /\ loc'[o] = IF o \in D \/ (Open(o) /\ loc[o][1] \in D) THEN Nil ELSE loc[o]
           /\ val'[o] = IF o \in D THEN Nil
                        ELSE IF Open(o) /\ loc[o][1] \in D THEN UpValue(o) ELSE val[o]
      /\ \A t \in Thread : stack'[t] = IF t \in D THEN [s \in Slot |-> Nil] ELSE stack[t]
  BY DEF SweepOf, Sweep, HFree
<1>2. /\ S \subseteq alloc /\ alloc \subseteq Object /\ D \subseteq S
      /\ \A u \in Object : Open(u) /\ loc[u][1] \in S => u \in S
      /\ D = {o \in S : Doomed(o)}
  BY DEF SweepOf, TypeOK, HeapTypeOK
<1>3. /\ otherwhite' = otherwhite /\ otherwhite # currentwhite
      /\ currentwhite \notin {"gray", "black", "none"} /\ otherwhite # "none"
  BY <1>1, WhitesDiffer DEF otherwhite, TypeOK, GCTypeOK, Whites
<1>. HIDE DEF D
<1>4. ASSUME NEW x \in Object
      PROVE  /\ IsDead(x)' => IsDead(x) /\ x \notin S
             /\ x \in alloc' => x \in alloc /\ (x \in S => mark'[x] = currentwhite)
             /\ x \in alloc /\ x \notin S =>
                  /\ x \in alloc' /\ mark'[x] = mark[x] /\ loc'[x] = loc[x]
  BY <1>1, <1>2, <1>3 DEF IsDead
<1>5. Live' = Live
  <2>1. ASSUME NEW x \in Object PROVE x \in Live' <=> x \in Live
    BY <1>1, <1>2, <1>3 DEF Live, Doomed, IsDead
  <2>2. alloc' \subseteq Object
    BY DEF TypeOK, HeapTypeOK
  <2>. QED
    BY <1>2, <2>1, <2>2 DEF Live
<1>6. \A u \in Object : Open(u) => loc[u] \in Thread \X Slot
  BY DEF Open, TypeOK, HeapTypeOK
<1>7. ASSUME NEW x \in Object, x \notin D PROVE UpValue(x)' = UpValue(x)
  BY <1>1, <1>2, <1>6, <1>7 DEF UpValue, Open
<1>8. ASSUME NEW x \in Live PROVE Refs(x)' = Refs(x)
  <2>1. x \in Object /\ x \notin D
    BY <1>2 DEF Live
  <2>2. Resumed(x)' = Resumed(x)
    BY <1>1 DEF Resumed
  <2>3. ASSUME NEW r PROVE r \in Refs(x)' <=> r \in Refs(x)
    BY <1>1, <1>7, <2>1, <2>2, RefsIff, RefsIffNext
  <2>. QED
    BY <2>3
<1>9. MemorySafe'
  <2>1. Roots' = Roots /\ Chain' = Chain
    BY <1>1 DEF Roots, Chain
  <2>. QED
    BY <1>5, <1>8, <2>1, SafeIff, SafeIffNext DEF SafetyInv
<1>10. Kinds'
  <2>. SUFFICES ASSUME NEW o \in Object
       PROVE /\ o \notin alloc' => Neutral(o)'
             /\ o \in alloc' => mark'[o] # "none"
             /\ o \notin Table => entries'[o] = {}
             /\ o \notin Table \cup Udata => meta'[o] = Nil
             /\ o \notin Closure \cup Udata \cup Thread => env'[o] = Nil
             /\ o \notin Closure => upv'[o] = {}
             /\ o \in Closure \ NativeClosure => upv'[o] \subseteq UpVal
             /\ o \notin UpVal => loc'[o] = Nil /\ val'[o] = Nil
             /\ Open(o)' => val'[o] = Nil /\ loc'[o][1] \in alloc'
    BY DEF Kinds
  <2>1. CASE o \in D
    BY <1>1, <1>2, <2>1 DEF Neutral, Open
  <2>2. CASE o \notin D
    BY <1>1, <1>2, <1>3, <2>2 DEF SafetyInv, HeapInv, Kinds, Neutral, Open
  <2>. QED
    BY <2>1, <2>2
<1>11. Values'
  <2>1. \A u \in UpVal : Open(u) => UpValue(u) \notin UpVal
    BY <1>6 DEF SafetyInv, HeapInv, Values, UpValue
  <2>2. Nil \notin UpVal
    BY KindsDisjoint
  <2>. QED
    BY <1>1, <2>1, <2>2 DEF SafetyInv, HeapInv, Values
<1>12. Colours'
  BY <1>1, <1>2, <1>3 DEF SafetyInv, ColourInv, Colours, Open
<1>. QED
  BY <1>4, <1>9, <1>10, <1>11, <1>12 DEF HeapInv

LEMMA SweepStringSafe ==
    ASSUME TypeOK, TypeOK', SafetyInv, FinalizerInv, SweepString PROVE SafetyInv'
<1>. DEFINE S == {o \in Str \cap alloc : Bucket[o] = sweepstrgc}
<1>1. /\ Sweep(S) /\ gcstate = "sweepstring" /\ sweepstrgc' = sweepstrgc + 1
      /\ gcstate' = IF LastBucket THEN "sweep" ELSE gcstate
      /\ UNCHANGED <<currentwhite, sweepgc, tmudata>>
  BY DEF SweepString, Sweep, HFree
<1>2. SweepOf(S)
  BY <1>1, KindsDisjoint DEF SweepOf, Open, TypeOK, HeapTypeOK
<1>3. /\ HeapInv' /\ Colours' /\ MemorySafe'
      /\ \A x \in Object :
           /\ x \in alloc' => x \in alloc /\ (x \in S => mark'[x] = currentwhite)
           /\ x \in alloc /\ x \notin S =>
                x \in alloc' /\ mark'[x] = mark[x] /\ loc'[x] = loc[x]
  <2>. HIDE DEF S
  <2>. QED
    BY <1>2, SweepKeeps
<1>4. /\ Sweeping /\ Sweeping' /\ alloc \subseteq Object /\ alloc' \subseteq Object
  BY <1>1 DEF Sweeping, TypeOK, HeapTypeOK
<1>5. ASSUME NEW x \in alloc' \ tmudata', mark'[x] # currentwhite PROVE Pending(x)'
  <2>1. x \in alloc \ tmudata /\ x \notin S /\ mark'[x] = mark[x] /\ loc'[x] = loc[x]
    BY <1>1, <1>3, <1>4, <1>5
  <2>2. Pending(x)
    BY <1>1, <1>4, <1>5, <2>1 DEF SafetyInv, ColourInv, SweepInv
  <2>3. CASE x \in Str /\ sweepstrgc <= Bucket[x]
    <3>1. Bucket[x] \in 0 .. NBucket - 1 /\ NBucket \in Nat /\ sweepstrgc \in Nat
      BY <2>3, StringTableAssumption DEF TypeOK, GCTypeOK
    <3>2. sweepstrgc # Bucket[x]
      BY <2>1, <2>3
    <3>3. sweepstrgc + 1 <= Bucket[x] /\ ~LastBucket
      BY <2>3, <3>1, <3>2 DEF LastBucket
    <3>. QED
      BY <1>1, <2>3, <3>3 DEF Pending
  <2>. QED
    BY <1>1, <2>1, <2>2, <2>3 DEF Pending, Open
<1>6. ASSUME NEW x \in sweepgc'
      PROVE  x \in alloc' /\ x \notin Str \cup tmudata' /\ ~Open(x)'
  <2>1. x \in alloc /\ x \notin Str \cup tmudata /\ ~Open(x)
    BY <1>1, <1>4 DEF SafetyInv, ColourInv, SweepInv
  <2>. QED
    BY <1>1, <1>3, <1>4, <2>1 DEF Open
<1>7. SweepInv' /\ WhiteAfterSweep' /\ PropagateInv'
  BY <1>1, <1>4, <1>5, <1>6
  DEF SweepInv, Sweeping, WhiteAfterSweep, PropagateInv
<1>. QED
  BY <1>3, <1>7 DEF SafetyInv, ColourInv

(* The last object of rootgc leaves nothing dead and nothing that has not  *)
(* the current white, but for the userdata that wait for their finalizer.  *)
LEMMA SweepObjectSafe ==
    ASSUME TypeOK, TypeOK', SafetyInv, FinalizerInv, NEW o \in sweepgc, SweepObject(o)
    PROVE  SafetyInv'
<1>. DEFINE S == {o} \cup {u \in UpVal : Open(u) /\ loc[u][1] = o}
<1>1. /\ Sweep(S) /\ gcstate = "sweep" /\ sweepgc' = sweepgc \ {o}
      /\ gcstate' = IF sweepgc' = {} THEN "finalize" ELSE gcstate
      /\ UNCHANGED <<currentwhite, tmudata>>
  BY DEF SweepObject, Sweep, HFree
<1>2. /\ Sweeping /\ alloc \subseteq Object /\ alloc' \subseteq Object
      /\ \A x \in alloc \ tmudata : mark[x] = currentwhite \/ Pending(x)
      /\ \A x \in sweepgc : x \in alloc /\ x \notin Str \cup tmudata /\ ~Open(x)
      /\ \A x \in Object : x \notin alloc => mark[x] = "none" /\ loc[x] = Nil
      /\ \A x \in Object : Open(x) => x \in UpVal /\ loc[x][1] \in Thread
      /\ UpVal \cap Thread = {} /\ UpVal \subseteq Object
  BY <1>1, KindsDisjoint
  DEF Sweeping, TypeOK, HeapTypeOK, SafetyInv, ColourInv, SweepInv, HeapInv, Kinds,
      Neutral, Open
<1>3. SweepOf(S)
  <2>1. S \subseteq alloc
    BY <1>2 DEF Open
  <2>2. \A u \in Object : Open(u) /\ loc[u][1] \in S => u \in S
    BY <1>2
  <2>. QED
    BY <1>1, <2>1, <2>2 DEF SweepOf
<1>4. \A x \in Object : Open(x) /\ loc[x][1] = o => x \in S
  BY <1>2
<1>5. o \in S
  OBVIOUS
<1>. HIDE DEF S
<1>6. /\ HeapInv' /\ Colours' /\ MemorySafe'
      /\ \A x \in Object :
           /\ IsDead(x)' => IsDead(x) /\ x \notin S
           /\ x \in alloc' => x \in alloc /\ (x \in S => mark'[x] = currentwhite)
           /\ x \in alloc /\ x \notin S =>
                x \in alloc' /\ mark'[x] = mark[x] /\ loc'[x] = loc[x]
  BY <1>3, SweepKeeps
<1>7. ASSUME NEW x \in alloc \ tmudata, x \notin S, mark[x] # currentwhite
      PROVE  Pending(x)' /\ sweepgc' # {}
  <2>1. Pending(x) /\ x \in Object /\ loc'[x] = loc[x]
    BY <1>2, <1>6, <1>7
  <2>2. x \in sweepgc => x \in sweepgc'
    BY <1>1, <1>5, <1>7
  <2>3. Open(x) /\ loc[x][1] \in sweepgc => loc[x][1] \in sweepgc'
    BY <1>1, <1>4, <1>7, <2>1
  <2>. QED
    BY <1>1, <2>1, <2>2, <2>3 DEF Pending, Open
<1>8. ASSUME NEW x \in alloc' \ tmudata', mark'[x] # currentwhite
      PROVE  Pending(x)' /\ sweepgc' # {}
  <2>1. x \in alloc \ tmudata /\ x \notin S /\ mark'[x] = mark[x]
    BY <1>1, <1>2, <1>6, <1>8
  <2>. QED
    BY <1>7, <1>8, <2>1
<1>9. ASSUME NEW x \in sweepgc'
      PROVE  x \in alloc' /\ x \notin Str \cup tmudata' /\ ~Open(x)'
  <2>1. x \in alloc /\ x \notin Str \cup tmudata /\ ~Open(x) /\ x \in Object /\ x # o
    BY <1>1, <1>2
  <2>2. x \notin S
    BY <2>1 DEF S
  <2>. QED
    BY <1>1, <1>6, <2>1, <2>2 DEF Open
<1>10. ASSUME ~Sweeping', NEW x \in Object PROVE ~IsDead(x)'
  <2>1. sweepgc' = {}
    BY <1>1, <1>10 DEF Sweeping
  <2>. SUFFICES ASSUME IsDead(x)' PROVE FALSE
    OBVIOUS
  <2>2. IsDead(x) /\ x \notin S
    BY <1>6
  <2>3. otherwhite # "none" /\ otherwhite # currentwhite
    BY WhitesDiffer DEF TypeOK
  <2>4. x \in alloc /\ mark[x] # currentwhite
    BY <1>2, <2>2, <2>3 DEF IsDead
  <2>5. x \notin tmudata
    BY <2>2 DEF FinalizerInv, DeadFinalized, TypeOK, HeapTypeOK
  <2>. QED
    BY <1>7, <2>1, <2>2, <2>4, <2>5
<1>11. SweepInv' /\ WhiteAfterSweep' /\ PropagateInv'
  BY <1>1, <1>8, <1>9, <1>10
  DEF SweepInv, Sweeping, WhiteAfterSweep, PropagateInv
<1>. QED
  BY <1>6, <1>11 DEF SafetyInv, ColourInv

-----------------------------------------------------------------------------
(* The rest of the cycle.                                                  *)

(* GCTM gives u to its finalizer: nothing is dead any more, and u itself   *)
(* becomes white like the rest.                                            *)
LEMMA CallGCTMSafe ==
    ASSUME TypeOK, TypeOK', SafetyInv, FinalizerInv, NEW u \in tmudata, NEW s \in Slot,
           CallGCTM(u, s)
    PROVE  SafetyInv'
<1>1. /\ gcstate = "finalize" /\ gcstate' = gcstate /\ tmudata' = tmudata \ {u}
      /\ UNCHANGED <<alloc, meta, env, entries, tm, upv, loc, val, basicmt, co,
                     finalized, currentwhite, stage, sweepgc>>
      /\ mark' = MakeWhite(u)
      /\ stack' = [stack EXCEPT ![L][s] = u] \/ stack' = stack
  BY DEF CallGCTM, HCallGC, Assign
<1>2. u \in Udata /\ u \in alloc /\ L \in Thread /\ alloc \subseteq Object
  BY RunningLive DEF SafetyInv, FinalizerInv, UdataAllocated, TypeOK, HeapTypeOK
<1>3. /\ currentwhite \notin {"gray", "black", "none"} /\ otherwhite' = otherwhite
      /\ otherwhite # currentwhite
      /\ \A x \in Object : mark'[x] = IF x = u THEN currentwhite ELSE mark[x]
  BY <1>1, WhitesDiffer DEF MakeWhite, otherwhite, TypeOK, GCTypeOK, Whites
<1>4. (\A x \in Object : ~IsDead(x)) /\ \A x \in Object : ~IsDead(x)'
  BY <1>1, <1>3 DEF SafetyInv, ColourInv, SweepInv, Sweeping, IsDead
<1>5. Live = alloc /\ Live' = alloc
  BY <1>1, <1>2, <1>4 DEF Live, Doomed
<1>6. ASSUME NEW x \in Object PROVE Refs(x)' \subseteq Refs(x) \cup {u}
  <2>1. CASE stack' = [stack EXCEPT ![L][s] = u]
    BY <1>1, <1>2, <2>1, StackEdges DEF SafetyInv
  <2>2. CASE stack' = stack
    <3>1. Resumed(x)' = Resumed(x) /\ UpValue(x)' = UpValue(x)
      BY <1>1, <2>2 DEF Resumed, UpValue, Open
    <3>2. \A r \in Refs(x)' : r \in Refs(x)
      BY <1>1, <2>2, <3>1, RefsIff, RefsIffNext
    <3>. QED
      BY <3>2
  <2>. QED
    BY <1>1, <2>1, <2>2
<1>7. MemorySafe'
  <2>1. Roots' \subseteq Roots /\ Chain' = Chain
    BY <1>1 DEF Roots, Chain
  <2>. QED
    BY <1>2, <1>5, <1>6, <2>1, SafeIff, SafeIffNext DEF SafetyInv
<1>8. HeapInv'
  <2>0. stack \in [Thread -> [Slot -> Object \cup {Nil}]]
    BY DEF TypeOK, HeapTypeOK
  <2>1. \A th \in Thread, p \in Slot : stack'[th][p] \in {stack[th][p], u}
    <3>1. CASE stack' = [stack EXCEPT ![L][s] = u]
      BY <1>2, <2>0, <3>1
    <3>2. CASE stack' = stack
      BY <3>2
    <3>. QED
      BY <1>1, <3>1, <3>2
  <2>2. \A th \in Thread, p \in Slot : th \notin alloc => stack'[th][p] = stack[th][p]
    <3>1. L \in alloc
      BY <1>2, RunningLive DEF Live, SafetyInv
    <3>. QED
      BY <1>1, <1>2, <3>1 DEF TypeOK, HeapTypeOK
  <2>3. Kinds'
    BY <1>1, <1>2, <1>3, <2>2, KindsDisjoint
    DEF SafetyInv, HeapInv, Kinds, Neutral, Open
  <2>4. Values'
    BY <1>1, <1>2, <2>1, KindsDisjoint DEF SafetyInv, HeapInv, Values
  <2>. QED
    BY <2>3, <2>4 DEF HeapInv
<1>9. Colours'
  BY <1>1, <1>3 DEF SafetyInv, ColourInv, Colours, Open
<1>10. WhiteAfterSweep'
  BY <1>1, <1>2, <1>3 DEF SafetyInv, ColourInv, WhiteAfterSweep
<1>11. SweepInv' /\ PropagateInv'
  BY <1>1, <1>4 DEF SweepInv, Sweeping, PropagateInv
<1>. QED
  BY <1>7, <1>8, <1>9, <1>10, <1>11 DEF SafetyInv, ColourInv

LEMMA EndCycleSafe == ASSUME TypeOK, SafetyInv, EndCycle PROVE SafetyInv'
<1>1. /\ UNCHANGED heapVars /\ UNCHANGED <<mark, currentwhite, stage, sweepgc>>
      /\ gcstate = "finalize" /\ gcstate' = "pause"
  BY DEF EndCycle
<1>2. otherwhite' = otherwhite /\ HeapKept
  BY <1>1 DEF otherwhite, HeapKept, heapVars
<1>3. HeapInv' /\ Colours'
  BY <1>1 DEF heapVars, SafetyInv, HeapInv, Kinds, Values, Neutral, Open, ColourInv,
           Colours
<1>4. MemorySafe'
  <2>1. Live' = Live /\ Roots' = Roots
    BY <1>1, <1>2 DEF Live, Doomed, IsDead, Roots, heapVars
  <2>. QED
    BY <1>2, <2>1, SameHeap, SafeIff, SafeIffNext DEF SafetyInv
<1>5. SweepInv' /\ WhiteAfterSweep' /\ PropagateInv'
  BY <1>1, <1>2
  DEF heapVars, SafetyInv, ColourInv, SweepInv, Sweeping, IsDead, WhiteAfterSweep,
      PropagateInv
<1>. QED
  BY <1>3, <1>4, <1>5 DEF SafetyInv, ColourInv

LEMMA SafetyInit == Init => SafetyInv
<1>. SUFFICES ASSUME Init PROVE SafetyInv
  OBVIOUS
<1>1. /\ alloc = {MainThread, Registry, Globals} \cup FixedStr /\ co = <<MainThread>>
      /\ alloc \subseteq Object /\ tmudata = {} /\ gcstate = "pause"
      /\ currentwhite = "white0" /\ otherwhite = "white1"
      /\ Globals \in alloc /\ Registry \in alloc /\ MainThread \in alloc
      /\ \A b \in BasicType : basicmt[b] = Nil
  BY RootsAssumption DEF Init, HeapInit, GCInit, otherwhite
<1>2. \A o \in Object :
        /\ meta[o] = Nil /\ entries[o] = {} /\ upv[o] = {} /\ loc[o] = Nil /\ val[o] = Nil
        /\ env[o] = IF o = MainThread THEN Globals ELSE Nil
        /\ mark[o] = IF o \in alloc THEN "white0" ELSE "none"
        /\ o \in Thread => \A s \in Slot : stack[o][s] = Nil
  BY DEF Init, HeapInit, GCInit
<1>3. Kinds
  BY <1>1, <1>2, RootsAssumption DEF Kinds, Neutral, Open
<1>4. Values
  <2>1. Nil \notin UpVal
    BY KindsDisjoint
  <2>. QED
    BY <1>1, <1>2, <2>1 DEF Values
<1>5. \A o \in Object : ~IsDead(o)
  BY <1>1, <1>2 DEF IsDead
<1>6. Live = alloc
  BY <1>1, <1>5 DEF Live, Doomed
<1>7. MemorySafe
  <2>1. Roots \cup Chain \subseteq alloc
    <3>1. \A i \in DOMAIN co : co[i] = MainThread
      BY <1>1
    <3>. QED
      BY <1>1, <3>1 DEF Roots, Chain
  <2>2. Resumed(MainThread) = {} /\ \A o : Resumed(o) = {}
    BY <1>1 DEF Resumed
  <2>3. ASSUME NEW o \in alloc, NEW r \in Refs(o) PROVE r \in alloc
    <3>1. UpValue(o) = Nil
      BY <1>1, <1>2 DEF UpValue, Open
    <3>. QED
      BY <1>1, <1>2, <2>2, <3>1, RefsIff
  <2>. QED
    BY <1>6, <2>1, <2>3, SafeIff
<1>8. ColourInv
  BY <1>1, <1>2, <1>5
  DEF ColourInv, Colours, SweepInv, Sweeping, WhiteAfterSweep, PropagateInv
<1>. QED
  BY <1>3, <1>4, <1>7, <1>8 DEF SafetyInv, HeapInv

-----------------------------------------------------------------------------
(* The theorems.                                                           *)

LEMMA CollectorSafe ==
    ASSUME TypeOK, TypeOK', SafetyInv, FinalizerInv, Collector PROVE SafetyInv'
<1>1. CASE MarkRoot \/ \E o \in gray : PropagateMark(o)
  BY <1>1, MarkRootSafe, PropagateMarkSafe
<1>2. CASE RemarkUpvals \/ RemarkWeak \/ RemarkGrayAgain \/ SeparateUdata
  BY <1>2, RemarkUpvalsSafe, RemarkWeakSafe, RemarkGrayAgainSafe, SeparateUdataSafe
<1>3. CASE \/ ClearWeakAndFlip \/ SweepString
           \/ \E o \in sweepgc : SweepObject(o)
  BY <1>3, ClearWeakSafe, SweepStringSafe, SweepObjectSafe
<1>4. CASE (\E u \in tmudata, s \in Slot : CallGCTM(u, s)) \/ EndCycle
  BY <1>4, CallGCTMSafe, EndCycleSafe
<1>. QED
  BY <1>1, <1>2, <1>3, <1>4 DEF Collector

IInv == TypeOK /\ BucketInRange /\ ListedOnly /\ FinalizerInv /\ SafetyInv

LEMMA SafetyStep ==
    ASSUME IInv, "debug.setupvalue" \notin Ops, [Next]_vars PROVE IInv'
<1>. USE DEF IInv
<1>1. TypeOK' /\ BucketInRange'
  BY TypeStep, BucketStep
<1>2. ListedOnly' /\ FinalizerInv'
  BY ListsStep, FinalizerStep
<1>3. SafetyInv'
  <2>1. CASE Program
    BY <1>1, <2>1, ProgramSafe
  <2>2. CASE Collector
    BY <1>1, <2>2, CollectorSafe
  <2>3. CASE UNCHANGED vars
    BY <2>3, QuietStep DEF vars, gcVars
  <2>. QED
    BY <2>1, <2>2, <2>3 DEF Next
<1>. QED
  BY <1>1, <1>2, <1>3

LEMMA SafetyInvariant ==
    ASSUME "debug.setupvalue" \notin Ops PROVE Spec => []IInv
<1>1. Init => IInv
  BY TypeInit, FinalizerInit, SafetyInit DEF IInv, Init, GCInit, BucketInRange
<1>2. IInv /\ [Next]_vars => IInv'
  BY SafetyStep
<1>. QED
  BY <1>1, <1>2, PTL DEF Spec

(* No object that survives the cycle under way, no root and no running     *)
(* coroutine refers to an object that sweeplist or luaF_close has freed or *)
(* is about to free, whatever the program stores between the single steps. *)
(* lua_setupvalue on a Lua function is excepted: its barrier is on the     *)
(* wrong object (GCSetUpvalueShared).                                      *)
THEOREM NothingUsedIsFreed ==
    ASSUME "debug.setupvalue" \notin Ops PROVE Spec => []MemorySafe
<1>1. IInv => MemorySafe
  BY DEF IInv, SafetyInv
<1>. QED
  BY <1>1, SafetyInvariant, PTL

(* While the collector marks, nothing that it has traversed (black) refers *)
(* to a white object: the barriers of every store of lapi.c, lvm.c and     *)
(* ltable.c, and luaC_linkupval, keep it so.                               *)
THEOREM BarriersSuffice ==
    ASSUME "debug.setupvalue" \notin Ops PROVE Spec => []TriColour
<1>1. IInv => TriColour
  BY DEF IInv, SafetyInv, ColourInv, PropagateInv, TriColour
<1>. QED
  BY <1>1, SafetyInvariant, PTL

(* The one field `gclist' suffices: whatever the barriers, propagatemark   *)
(* and atomic() link into gray, grayagain and weak, a gray object is in    *)
(* one list and a list holds what its consumer expects.                    *)
THEOREM GrayListsDisjoint ==
    ASSUME "debug.setupvalue" \notin Ops PROVE Spec => []GrayLists
<1>1. IInv => GrayLists
  BY DEF IInv, SafetyInv, ColourInv, PropagateInv, GrayLists
<1>. QED
  BY <1>1, SafetyInvariant, PTL

(* When the sweep is over, everything but the userdata in tmudata has the  *)
(* current white: nothing the program or a barrier coloured meanwhile was  *)
(* missed by sweepstrgc and sweepgc.                                       *)
THEOREM SweepWhitensAll ==
    ASSUME "debug.setupvalue" \notin Ops PROVE Spec => []WhiteAfterSweep
<1>1. IInv => WhiteAfterSweep
  BY DEF IInv, SafetyInv, ColourInv
<1>. QED
  BY <1>1, SafetyInvariant, PTL

-----------------------------------------------------------------------------
(* The promise of LuaHeap.                                                 *)

LEMMA HeldInRefs == ASSUME NEW o PROVE Held(o) \subseteq Refs(o)
BY DEF Held, Refs

(* What the sweep spares holds together, so that what it frees is garbage. *)
LEMMA DoomedGarbage ==
    ASSUME TypeOK, SafetyInv, NEW D, \A o \in D : o \notin Live PROVE Garbage(D)
<1>1. Live \in SUBSET (alloc \ D)
  BY DEF Live
<1>2. Roots \subseteq Live /\ Closed(Live)
  BY SafeIff, HeldInRefs DEF SafetyInv, Closed
<1>. QED
  BY <1>1, <1>2 DEF Garbage

(* At the end of the mark phase, what is marked and the strings.           *)
Retained == {o \in alloc : ~IsWhite(o) \/ o \in Str}

LEMMA RetainedClosed ==
    ASSUME TypeOK, SafetyInv, gcstate = "propagate", gray = {}, stage >= 3
    PROVE  /\ Roots \ tmudata \subseteq Retained
           /\ \A o \in Retained : (o \in tmudata => stage = 4) => Held(o) \subseteq Retained
<1>1. /\ PropagateInv /\ GrayLists /\ TriColour /\ Kinds /\ Colours
      /\ \A u \in UpVal : mark[u] = "gray" => Dark({UpValue(u)})
      /\ Dark(MarkMt) /\ Dark({MainThread, Registry})
      /\ \A t \in weak : IsWeak(t) /\ Dark(Traversed(t))
      /\ \A o \in grayagain : o \in Thread /\ Dark(Traversed(o))
  <2>1. PropagateInv /\ Kinds /\ Colours
    BY DEF SafetyInv, HeapInv, ColourInv
  <2>2. stage >= 1 /\ stage >= 2
    BY DEF TypeOK, GCTypeOK
  <2>. QED
    BY <2>1, <2>2 DEF PropagateInv
<1>2. Live = alloc
  BY DEF SafetyInv, ColourInv, SweepInv, Sweeping, Live, Doomed, TypeOK, HeapTypeOK
<1>3. Roots \subseteq alloc /\ (\A o \in alloc : Refs(o) \subseteq alloc) /\ alloc \subseteq Object
  BY <1>2, SafeIff DEF SafetyInv, TypeOK, HeapTypeOK
<1>4. ASSUME NEW S, S \subseteq alloc, Dark(S) PROVE S \subseteq Retained
  BY <1>3, <1>4, KindsDisjoint DEF Dark, Retained
<1>5. Roots \ tmudata \subseteq Retained
  <2>1. Dark((Roots \ tmudata) \ FixedStr)
    BY <1>1 DEF Roots, Dark, MarkMt
  <2>2. (Roots \ tmudata) \ FixedStr \subseteq Retained
    BY <1>3, <1>4, <2>1
  <2>3. Roots \cap FixedStr \subseteq Retained
    BY <1>3, RootsAssumption DEF Retained
  <2>. QED
    BY <2>2, <2>3
<1>6. ASSUME NEW o \in Retained, o \in tmudata => stage = 4
      PROVE  Held(o) \subseteq Retained
  <2>1. o \in alloc /\ o \in Object /\ Refs(o) \subseteq alloc /\ Held(o) \subseteq Refs(o)
    BY <1>3, HeldInRefs DEF Retained
  <2>2. CASE o \in Str
    BY <1>1, <2>1, <2>2, RefsIff, KindsDisjoint DEF Kinds
  <2>3. CASE mark[o] = "black"
    BY <1>1, <1>4, <1>6, <2>1, <2>3 DEF TriColour, White, Dark
  <2>4. CASE mark[o] = "gray" /\ o \in Listed
    <3>1. o \in grayagain \cup weak
      BY <1>1, <2>4 DEF GrayLists
    <3>2. Traversed(o) \subseteq Retained
      BY <1>1, <1>4, <2>1, <3>1, RefsType
    <3>3. Held(o) \subseteq Traversed(o) \cup Str
      BY DEF Held, Traversed
    <3>. QED
      BY <2>1, <3>2, <3>3 DEF Retained
  <2>5. CASE mark[o] = "gray" /\ o \in UpVal
    <3>1. Refs(o) \subseteq {UpValue(o)}
      BY <1>1, <2>5, RefsIff, KindsDisjoint DEF Kinds
    <3>2. Dark(Refs(o))
      BY <1>1, <2>5, <3>1 DEF Dark
    <3>. QED
      BY <1>4, <2>1, <3>2
  <2>6. mark[o] \in {"gray", "black"} \/ o \in Str
    <3>1. mark[o] # "none"
      BY <1>1, <2>1 DEF Kinds
    <3>. QED
      BY <2>1, <3>1 DEF Retained, IsWhite, TypeOK, GCTypeOK, Colour
  <2>7. mark[o] = "gray" => o \in Listed \cup UpVal \cup Str
    BY <1>1, <2>1 DEF Colours, Listed
  <2>. QED
    BY <2>2, <2>3, <2>4, <2>5, <2>6, <2>7
<1>. QED
  BY <1>5, <1>6

(* What luaC_separateudata hands over is reachable through a userdata that *)
(* waits already at most.                                                  *)
LEMMA SeparateRefines ==
    ASSUME TypeOK, SafetyInv, FinalizerInv, SeparateUdata PROVE HeapNext
<1>1. /\ gcstate = "propagate" /\ gray = {} /\ stage >= 3 /\ HSeparate(ToSeparate)
  BY DEF SeparateUdata, AtomicStage, TypeOK, GCTypeOK
<1>2. ToSeparate \in SUBSET ((Udata \cap alloc) \ finalized)
  BY DEF ToSeparate, White
<1>3. Retained \in SUBSET (alloc \ ToSeparate)
  BY KindsDisjoint DEF Retained, ToSeparate, White
<1>4. Separable(ToSeparate)
  <2>1. \A o \in Retained \ tmudata : Held(o) \subseteq Retained
    BY <1>1, RetainedClosed
  <2>2. Roots \ tmudata \subseteq Retained
    BY <1>1, RetainedClosed
  <2>. QED
    BY <1>3, <2>1, <2>2 DEF Separable
<1>. QED
  BY <1>1, <1>2, <1>4 DEF HeapNext, AbstractCollector

LEMMA ClearWeakRefines ==
    ASSUME TypeOK, SafetyInv, FinalizerInv, ClearWeakAndFlip PROVE HeapNext
<1>1. /\ gcstate = "propagate" /\ gray = {} /\ stage = 4
      /\ entries' = [t \in Object |-> IF t \in weak THEN entries[t] \ Cleared(t)
                                      ELSE entries[t]]
      /\ UNCHANGED <<alloc, meta, env, tm, upv, loc, val, stack, basicmt, co,
                     tmudata, finalized, called>>
  BY DEF ClearWeakAndFlip
<1>2. HClearWeak
  <2>1. \A t \in Object : entries'[t] \subseteq entries[t]
    BY <1>1
  <2>2. \A t \in Object : entries[t] \subseteq UNION {entries[x] : x \in Object}
    BY Zenon
  <2>3. entries' \in [Object -> SUBSET (UNION {entries[x] : x \in Object})]
    <3>. DEFINE U == UNION {entries[x] : x \in Object}
    <3>1. \A t \in Object : entries[t] \subseteq U
      BY <2>2
    <3>. HIDE DEF U
    <3>2. entries' \in [Object -> SUBSET U]
      BY <1>1, <3>1
    <3>. QED
      BY <3>2 DEF U
  <2>. QED
    BY <1>1, <2>1, <2>3 DEF HClearWeak
<1>3. \A t \in weak : t \in Table /\ IsWeak(t)
  <2>1. PropagateInv /\ stage >= 2
    BY <1>1 DEF SafetyInv, ColourInv
  <2>. QED
    BY <1>1, <2>1 DEF PropagateInv, GrayLists
<1>4. ASSUME NEW x \in Object \ Str, IsWhite(x) PROVE Garbage({x})
  <2>1. Retained \in SUBSET (alloc \ {x})
    BY <1>4 DEF Retained
  <2>2. Closed(Retained) /\ Roots \ tmudata \subseteq Retained
    BY <1>1, RetainedClosed DEF Closed
  <2>3. tmudata \subseteq Retained
    BY <1>1 DEF Retained, FinalizerInv, UdataAllocated, Separated, TypeOK, HeapTypeOK
  <2>. QED
    BY <2>1, <2>2, <2>3 DEF Garbage
<1>5. ASSUME NEW t \in Object, NEW e \in entries[t] \ entries'[t]
      PROVE  Clearable(t, e)
  <2>1. t \in weak /\ e \in Cleared(t)
    BY <1>1
  <2>2. IsCleared(e[1], TRUE) \/ IsCleared(e[2], FALSE)
    BY <2>1 DEF Cleared
  <2>3. \/ \E x \in ({e[1], e[2]} \cap Object) \ Str : IsWhite(x)
        \/ e[2] \in finalized
    BY <2>2 DEF IsCleared
  <2>. QED
    BY <1>3, <1>4, <2>1, <2>3 DEF Clearable
<1>. QED
  BY <1>2, <1>5 DEF HeapNext, AbstractCollector

LEMMA SweepRefines ==
    ASSUME TypeOK, SafetyInv, NEW S, S \subseteq alloc, Sweep(S) PROVE HeapNext
<1>. DEFINE D == {o \in S : Doomed(o)}
<1>1. HFree(D) /\ D \in SUBSET alloc
  BY DEF Sweep
<1>2. Garbage(D)
  <2>1. \A o \in D : o \notin Live
    BY DEF Live
  <2>. HIDE DEF D
  <2>. QED
    BY <2>1, DoomedGarbage
<1>. QED
  BY <1>1, <1>2 DEF HeapNext, AbstractCollector

LEMMA CollectorRefines ==
    ASSUME IInv, Collector PROVE HeapNext \/ UNCHANGED heapVars
<1>. USE DEF IInv
<1>1. CASE \/ MarkRoot \/ \E o \in gray : PropagateMark(o)
           \/ RemarkUpvals \/ RemarkWeak \/ RemarkGrayAgain \/ EndCycle
  BY <1>1
  DEF MarkRoot, PropagateMark, RemarkUpvals, RemarkWeak, RemarkGrayAgain, EndCycle
<1>2. CASE SeparateUdata \/ ClearWeakAndFlip
  BY <1>2, SeparateRefines, ClearWeakRefines
<1>3. CASE SweepString
  <2>. DEFINE S == {o \in Str \cap alloc : Bucket[o] = sweepstrgc}
  <2>1. Sweep(S) /\ S \subseteq alloc
    BY <1>3 DEF SweepString
  <2>. HIDE DEF S
  <2>. QED
    BY <2>1, SweepRefines
<1>4. ASSUME NEW o \in sweepgc, SweepObject(o) PROVE HeapNext
  <2>. DEFINE S == {o} \cup {u \in UpVal : Open(u) /\ loc[u][1] = o}
  <2>1. Sweep(S)
    BY <1>4 DEF SweepObject
  <2>2. S \subseteq alloc
    <3>1. o \in alloc
      BY <1>4 DEF SweepObject, SafetyInv, ColourInv, SweepInv, Sweeping
    <3>2. \A u \in UpVal : Open(u) => u \in alloc
      BY DEF SafetyInv, HeapInv, Kinds, Neutral, Open
    <3>. QED
      BY <3>1, <3>2
  <2>. HIDE DEF S
  <2>. QED
    BY <2>1, <2>2, SweepRefines
<1>5. ASSUME NEW u \in tmudata, NEW s \in Slot, CallGCTM(u, s) PROVE HeapNext
  BY <1>5 DEF CallGCTM, HeapNext, AbstractCollector
<1>. QED
  BY <1>1, <1>2, <1>3, <1>4, <1>5 DEF Collector

LEMMA AllocateRefines ==
    ASSUME TypeOK, SafetyInv, Allocate PROVE AbstractMutator
<1>. PICK s \in Slot :
       \/ \E t \in Table : NewTable(s, t)
       \/ \E u \in Udata : NewUdata(s, u)
       \/ \E th \in Thread : NewThread(s, th)
       \/ \E f \in NativeClosure, v \in Accessible : PushCClosure(s, f, v)
       \/ \E str \in Str : NewString(s, str)
       \/ \E f \in Closure, u \in UpVal, p \in Slot : NewClosure(s, f, u, p)
  BY DEF Allocate
<1>1. ASSUME NEW o \in Object \ UpVal, NEW e \in Accessible \cup {Nil},
             NEW c \in {{}} \cup {{x} : x \in Accessible}, HNew(s, o, e, c)
      PROVE  AbstractMutator
  BY <1>1 DEF AbstractMutator
<1>2. ASSUME NEW f \in Closure, NEW u \in UpVal, NEW p \in Slot, NewClosure(s, f, u, p)
      PROVE  AbstractMutator
  BY <1>2 DEF NewClosure, AbstractMutator
<1>3. env[L] \in Accessible \cup {Nil}
  BY DEF Accessible
<1>4. ASSUME NEW o \in Table \cup Udata \cup Thread \cup NativeClosure \cup Str
      PROVE  o \in Object \ UpVal
  BY KindsDisjoint, RootsAssumption
<1>5. ASSUME NEW str \in Str, NewString(s, str) PROVE HNew(s, str, Nil, {})
  <2>1. CASE str \in alloc
    <3>1. env[str] = Nil /\ upv[str] = {}
      BY KindsDisjoint DEF SafetyInv, HeapInv, Kinds
    <3>2. /\ alloc = alloc \cup {str}
          /\ env = [env EXCEPT ![str] = Nil] /\ upv = [upv EXCEPT ![str] = {}]
      BY <2>1, <3>1 DEF TypeOK, HeapTypeOK
    <3>. QED
      BY <1>5, <2>1, <3>2 DEF NewString, HLoad, HNew
  <2>. QED
    BY <1>5, <2>1 DEF NewString
<1>. QED
  BY <1>1, <1>2, <1>3, <1>4, <1>5 DEF NewTable, NewUdata, NewThread, PushCClosure

(* Every step of the program is what LuaHeap says of its operation, and    *)
(* what luaF_close frees is garbage.                                       *)
LEMMA ProgramRefines ==
    ASSUME TypeOK, SafetyInv, Program PROVE AbstractMutator \/ UNCHANGED heapVars
<1>1. ASSUME NEW s \in Slot, CloseUpvals(s) PROVE AbstractMutator
  <2>. DEFINE D == {u \in OpenAbove(L, s) : IsDead(u)}
  <2>1. HCloseUpvals(s, D) /\ D \in SUBSET OpenAbove(L, s)
    BY <1>1 DEF CloseUpvals
  <2>2. Garbage(D)
    <3>1. \A u \in D : u \notin Live
      BY RootsAssumption, KindsDisjoint DEF Live, Doomed, OpenAbove
    <3>. HIDE DEF D
    <3>. QED
      BY <3>1, DoomedGarbage
  <2>. HIDE DEF D
  <2>. QED
    BY <2>1, <2>2 DEF AbstractMutator
<1>2. CASE Store
  BY <1>2
  DEF Store, AbstractMutator, SetTable, SetMetafields, SetMetatable, SetUdataMetatable,
      SetBasicMetatable, SetFenv, SetCapture, SetUpval, DebugSetUpvalue
<1>3. CASE Control
  BY <1>1, <1>3
  DEF Control, AbstractMutator, Resume, Yield, XMove, StartFullGC, FinalizerError
<1>4. ASSUME NEW s \in Slot, NEW v \in Readable \cup {Nil}, Load(s, v)
      PROVE  AbstractMutator
  BY <1>4 DEF Load, AbstractMutator
<1>. QED
  BY <1>2, <1>3, <1>4, AllocateRefines DEF Program

(* The collector keeps the promise of LuaHeap: it frees only what cannot   *)
(* be reached, clears from weak tables only pairs that lost a half or      *)
(* whose value was finalized, and calls a finalizer once, for a userdata   *)
(* that separateudata found abandoned.                                     *)
THEOREM CollectorKeepsPromise ==
    ASSUME "debug.setupvalue" \notin Ops PROVE Spec => ImplementsHeap
<1>1. Init => HeapInit
  BY DEF Init
<1>2. IInv /\ [Next]_vars => [HeapNext]_heapVars
  BY CollectorRefines, ProgramRefines DEF IInv, Next, HeapNext, vars
<1>. QED
  BY <1>1, <1>2, SafetyInvariant, PTL DEF Spec, ImplementsHeap, HeapSpec

=============================================================================
