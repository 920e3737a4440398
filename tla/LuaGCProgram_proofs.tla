------------------------- MODULE LuaGCProgram_proofs -------------------------
(***************************************************************************)
(* The invariant behind the safety of the collector of LuaGC, and that     *)
(* every operation of the program preserves it: what it does to the        *)
(* references between objects, and what its barriers do to their colours.  *)
(***************************************************************************)
EXTENDS LuaGC_proofs

USE DEF Object

-----------------------------------------------------------------------------
(* The invariant.                                                          *)

(* What is not allocated has no fields and no colour.                      *)
Neutral(o) ==
    /\ mark[o] = "none" /\ meta[o] = Nil /\ env[o] = Nil
    /\ entries[o] = {} /\ upv[o] = {} /\ loc[o] = Nil /\ val[o] = Nil
    /\ o \in Thread => \A s \in Slot : stack[o][s] = Nil

(* Each kind of object has the fields of its kind only, and an open upvalue*)
(* points at the stack of an allocated thread.                             *)
Kinds ==
    \A o \in Object :
      /\ o \notin alloc => Neutral(o)
      /\ o \in alloc => mark[o] # "none"
      /\ o \notin Table => entries[o] = {}
      /\ o \notin Table \cup Udata => meta[o] = Nil
      /\ o \notin Closure \cup Udata \cup Thread => env[o] = Nil
      /\ o \notin Closure => upv[o] = {}
      /\ o \in Closure \ NativeClosure => upv[o] \subseteq UpVal
      /\ o \notin UpVal => loc[o] = Nil /\ val[o] = Nil
      /\ Open(o) => val[o] = Nil /\ loc[o][1] \in alloc

(* An upvalue is no value, and the main thread is at the base of the chain *)
(* of running coroutines.                                                  *)
Values ==
    /\ \A th \in Thread, s \in Slot : stack[th][s] \notin UpVal
    /\ \A u \in UpVal : val[u] \notin UpVal
    /\ co[1] = MainThread

(* Strings, threads and open upvalues are never black, userdata and closed *)
(* upvalues never gray.                                                    *)
Colours ==
    \A o \in Object :
      /\ mark[o] = "black" => o \notin Str \cup Thread /\ ~Open(o)
      /\ mark[o] = "gray" => o \notin Udata /\ (o \in UpVal => Open(o))

(* What the sweep under way has still to visit.                            *)
Pending(o) ==
    \/ o \in sweepgc
    \/ gcstate = "sweepstring" /\ o \in Str /\ sweepstrgc <= Bucket[o]
    \/ Open(o) /\ loc[o][1] \in sweepgc

SweepInv ==
    /\ ~Sweeping => \A o \in Object : ~IsDead(o)
    /\ Sweeping =>
         /\ \A o \in alloc \ tmudata : mark[o] = currentwhite \/ Pending(o)
         /\ \A o \in sweepgc : o \in alloc /\ o \notin Str \cup tmudata /\ ~Open(o)

(* No object of S is white.                                                *)
Dark(S) == \A o \in S : o # Nil => ~IsWhite(o)

(* The mark phase: how much of what is gray has been traversed for good    *)
(* depends on how far atomic() has got.                                    *)
PropagateInv ==
    gcstate = "propagate" =>
      /\ GrayLists
      /\ TriColour
      /\ Dark({MainThread, Registry})
      /\ stage >= 1 => \A u \in UpVal : mark[u] = "gray" => Dark({UpValue(u)})
      /\ stage >= 2 => Dark(MarkMt) /\ \A t \in weak : IsWeak(t) /\ Dark(Traversed(t))
      /\ stage >= 3 => \A o \in grayagain : o \in Thread /\ Dark(Traversed(o))

HeapInv == Kinds /\ Values

ColourInv == Colours /\ SweepInv /\ WhiteAfterSweep /\ PropagateInv

SafetyInv == HeapInv /\ ColourInv /\ MemorySafe

-----------------------------------------------------------------------------
(* References.                                                             *)

(* The objects that the sweep under way spares.                            *)
Live == {o \in alloc : ~Doomed(o)}

Chain == {co[i] : i \in DOMAIN co}

LEMMA SafeIff ==
    MemorySafe <=> Roots \cup Chain \subseteq Live /\ \A o \in Live : Refs(o) \subseteq Live
BY DEF MemorySafe, Live, Chain

LEMMA SafeIffNext ==
    MemorySafe' <=> /\ Roots' \cup Chain' \subseteq Live'
                    /\ \A o \in Live' : Refs(o)' \subseteq Live'
BY DEF MemorySafe, Live, Chain

LEMMA RefsIff ==
    ASSUME NEW o, NEW r
    PROVE  r \in Refs(o) <=>
             \/ r # Nil /\ \/ r = meta[o] \/ r = env[o] \/ r \in upv[o]
                           \/ o \in UpVal /\ r = UpValue(o)
                           \/ o \in Thread /\ \E s \in Slot : r = stack[o][s]
                           \/ o \in Thread /\ r \in Resumed(o)
             \/ r \in Object /\ \E e \in entries[o] : r = e[1]
             \/ \E e \in entries[o] : r = e[2]
BY DEF Refs, Fixtures, KeysOf, ValuesOf, StackOf

LEMMA RefsIffNext ==
    ASSUME NEW o, NEW r
    PROVE  r \in Refs(o)' <=>
             \/ r # Nil /\ \/ r = meta'[o] \/ r = env'[o] \/ r \in upv'[o]
                           \/ o \in UpVal /\ r = UpValue(o)'
                           \/ o \in Thread /\ \E s \in Slot : r = stack'[o][s]
                           \/ o \in Thread /\ r \in Resumed(o)'
             \/ r \in Object /\ \E e \in entries'[o] : r = e[1]
             \/ \E e \in entries'[o] : r = e[2]
BY DEF Refs, Fixtures, KeysOf, ValuesOf, StackOf

LEMMA RunningLive ==
    ASSUME TypeOK, MemorySafe PROVE L \in Live \cap Thread
<1>1. co \in Seq(Thread) /\ co # <<>>
  BY DEF TypeOK, HeapTypeOK
<1>2. Len(co) \in DOMAIN co
  BY <1>1
<1>. QED
  BY <1>2, RunningThread, SafeIff DEF Chain, L, TypeOK

(* What the program can name is not about to be freed.                     *)
LEMMA AccessibleLive ==
    ASSUME TypeOK, HeapInv, MemorySafe
    PROVE  Accessible \subseteq Live /\ Accessible \cap UpVal = {}
<1>1. L \in Live /\ L \in Thread
  BY RunningLive
<1>2. \A s \in Slot : stack[L][s] # Nil => stack[L][s] \in Refs(L)
  BY <1>1, RefsIff
<1>3. env[L] # Nil => env[L] \in Refs(L)
  BY RefsIff
<1>4. Registry \in Roots
  BY RootsAssumption, KindsDisjoint DEF Roots
<1>5. Accessible \subseteq Live
  BY <1>1, <1>2, <1>3, <1>4, SafeIff DEF Accessible
<1>6. \A s \in Slot : stack[L][s] \notin UpVal
  BY <1>1 DEF HeapInv, Values
<1>7. env[L] \notin UpVal /\ Registry \notin UpVal
  BY <1>1, RootsAssumption, KindsDisjoint DEF TypeOK, HeapTypeOK
<1>. QED
  BY <1>5, <1>6, <1>7 DEF Accessible

LEMMA ReadableLive ==
    ASSUME TypeOK, HeapInv, MemorySafe
    PROVE  Readable \subseteq Live /\ Readable \cap UpVal = {}
<1>1. Accessible \subseteq Live /\ Accessible \cap UpVal = {}
  BY AccessibleLive
<1>2. ASSUME NEW o \in Accessible PROVE Refs(o) \subseteq Live
  BY <1>1, SafeIff
<1>3. ASSUME NEW o \in Accessible, NEW u \in upv[o] \cap UpVal
      PROVE  UpValue(u) # Nil => UpValue(u) \in Live
  <2>1. u # Nil
    BY KindsDisjoint
  <2>2. u \in Refs(o)
    BY <2>1, RefsIff
  <2>3. UpValue(u) # Nil => UpValue(u) \in Refs(u)
    BY RefsIff
  <2>. QED
    BY <1>2, <2>2, <2>3, SafeIff
<1>. QED
  BY <1>1, <1>2, <1>3 DEF Readable

LEMMA NeutralRefs ==
    ASSUME TypeOK, HeapInv, MemorySafe, NEW o \in Object \ alloc
    PROVE  Refs(o) = {}
<1>1. Neutral(o)
  BY DEF HeapInv, Kinds
<1>2. UpValue(o) = Nil
  BY <1>1 DEF Neutral, UpValue, Open
<1>3. Resumed(o) = {}
  <2>1. co \in Seq(Thread)
    BY DEF TypeOK, HeapTypeOK
  <2>2. \A j \in 1 .. Len(co) - 1 : co[j] \in alloc
    BY <2>1, SafeIff DEF Chain, Live
  <2>. QED
    BY <2>2 DEF Resumed
<1>. QED
  BY <1>1, <1>2, <1>3, RefsIff DEF Neutral

(* A store of v to a slot of a thread changes the references of threads    *)
(* and of open upvalues only.                                              *)
LEMMA StackEdges ==
    ASSUME TypeOK, HeapInv, NEW th \in Thread, NEW s \in Slot, NEW v,
           stack' = [stack EXCEPT ![th][s] = v], co' = co,
           NEW x \in Object,
           /\ meta'[x] = meta[x] /\ env'[x] = env[x] /\ entries'[x] = entries[x]
           /\ upv'[x] = upv[x] /\ loc'[x] = loc[x] /\ val'[x] = val[x]
    PROVE  /\ Refs(x)' \subseteq Refs(x) \cup {v}
           /\ x \notin Thread /\ ~Open(x) => Refs(x)' = Refs(x)
<1>1. Resumed(x)' = Resumed(x)
  BY DEF Resumed
<1>2. \A t \in Thread, p \in Slot : stack'[t][p] \in {stack[t][p], v}
  BY DEF TypeOK, HeapTypeOK
<1>3. Open(x)' <=> Open(x)
  BY DEF Open
<1>4. UpValue(x)' \in {UpValue(x), v} /\ (~Open(x) => UpValue(x)' = UpValue(x))
  <2>1. CASE Open(x)
    <3>1. loc[x][1] \in Thread /\ loc[x][2] \in Slot
      BY <2>1 DEF Open, TypeOK, HeapTypeOK
    <3>. QED
      BY <1>2, <1>3, <2>1, <3>1 DEF UpValue
  <2>2. CASE ~Open(x)
    BY <1>3, <2>2 DEF UpValue
  <2>. QED
    BY <2>1, <2>2
<1>5. ASSUME NEW r, r \in Refs(x)' PROVE r \in Refs(x) \cup {v}
  BY <1>1, <1>2, <1>4, <1>5, RefsIff, RefsIffNext
<1>6. ASSUME x \notin Thread, ~Open(x), NEW r PROVE r \in Refs(x)' <=> r \in Refs(x)
  BY <1>1, <1>4, <1>6, RefsIff, RefsIffNext
<1>. QED
  BY <1>5, <1>6

-----------------------------------------------------------------------------
(* What a step of the program does.                                        *)

(* The collector does not move.                                            *)
CollectorKept ==
    UNCHANGED <<currentwhite, gcstate, stage, weak, sweepgc, sweepstrgc, tmudata>>

(* What it may do to the colour of object x: nothing (a white upvalue may  *)
(* be closed) ...                                                          *)
Kept(x) ==
    /\ mark'[x] = mark[x] /\ (x \in alloc' <=> x \in alloc)
    /\ loc'[x] = loc[x] \/ (Open(x) /\ mark[x] = currentwhite /\ loc'[x] = Nil)

(* ... make it white because it is new, dead or in the way of a barrier    *)
(* that does not mark ...                                                  *)
Whitened(x) ==
    /\ x \in alloc' /\ mark'[x] = currentwhite
    /\ x \notin alloc \/ IsDead(x) \/ gcstate # "propagate"
    /\ x \in alloc => loc'[x] \in {loc[x], Nil}

(* ... mark it ...                                                         *)
Marked(x) ==
    /\ gcstate = "propagate" /\ IsWhite(x)
    /\ mark'[x] = IF x \in Udata \/ (x \in UpVal /\ ~Open(x)) THEN "black" ELSE "gray"
    /\ x \in alloc' /\ loc'[x] = loc[x]

(* ... turn a black table gray again ...                                   *)
TurnedBack(x) ==
    /\ x \in Table /\ mark[x] = "black" /\ mark'[x] = "gray"
    /\ x \in alloc' /\ loc'[x] = loc[x]

(* ... free it, or close it, if it is an open upvalue.                     *)
FreedUpval(x) ==
    /\ x \in UpVal /\ Open(x) /\ IsDead(x)
    /\ x \notin alloc' /\ mark'[x] = "none" /\ loc'[x] = Nil

ClosedUpval(x) ==
    /\ x \in UpVal /\ gcstate = "propagate" /\ mark[x] = "gray"
    /\ mark'[x] = "black" /\ (x \in alloc' <=> x \in alloc) /\ loc'[x] = Nil

(* W are the objects it marks, B the tables it turns back.                 *)
ColourStep(W, B) ==
    /\ \A x \in Object :
         \/ x \in W /\ Marked(x)
         \/ x \in B /\ TurnedBack(x)
         \/ /\ x \notin W \cup B
            /\ Kept(x) \/ Whitened(x) \/ FreedUpval(x) \/ ClosedUpval(x)
    /\ W \cup B \subseteq Object /\ W \cap B = {}
    /\ gcstate = "propagate" => /\ gray' = gray \cup (W \cap Listed)
                                /\ grayagain' = grayagain \cup B

(* A are the objects that references were added to.                        *)
EdgeStep(A, W) ==
    /\ A \subseteq Live'
    /\ Roots' \cup Chain' \subseteq Live \cup A
    /\ \A x \in Live' : Refs(x)' \subseteq A \cup (IF x \in Live THEN Refs(x) ELSE {})
    /\ gcstate = "propagate" =>
         \A x \in Object : mark'[x] = "black" =>
            /\ \A r \in Refs(x)' \ Refs(x) : mark'[r] \notin Whites
            /\ mark[x] # "black" => White(Refs(x)) \subseteq W

ProgramEffect ==
    /\ CollectorKept
    /\ \E A, W, B : ColourStep(W, B) /\ EdgeStep(A, W)

LEMMA LiveKept ==
    ASSUME TypeOK, HeapInv, CollectorKept, NEW W, NEW B, ColourStep(W, B)
    PROVE  Live \subseteq Live'
<1>. SUFFICES ASSUME NEW x \in Live PROVE x \in Live'
  OBVIOUS
<1>1. x \in alloc /\ x \in Object /\ ~Doomed(x)
  BY DEF Live, TypeOK, HeapTypeOK
<1>2. otherwhite' = otherwhite /\ otherwhite # currentwhite
      /\ otherwhite \notin {"gray", "black", "none"}
  BY WhitesDiffer DEF CollectorKept, otherwhite, TypeOK
<1>3. CASE Kept(x)
  BY <1>1, <1>2, <1>3 DEF Kept, Live, Doomed, IsDead
<1>4. CASE Whitened(x)
  BY <1>1, <1>2, <1>4 DEF Whitened, Live, Doomed, IsDead
<1>5. CASE Marked(x)
  BY <1>1, <1>2, <1>5 DEF Marked, Live, Doomed, IsDead
<1>6. CASE TurnedBack(x)
  BY <1>1, <1>2, <1>6 DEF TurnedBack, Live, Doomed, IsDead
<1>7. CASE FreedUpval(x)
  BY <1>1, <1>7, RootsAssumption, KindsDisjoint DEF FreedUpval, Doomed
<1>8. CASE ClosedUpval(x)
  BY <1>1, <1>2, <1>8 DEF ClosedUpval, Live, Doomed, IsDead
<1>. QED
  BY <1>1, <1>3, <1>4, <1>5, <1>6, <1>7, <1>8 DEF ColourStep

LEMMA EffectSafe ==
    ASSUME TypeOK, HeapInv, MemorySafe, ProgramEffect PROVE MemorySafe'
<1>. PICK A, W, B : ColourStep(W, B) /\ EdgeStep(A, W)
  BY DEF ProgramEffect
<1>1. Live \subseteq Live' /\ A \subseteq Live'
  BY LiveKept DEF ProgramEffect, EdgeStep
<1>2. Roots' \cup Chain' \subseteq Live'
  BY <1>1 DEF EdgeStep
<1>3. ASSUME NEW x \in Live' PROVE Refs(x)' \subseteq Live'
  BY <1>1, SafeIff DEF EdgeStep
<1>. QED
  BY <1>2, <1>3, SafeIffNext

LEMMA EffectColours ==
    ASSUME TypeOK, HeapInv, Colours, ProgramEffect PROVE Colours'
<1>. PICK W, B : ColourStep(W, B)
  BY DEF ProgramEffect
<1>. SUFFICES ASSUME NEW x \in Object
              PROVE  /\ mark'[x] = "black" => x \notin Str \cup Thread /\ ~Open(x)'
                     /\ mark'[x] = "gray" => x \notin Udata /\ (x \in UpVal => Open(x)')
  BY DEF Colours
<1>0. currentwhite \notin {"gray", "black"}
  BY DEF TypeOK, GCTypeOK, Whites
<1>1. CASE Kept(x)
  BY <1>0, <1>1 DEF Kept, Colours, Open
<1>2. CASE Whitened(x)
  BY <1>0, <1>2 DEF Whitened
<1>3. CASE Marked(x)
  BY <1>3, KindsDisjoint DEF Marked, Open, HeapInv, Kinds
<1>4. CASE TurnedBack(x)
  BY <1>4, KindsDisjoint DEF TurnedBack
<1>5. CASE FreedUpval(x)
  BY <1>5 DEF FreedUpval
<1>6. CASE ClosedUpval(x)
  BY <1>6, KindsDisjoint DEF ClosedUpval, Open
<1>. QED
  BY <1>1, <1>2, <1>3, <1>4, <1>5, <1>6 DEF ColourStep

LEMMA EffectSweep ==
    ASSUME TypeOK, TypeOK', HeapInv, Colours, SweepInv, WhiteAfterSweep,
           ProgramEffect
    PROVE  SweepInv' /\ WhiteAfterSweep'
<1>. PICK W, B : ColourStep(W, B)
  BY DEF ProgramEffect
<1>0. /\ UNCHANGED <<currentwhite, gcstate, sweepgc, sweepstrgc, tmudata>>
      /\ otherwhite' = otherwhite /\ otherwhite # currentwhite
      /\ otherwhite \notin {"gray", "black", "none"}
      /\ currentwhite \notin {"gray", "black", "none"}
      /\ alloc' \subseteq Object
  BY WhitesDiffer
  DEF ProgramEffect, CollectorKept, otherwhite, TypeOK, GCTypeOK, HeapTypeOK, Whites
<1>1. ASSUME NEW x \in Object, IsDead(x)' PROVE IsDead(x) /\ Kept(x)
  BY <1>0, <1>1 DEF ColourStep, IsDead, Kept, Whitened, Marked, TurnedBack,
           FreedUpval, ClosedUpval
<1>2. ASSUME NEW x \in Object, x \in alloc', mark'[x] # currentwhite,
             gcstate # "propagate"
      PROVE  /\ x \in alloc /\ mark[x] # currentwhite
             /\ loc'[x] = loc[x]
  <2>1. x \notin alloc => mark[x] = "none"
    BY DEF HeapInv, Kinds, Neutral
  <2>2. Kept(x) \/ TurnedBack(x)
    BY <1>2 DEF ColourStep, Whitened, Marked, FreedUpval, ClosedUpval
  <2>. QED
    BY <1>0, <1>2, <2>1, <2>2 DEF Kept, TurnedBack
<1>3. ASSUME ~Sweeping' PROVE \A x \in Object : ~IsDead(x)'
  BY <1>0, <1>1, <1>3 DEF SweepInv, Sweeping
<1>4. ASSUME Sweeping', NEW x \in alloc' \ tmudata', mark'[x] # currentwhite
      PROVE  Pending(x)'
  <2>1. gcstate # "propagate" /\ Sweeping
    BY <1>0, <1>4 DEF Sweeping
  <2>2. x \in alloc \ tmudata /\ mark[x] # currentwhite /\ loc'[x] = loc[x]
    BY <1>0, <1>2, <1>4, <2>1
  <2>3. Pending(x)
    BY <2>1, <2>2 DEF SweepInv
  <2>. QED
    BY <1>0, <2>2, <2>3 DEF Pending, Open
<1>5. ASSUME Sweeping', NEW x \in sweepgc'
      PROVE  x \in alloc' /\ x \notin Str \cup tmudata' /\ ~Open(x)'
  <2>1. x \in alloc /\ x \notin Str \cup tmudata /\ ~Open(x) /\ x \in Object
    BY <1>0, <1>5 DEF SweepInv, Sweeping, TypeOK, HeapTypeOK
  <2>2. x \in alloc' /\ loc'[x] \in {loc[x], Nil}
    BY <1>0, <1>5, <2>1 DEF ColourStep, Kept, Whitened, Marked, TurnedBack,
           FreedUpval, ClosedUpval, Sweeping
  <2>. QED
    BY <1>0, <2>1, <2>2 DEF Open
<1>6. WhiteAfterSweep'
  <2>. SUFFICES ASSUME gcstate' \in {"finalize", "pause"},
                       NEW x \in alloc' \ tmudata', mark'[x] # currentwhite
                PROVE  FALSE
    BY <1>0 DEF WhiteAfterSweep
  <2>1. x \in alloc \ tmudata /\ mark[x] # currentwhite
    BY <1>0, <1>2
  <2>. QED
    BY <1>0, <2>1 DEF WhiteAfterSweep
<1>. QED
  BY <1>0, <1>3, <1>4, <1>5, <1>6 DEF SweepInv

LEMMA EffectPropagate ==
    ASSUME TypeOK, TypeOK', HeapInv, SweepInv, MemorySafe, PropagateInv, stage = 0,
           ProgramEffect
    PROVE  PropagateInv'
<1>. SUFFICES ASSUME gcstate' = "propagate" PROVE PropagateInv'
  BY DEF PropagateInv
<1>. PICK A, W, B : ColourStep(W, B) /\ EdgeStep(A, W)
  BY DEF ProgramEffect
<1>0. /\ UNCHANGED <<currentwhite, gcstate, stage, weak, tmudata>>
      /\ gcstate = "propagate" /\ stage' = 0
      /\ currentwhite \notin {"gray", "black", "none"}
      /\ currentwhite \in Whites
      /\ {"gray", "black", "none"} \cap Whites = {}
      /\ alloc' \subseteq Object /\ alloc \subseteq Object
      /\ GrayLists /\ TriColour /\ Dark({MainThread, Registry})
  BY DEF ProgramEffect, CollectorKept, TypeOK, GCTypeOK, HeapTypeOK, Whites,
         PropagateInv
<1>1. \A x \in Object : ~IsDead(x)
  BY <1>0 DEF SweepInv, Sweeping
<1>2. ASSUME NEW x \in alloc, ~IsWhite(x) PROVE mark'[x] \notin Whites
  BY <1>0, <1>1, <1>2 DEF ColourStep, Kept, Whitened, Marked, TurnedBack,
           FreedUpval, ClosedUpval, IsWhite
<1>3. \A x \in W : mark'[x] \notin Whites /\ IsWhite(x) /\ x \in Object
  BY <1>0 DEF ColourStep, Marked, Kept, Whitened, FreedUpval, ClosedUpval,
       TurnedBack
<1>4. GrayLists'
  <2>1. /\ gray' = gray \cup (W \cap Listed) /\ grayagain' = grayagain \cup B
        /\ weak' = weak
    BY <1>0 DEF ColourStep
  <2>2. /\ gray \cap (grayagain \cup weak) = {} /\ grayagain \cap weak = {}
        /\ gray \cup grayagain \cup weak = {o \in Listed : mark[o] = "gray"}
        /\ weak \subseteq Table
        /\ grayagain \subseteq Table \cup Thread
    BY <1>0 DEF GrayLists
  <2>3. ASSUME NEW x \in B PROVE x \in Table /\ mark[x] = "black" /\ mark'[x] = "gray"
    BY <2>3 DEF ColourStep, TurnedBack
  <2>4. B \cap W = {}
    BY DEF ColourStep
  <2>5. ASSUME NEW x \in Listed
        PROVE  mark'[x] = "gray" <=> mark[x] = "gray" \/ x \in W \/ x \in B
    <3>1. x \in Object /\ x \notin Udata \cup UpVal
      BY KindsDisjoint DEF Listed
    <3>. QED
      BY <1>0, <1>1, <3>1 DEF ColourStep, Kept, Whitened, Marked,
           TurnedBack, FreedUpval, ClosedUpval, IsWhite, HeapInv, Kinds, Neutral
  <2>. QED
    <3>1. \A x \in W : mark[x] # "gray" /\ x \notin gray \cup grayagain \cup weak
      BY <1>0, <1>3, <2>2 DEF IsWhite
    <3>2. \A x \in B : x \in Listed /\ x \notin gray \cup grayagain \cup weak
      BY <2>2, <2>3 DEF Listed
    <3>3. /\ gray' \cap (grayagain' \cup weak') = {}
          /\ grayagain' \cap weak' = {}
      BY <2>1, <2>2, <2>4, <3>1, <3>2
    <3>4. gray' \cup grayagain' \cup weak' = {o \in Listed : mark'[o] = "gray"}
      BY <2>1, <2>2, <2>5, <3>2
    <3>5. weak' \subseteq Table /\ grayagain' \subseteq Table \cup Thread
      BY <2>1, <2>2, <2>3
    <3>. QED
      BY <3>3, <3>4, <3>5 DEF GrayLists
<1>5. TriColour'
  <2>. SUFFICES ASSUME NEW x \in alloc', mark'[x] = "black", x \notin tmudata',
                       NEW r \in Refs(x)', mark'[r] \in Whites
                PROVE  FALSE
    BY <1>0 DEF TriColour, White, IsWhite
  <2>1. x \in Object
    BY <1>0
  <2>2. r \in Refs(x)
    BY <1>0, <2>1 DEF EdgeStep
  <2>3. x \in alloc
    <3>1. x \notin alloc => mark[x] = "none"
      BY <2>1 DEF HeapInv, Kinds, Neutral
    <3>. QED
      BY <1>0, <2>1, <3>1 DEF ColourStep, Kept, Whitened, Marked, TurnedBack,
           FreedUpval, ClosedUpval, IsWhite
  <2>4. Refs(x) \subseteq alloc
    BY <1>1, <2>1, <2>3, SafeIff DEF Live, Doomed
  <2>5. IsWhite(r)
    BY <1>2, <2>2, <2>4
  <2>6. mark[x] # "black"
    BY <1>0, <2>2, <2>3, <2>5 DEF TriColour, White
  <2>7. r \in W
    BY <1>0, <2>1, <2>2, <2>5, <2>6 DEF EdgeStep, White
  <2>. QED
    BY <1>3, <2>7
<1>6. Dark({MainThread, Registry})'
  <2>1. MainThread \in alloc /\ Registry \in alloc
    BY SafeIff, RootsAssumption, KindsDisjoint DEF Roots, Live
  <2>2. ~IsWhite(MainThread) /\ ~IsWhite(Registry)
    BY <1>0, RootsAssumption, KindsDisjoint DEF Dark
  <2>. QED
    BY <1>2, <2>1, <2>2 DEF Dark, IsWhite
<1>. QED
  BY <1>0, <1>4, <1>5, <1>6 DEF PropagateInv

LEMMA EffectInv ==
    ASSUME TypeOK, TypeOK', SafetyInv, stage = 0, ProgramEffect, HeapInv'
    PROVE  SafetyInv'
BY EffectSafe, EffectColours, EffectSweep, EffectPropagate
DEF SafetyInv, ColourInv

-----------------------------------------------------------------------------
(* Marking and barriers.                                                   *)

(* reallymarkobject marks what a userdata or a closed upvalue it turns     *)
(* black refers to.                                                        *)
LEMMA ReallyMarkedClosed ==
    ASSUME TypeOK, HeapInv, NEW S \in SUBSET Object
    PROVE  /\ ReallyMarked(S) \subseteq Object
           /\ \A x \in ReallyMarked(S) : IsWhite(x)
           /\ White(S) \subseteq ReallyMarked(S)
           /\ \A x \in ReallyMarked(S) \cap (Udata \cup UpVal) :
                White(Refs(x)) \subseteq ReallyMarked(S)
<1>. DEFINE direct == White(S)
            values == White({UpValue(u) : u \in direct \cap UpVal} \ {Nil})
            tables == White((UNION {{meta[u], env[u]} :
                                    u \in (direct \cup values) \cap Udata}) \ {Nil})
<1>1. ReallyMarked(S) = direct \cup values \cup tables
  BY DEF ReallyMarked
<1>2. direct \subseteq Object /\ values \subseteq Object \ UpVal /\ tables \subseteq Table
  <2>1. \A u \in UpVal : UpValue(u) \in (Object \ UpVal) \cup {Nil}
    BY DEF TypeOK, HeapTypeOK, HeapInv, Values, UpValue, Open
  <2>2. \A u \in Udata : meta[u] \in Table \cup {Nil} /\ env[u] \in Table \cup {Nil}
    BY DEF TypeOK, HeapTypeOK
  <2>. QED
    BY <2>1, <2>2 DEF White
<1>3. \A x \in direct \cup values \cup tables : IsWhite(x)
  BY DEF White
<1>4. ASSUME NEW x \in direct \cup values, x \in Udata PROVE White(Refs(x)) \subseteq tables
  <2>1. Refs(x) \subseteq {meta[x], env[x]} \ {Nil}
    BY <1>4, KindsDisjoint, RefsIff DEF HeapInv, Kinds
  <2>. QED
    BY <1>4, <2>1 DEF White
<1>5. ASSUME NEW x \in direct, x \in UpVal PROVE White(Refs(x)) \subseteq values
  <2>1. Refs(x) \subseteq {UpValue(x)} \ {Nil}
    BY <1>5, KindsDisjoint, RefsIff DEF HeapInv, Kinds
  <2>. QED
    BY <1>5, <2>1 DEF White
<1>. HIDE DEF direct, values, tables
<1>6. direct = White(S)
  BY DEF direct
<1>. QED
  BY <1>1, <1>2, <1>3, <1>4, <1>5, <1>6, KindsDisjoint

(* Painting a set of white objects.                                        *)
LEMMA PaintedColours ==
    ASSUME TypeOK, HeapInv, gcstate = "propagate",
           NEW W \in SUBSET Object, \A x \in W : IsWhite(x),
           mark' = Painted(W), UNCHANGED <<alloc, loc>>,
           gray' = gray \cup (W \cap Listed), grayagain' = grayagain
    PROVE  /\ ColourStep(W, {})
           /\ \A x \in W : mark'[x] \notin Whites
           /\ \A x \in Object : mark'[x] = "black" /\ mark[x] # "black"
                                  => x \in W \cap (Udata \cup UpVal)
<1>1. ASSUME NEW x \in W PROVE Marked(x) /\ mark'[x] \notin Whites
  <2>1. x \in alloc
    BY <1>1 DEF HeapInv, Kinds, Neutral, IsWhite, Whites
  <2>. QED
    BY <1>1, <2>1 DEF Marked, Painted, Whites
<1>2. ASSUME NEW x \in Object, x \notin W PROVE Kept(x) /\ mark'[x] = mark[x]
  BY <1>2 DEF Kept, Painted
<1>3. \A x \in Object : mark'[x] = "black" /\ mark[x] # "black"
                          => x \in W \cap (Udata \cup UpVal)
  BY DEF Painted
<1>. QED
  BY <1>1, <1>2, <1>3 DEF ColourStep

LEMMA MarkKept ==
    ASSUME UNCHANGED <<mark, alloc, loc, gray, grayagain>>
    PROVE  ColourStep({}, {})
BY DEF ColourStep, Kept

(* The forward barrier: what o refers to is marked, or o is not black.     *)
LEMMA BarrierForwardColours ==
    ASSUME TypeOK, HeapInv, SweepInv, NEW o \in Object, NEW v,
           v = Nil \/ v \in Object, BarrierForward(o, v),
           UNCHANGED <<alloc, loc, currentwhite, grayagain>>
    PROVE  /\ Live' \subseteq Live
           /\ \E W : /\ ColourStep(W, {})
                     /\ \A x \in Object : mark'[x] = "black" /\ mark[x] # "black"
                                            => White(Refs(x)) \subseteq W
           /\ gcstate = "propagate" /\ mark'[o] = "black" /\ v # Nil
                => mark'[v] \notin Whites
<1>1. otherwhite' = otherwhite /\ otherwhite # currentwhite
  BY WhitesDiffer DEF otherwhite, TypeOK
<1>2. CASE v # Nil /\ mark[o] = "black" /\ IsWhite(v) /\ gcstate = "propagate"
  <2>. DEFINE W == ReallyMarked({v})
  <2>1. mark' = Painted(W) /\ gray' = gray \cup (W \cap Listed)
    BY <1>2, Zenon DEF BarrierForward
  <2>2. /\ W \subseteq Object /\ \A x \in W : IsWhite(x)
        /\ v \in W
        /\ \A x \in W \cap (Udata \cup UpVal) : White(Refs(x)) \subseteq W
    BY <1>2, ReallyMarkedClosed DEF White
  <2>. HIDE DEF W
  <2>3. /\ ColourStep(W, {})
        /\ \A x \in W : mark'[x] \notin Whites
        /\ \A x \in Object : mark'[x] = "black" /\ mark[x] # "black"
                               => x \in W \cap (Udata \cup UpVal)
    BY <1>2, <2>1, <2>2, PaintedColours
  <2>4. Live' \subseteq Live
    <3>1. \A x \in Object : ~IsDead(x)
      BY <1>2 DEF SweepInv, Sweeping
    <3>. QED
      BY <3>1 DEF Live, Doomed, TypeOK, HeapTypeOK
  <2>. QED
    BY <2>2, <2>3, <2>4
<1>3. CASE v # Nil /\ mark[o] = "black" /\ IsWhite(v) /\ gcstate # "propagate"
  <2>1. mark' = MakeWhite(o) /\ gray' = gray
    BY <1>3, Zenon DEF BarrierForward
  <2>2. o \in alloc
    BY <1>3 DEF HeapInv, Kinds, Neutral
  <2>3. mark'[o] = currentwhite /\ \A x \in Object \ {o} : mark'[x] = mark[x]
    BY <2>1 DEF MakeWhite, TypeOK, GCTypeOK
  <2>4. ColourStep({}, {})
    BY <1>3, <2>1, <2>2, <2>3 DEF ColourStep, Kept, Whitened
  <2>5. Live' \subseteq Live
    BY <1>1, <1>3, <2>3, WhitesDiffer DEF Live, Doomed, IsDead, TypeOK, HeapTypeOK
  <2>6. \A x \in Object : mark'[x] = "black" => mark[x] = "black"
    BY <2>3, WhitesDiffer DEF TypeOK, GCTypeOK, Whites
  <2>. QED
    BY <1>3, <2>4, <2>5, <2>6
<1>4. CASE ~(v # Nil /\ mark[o] = "black" /\ IsWhite(v))
  <2>1. mark' = mark /\ gray' = gray
    BY <1>4, Zenon DEF BarrierForward
  <2>2. ColourStep({}, {})
    BY <2>1, MarkKept
  <2>3. Live' \subseteq Live
    BY <1>1, <2>1 DEF Live, Doomed, IsDead
  <2>. QED
    BY <1>4, <2>1, <2>2, <2>3 DEF IsWhite
<1>. QED
  BY <1>2, <1>3, <1>4

(* The backward barrier: the table is gray again, or what it now refers to *)
(* is marked already.                                                      *)
LEMMA BarrierBackColours ==
    ASSUME TypeOK, HeapInv, NEW t \in Table, NEW S, BarrierBack(t, S),
           UNCHANGED <<alloc, loc, currentwhite, gray>>
    PROVE  /\ Live' \subseteq Live
           /\ \E B : ColourStep({}, B)
           /\ \A x \in Object : mark'[x] = "black" => mark[x] = "black"
           /\ mark'[t] = "black" => \A v \in S \cap Object : mark'[v] \notin Whites
<1>1. otherwhite' = otherwhite /\ otherwhite \notin {"gray", "black", "none"}
  BY WhitesDiffer DEF otherwhite, TypeOK
<1>2. CASE mark[t] = "black" /\ White(S \cap Object) # {}
  <2>1. mark' = [mark EXCEPT ![t] = "gray"] /\ grayagain' = grayagain \cup {t}
    BY <1>2 DEF BarrierBack
  <2>2. mark'[t] = "gray" /\ \A x \in Object \ {t} : mark'[x] = mark[x]
    BY <2>1 DEF TypeOK, GCTypeOK
  <2>3. t \in alloc
    BY <1>2 DEF HeapInv, Kinds, Neutral
  <2>4. ColourStep({}, {t})
    BY <1>2, <2>1, <2>2, <2>3 DEF ColourStep, Kept, TurnedBack
  <2>5. Live' \subseteq Live
    BY <1>1, <1>2, <2>2 DEF Live, Doomed, IsDead, TypeOK, HeapTypeOK
  <2>. QED
    BY <2>2, <2>4, <2>5
<1>3. CASE ~(mark[t] = "black" /\ White(S \cap Object) # {})
  <2>1. mark' = mark /\ grayagain' = grayagain
    BY <1>3 DEF BarrierBack
  <2>2. ColourStep({}, {})
    BY <2>1, MarkKept
  <2>3. Live' \subseteq Live
    BY <1>1, <2>1 DEF Live, Doomed, IsDead
  <2>. QED
    BY <1>3, <2>1, <2>2, <2>3 DEF White, IsWhite
<1>. QED
  BY <1>2, <1>3

LEMMA SafeRoots ==
    ASSUME MemorySafe, UNCHANGED <<basicmt, tmudata, co>>
    PROVE  Roots' \cup Chain' \subseteq Live
<1>1. Roots' = Roots /\ Chain' = Chain
  BY DEF Roots, Chain
<1>. QED
  BY <1>1, SafeIff

(* Changes to one object: what it refers to afterwards.                    *)
LEMMA FieldEdges ==
    ASSUME TypeOK, NEW o \in Object,
           UNCHANGED <<loc, stack, co>>,
           \A x \in Object \ {o} :
             /\ meta'[x] = meta[x] /\ env'[x] = env[x] /\ upv'[x] = upv[x]
             /\ entries'[x] = entries[x] /\ val'[x] = val[x]
    PROVE  /\ \A x \in Object \ {o} : Refs(x)' = Refs(x)
           /\ Resumed(o)' = Resumed(o)
           /\ val'[o] = val[o] => UpValue(o)' = UpValue(o)
           /\ ~Open(o) => UpValue(o)' = val'[o]
<1>1. \A x : Resumed(x)' = Resumed(x)
  BY DEF Resumed
<1>2. \A x \in Object : Open(x)' <=> Open(x)
  BY DEF Open
<1>3. \A x \in Object \ {o} : UpValue(x)' = UpValue(x)
  BY <1>2 DEF UpValue
<1>4. ASSUME NEW x \in Object \ {o}, NEW r PROVE r \in Refs(x)' <=> r \in Refs(x)
  BY <1>1, <1>3, RefsIff, RefsIffNext
<1>5. /\ val'[o] = val[o] => UpValue(o)' = UpValue(o)
      /\ ~Open(o) => UpValue(o)' = val'[o]
  BY <1>2 DEF UpValue
<1>. QED
  BY <1>1, <1>4, <1>5

LEMMA EffectAllocated ==
    ASSUME TypeOK, TypeOK', HeapInv, NEW W, NEW B, ColourStep(W, B), NEW x \in Object
    PROVE  mark'[x] = "none" <=> x \notin alloc'
<1>1. mark[x] = "none" <=> x \notin alloc
  BY DEF HeapInv, Kinds, Neutral
<1>2. currentwhite # "none" /\ \A w \in Whites : w # "none"
  BY DEF TypeOK, GCTypeOK, Whites
<1>. QED
  BY <1>1, <1>2
  DEF ColourStep, Kept, Whitened, Marked, TurnedBack, FreedUpval, ClosedUpval

-----------------------------------------------------------------------------
(* Loads, and the other stores to a stack.                                 *)

(* The value of slot s of thread th changes; no object refers to more      *)
(* than v that it did not refer to before, and neither a thread nor an     *)
(* open upvalue is black.  Only a string comes back to life.               *)
LEMMA StackStore ==
    ASSUME TypeOK, TypeOK', SafetyInv, CollectorKept,
           NEW th \in Thread \cap alloc, NEW s \in Slot, NEW v,
           stack' = [stack EXCEPT ![th][s] = v],
           UNCHANGED <<alloc, meta, env, entries, upv, loc, val, basicmt, co>>,
           v = Nil \/ v \in Live' \ UpVal,
           ColourStep({}, {}), \A x \in Live' \ Live : x \in Str
    PROVE  ProgramEffect /\ HeapInv'
<1>1. \A t \in Thread, p \in Slot : stack'[t][p] = IF t = th /\ p = s THEN v ELSE stack[t][p]
  BY DEF TypeOK, HeapTypeOK
<1>2. \A x \in Object : Open(x)' <=> Open(x)
  BY DEF Open
<1>3. Live' \subseteq Object /\ Live \subseteq alloc /\ Live \subseteq Live'
  BY LiveKept DEF Live, TypeOK, HeapTypeOK, SafetyInv
<1>4. \A x \in Object : mark'[x] = "none" <=> x \notin alloc
  BY EffectAllocated DEF SafetyInv
<1>5. Kinds'
  <2>. SUFFICES ASSUME NEW x \in Object
                PROVE  /\ x \notin alloc => Neutral(x)'
                       /\ x \in alloc => mark'[x] # "none"
                       /\ x \notin Table => entries[x] = {}
                       /\ x \notin Table \cup Udata => meta[x] = Nil
                       /\ x \notin Closure \cup Udata \cup Thread => env[x] = Nil
                       /\ x \notin Closure => upv[x] = {}
                       /\ x \in Closure \ NativeClosure => upv[x] \subseteq UpVal
                       /\ x \notin UpVal => loc[x] = Nil /\ val[x] = Nil
                       /\ Open(x) => val[x] = Nil /\ loc[x][1] \in alloc
    BY <1>2 DEF Kinds
  <2>1. x \notin alloc => Neutral(x)'
    BY <1>1, <1>3, <1>4 DEF SafetyInv, HeapInv, Kinds, Neutral
  <2>. QED
    BY <1>4, <2>1 DEF SafetyInv, HeapInv, Kinds
<1>6. Values'
  BY <1>1, KindsDisjoint DEF SafetyInv, HeapInv, Values
<1>7. \A x \in Object : Refs(x)' \subseteq Refs(x) \cup {v}
                        /\ (x \notin Thread /\ ~Open(x) => Refs(x)' = Refs(x))
  BY StackEdges DEF SafetyInv
<1>8. \A x \in Object : v # Nil \/ Nil \notin Refs(x)'
  BY KindsDisjoint, RefsIffNext DEF TypeOK, HeapTypeOK
<1>9. \A x \in Str : Refs(x) = {} /\ x \notin Thread /\ ~Open(x)
  BY RefsIff, KindsDisjoint DEF SafetyInv, HeapInv, Kinds, Open
<1>10. EdgeStep({v} \ {Nil}, {})
  <2>1. Roots' \cup Chain' \subseteq Live
    BY SafeRoots DEF SafetyInv, CollectorKept
  <2>2. ASSUME NEW x \in Object, mark'[x] = "black"
        PROVE  mark[x] = "black" /\ x \notin Thread /\ ~Open(x)
    <3>1. ~FreedUpval(x) /\ ~ClosedUpval(x) /\ ~Whitened(x)
      BY <1>4, <2>2 DEF FreedUpval, ClosedUpval, Whitened, Colours, SafetyInv,
             ColourInv, Open, TypeOK, GCTypeOK, Whites
    <3>2. mark[x] = "black"
      BY <2>2, <3>1 DEF ColourStep, Kept
    <3>. QED
      BY <3>2 DEF SafetyInv, ColourInv, Colours
  <2>3. ASSUME NEW x \in Live'
        PROVE  Refs(x)' \subseteq ({v} \ {Nil}) \cup (IF x \in Live THEN Refs(x) ELSE {})
    BY <1>3, <1>7, <1>8, <1>9
  <2>. QED
    BY <2>1, <2>2, <2>3, <1>3, <1>7 DEF EdgeStep
<1>. QED
  BY <1>5, <1>6, <1>10 DEF ProgramEffect, HeapInv

LEMMA SlotStore ==
    ASSUME TypeOK, TypeOK', SafetyInv, NEW th \in Thread \cap alloc, NEW s \in Slot,
           NEW v \in (Live \ UpVal) \cup {Nil}, HXMove(th, s, v), UNCHANGED gcVars
    PROVE  ProgramEffect /\ HeapInv'
<1>1. /\ stack' = [stack EXCEPT ![th][s] = v] /\ CollectorKept
      /\ UNCHANGED <<alloc, meta, env, entries, upv, loc, val, basicmt, co>>
      /\ UNCHANGED <<mark, gray, grayagain>>
  BY DEF HXMove, gcVars, CollectorKept
<1>2. Live' = Live
  BY <1>1 DEF Live, Doomed, IsDead, otherwhite, CollectorKept
<1>. QED
  BY <1>1, <1>2, MarkKept, StackStore

LEMMA LoadEffect ==
    ASSUME TypeOK, TypeOK', SafetyInv, NEW s \in Slot,
           NEW v \in Readable \cup {Nil}, Load(s, v)
    PROVE  ProgramEffect /\ HeapInv'
<1>1. L \in Thread \cap Live
  BY RunningLive DEF SafetyInv
<1>2. v \in (Live \ UpVal) \cup {Nil}
  BY ReadableLive DEF SafetyInv
<1>3. HXMove(L, s, v) /\ UNCHANGED gcVars
  BY DEF Load, HLoad, HXMove, Assign
<1>. QED
  BY <1>1, <1>2, <1>3, SlotStore DEF Live

LEMMA XMoveEffect ==
    ASSUME TypeOK, TypeOK', SafetyInv, NEW th \in Accessible, NEW s \in Slot,
           NEW v \in Accessible, XMove(th, s, v)
    PROVE  ProgramEffect /\ HeapInv'
BY AccessibleLive, SlotStore DEF XMove, SafetyInv, Live

-----------------------------------------------------------------------------
(* Allocation.                                                             *)

(* The objects of N are new and refer to what is not about to be freed;    *)
(* one of them, o, is pushed on the stack of th.                           *)
NewStep(N, o, th, s) ==
    /\ N \subseteq Object \ alloc /\ o \in N \ UpVal
    /\ th \in Thread \cap Live /\ s \in Slot
    /\ alloc' = alloc \cup N
    /\ stack' = [stack EXCEPT ![th][s] = o]
    /\ CollectorKept
    /\ UNCHANGED <<basicmt, co, entries, meta, val, gray, grayagain>>
    /\ \A x \in Object \ N :
         /\ loc'[x] = loc[x] /\ env'[x] = env[x] /\ upv'[x] = upv[x]
         /\ \/ mark'[x] = mark[x]
            \/ /\ x \in alloc /\ IsDead(x) /\ mark'[x] = currentwhite
               /\ Refs(x) \subseteq Live
    /\ \A x \in N :
         /\ mark'[x] = currentwhite
         /\ Refs(x)' \subseteq Live' \cup {o}
         /\ x \notin Closure \cup Udata \cup Thread => env'[x] = Nil
         /\ x \notin Closure => upv'[x] = {}
         /\ x \in Closure \ NativeClosure => upv'[x] \subseteq UpVal
         /\ x \notin UpVal => loc'[x] = Nil
         /\ loc'[x] = Nil \/ loc'[x][1] = th

LEMMA NewEffect ==
    ASSUME TypeOK, TypeOK', SafetyInv, NEW N, NEW o, NEW th, NEW s, NewStep(N, o, th, s)
    PROVE  ProgramEffect
<1>. USE DEF NewStep
<1>1. \A x \in Object \ N :
        Refs(x)' \subseteq Refs(x) \cup {o} /\ (x \notin Thread /\ ~Open(x) => Refs(x)' = Refs(x))
  BY StackEdges DEF SafetyInv
<1>2. o \in Live' /\ N \subseteq Live' /\ Live' \subseteq Object
  BY WhitesDiffer DEF CollectorKept, Live, Doomed, IsDead, otherwhite, TypeOK, HeapTypeOK
<1>3. ColourStep({}, {})
  <2>1. \A x \in N : Whitened(x)
    BY DEF Whitened
  <2>2. \A x \in Object \ N : Kept(x) \/ Whitened(x)
    BY DEF Kept, Whitened
  <2>. QED
    BY <2>1, <2>2 DEF ColourStep
<1>4. Live \subseteq Live'
  BY <1>3, LiveKept DEF SafetyInv
<1>. DEFINE A == Live'
<1>5. Roots' \cup Chain' \subseteq Live
  BY SafeRoots DEF SafetyInv, CollectorKept
<1>6. ASSUME NEW x \in Live' PROVE Refs(x)' \subseteq A
  <2>1. CASE x \in N
    BY <1>2, <2>1
  <2>2. CASE x \in Live \ N
    BY <1>1, <1>2, <1>4, <2>2, SafeIff DEF SafetyInv
  <2>3. CASE x \notin Live \cup N
    <3>1. mark'[x] # mark[x]
      BY <1>2, <2>3 DEF Live, Doomed, IsDead, CollectorKept, otherwhite
    <3>. QED
      BY <1>1, <1>2, <1>4, <2>3, <3>1
  <2>. QED
    BY <2>1, <2>2, <2>3
<1>7. ASSUME NEW x \in Object, mark'[x] = "black"
      PROVE  mark[x] = "black" /\ Refs(x)' \subseteq Refs(x)
  <2>1. mark[x] = "black" /\ x \notin N
    BY <1>7, WhitesDiffer DEF TypeOK, GCTypeOK, Whites
  <2>2. x \notin Thread /\ ~Open(x)
    BY <2>1 DEF SafetyInv, ColourInv, Colours
  <2>. QED
    BY <1>1, <2>1, <2>2
<1>8. EdgeStep(A, {})
  BY <1>4, <1>5, <1>6, <1>7 DEF EdgeStep
<1>. QED
  BY <1>3, <1>8 DEF ProgramEffect

LEMMA NewHeap ==
    ASSUME TypeOK, TypeOK', SafetyInv, ProgramEffect,
           NEW N, NEW o, NEW th, NEW s, NewStep(N, o, th, s)
    PROVE  HeapInv'
<1>. USE DEF NewStep
<1>1. \A t \in Thread, p \in Slot : stack'[t][p] = IF t = th /\ p = s THEN o ELSE stack[t][p]
  BY DEF TypeOK, HeapTypeOK
<1>2. \A x \in Object : mark'[x] = "none" <=> x \notin alloc'
  BY EffectAllocated DEF SafetyInv, ProgramEffect
<1>3. Values'
  BY <1>1, KindsDisjoint DEF SafetyInv, HeapInv, Values
<1>4. ASSUME NEW x \in Object \ N
      PROVE  /\ x \notin alloc' => Neutral(x)'
             /\ Open(x)' => val'[x] = Nil /\ loc'[x][1] \in alloc'
  <2>1. x \notin alloc' => x \notin alloc /\ x # th
    BY DEF Live
  <2>. QED
    BY <1>1, <1>2, <2>1 DEF SafetyInv, HeapInv, Kinds, Neutral, Open
<1>5. ASSUME NEW x \in N PROVE Open(x)' => val'[x] = Nil /\ loc'[x][1] \in alloc'
  BY DEF SafetyInv, HeapInv, Kinds, Neutral, Open, Live
<1>6. Kinds'
  <2>. SUFFICES ASSUME NEW x \in Object
                PROVE  /\ x \notin alloc' => Neutral(x)'
                       /\ x \in alloc' => mark'[x] # "none"
                       /\ x \notin Table => entries'[x] = {}
                       /\ x \notin Table \cup Udata => meta'[x] = Nil
                       /\ x \notin Closure \cup Udata \cup Thread => env'[x] = Nil
                       /\ x \notin Closure => upv'[x] = {}
                       /\ x \in Closure \ NativeClosure => upv'[x] \subseteq UpVal
                       /\ x \notin UpVal => loc'[x] = Nil /\ val'[x] = Nil
                       /\ Open(x)' => val'[x] = Nil /\ loc'[x][1] \in alloc'
    BY DEF Kinds
  <2>1. CASE x \in N
    BY <1>2, <1>5, <2>1 DEF SafetyInv, HeapInv, Kinds
  <2>2. CASE x \notin N
    BY <1>2, <1>4, <2>2 DEF SafetyInv, HeapInv, Kinds
  <2>. QED
    BY <2>1, <2>2
<1>. QED
  BY <1>3, <1>6 DEF HeapInv

(* luaC_link: the new object has an environment, and a native closure has  *)
(* the value it captures.                                                  *)
LEMMA LinkEffect ==
    ASSUME TypeOK, TypeOK', SafetyInv, NEW s \in Slot, NEW o \in (Object \ UpVal) \ alloc,
           NEW e \in (Live \cap Table) \cup {Nil}, NEW c \in SUBSET Live,
           HNew(s, o, e, c), Link(o),
           o \notin Closure \cup Udata \cup Thread => e = Nil,
           o \notin NativeClosure => c = {}
    PROVE  ProgramEffect /\ HeapInv'
<1>1. PICK th \in Thread \cap Live : th = L
  BY RunningLive DEF SafetyInv
<1>2. /\ alloc' = alloc \cup {o} /\ stack' = [stack EXCEPT ![th][s] = o]
      /\ env'[o] = e /\ upv'[o] = c
      /\ UNCHANGED <<basicmt, co, entries, meta, val, loc, gray, grayagain>>
      /\ CollectorKept
  BY <1>1 DEF HNew, Assign, Link, CollectorKept, TypeOK, HeapTypeOK
<1>3. \A x \in Object \ {o} : env'[x] = env[x] /\ upv'[x] = upv[x] /\ mark'[x] = mark[x]
  BY DEF HNew, Link, MakeWhite, TypeOK, HeapTypeOK, GCTypeOK
<1>4. mark'[o] = currentwhite
  BY DEF Link, MakeWhite, TypeOK, GCTypeOK
<1>5. Neutral(o)
  BY DEF SafetyInv, HeapInv, Kinds
<1>6. \A x \in Live : x \in Live'
  BY <1>2, <1>3 DEF Live, Doomed, IsDead, CollectorKept, otherwhite, TypeOK, HeapTypeOK
<1>7. Refs(o)' \subseteq Live' \cup {o}
  <2>1. Resumed(o)' = {}
    <3>1. co \in Seq(Thread)
      BY DEF TypeOK, HeapTypeOK
    <3>2. \A j \in 1 .. Len(co) - 1 : co[j] \in alloc
      BY <3>1, SafeIff DEF Chain, Live, SafetyInv
    <3>. QED
      BY <1>2, <3>2 DEF Resumed
  <2>2. \A p \in Slot : o \in Thread => stack'[o][p] \in {Nil, o}
    BY <1>1, <1>2, <1>5 DEF Neutral, TypeOK, HeapTypeOK
  <2>3. meta'[o] = Nil /\ entries'[o] = {}
    BY <1>2, <1>5 DEF Neutral
  <2>. QED
    BY <1>2, <1>6, <2>1, <2>2, <2>3, RefsIffNext
<1>8. NewStep({o}, o, th, s)
  BY <1>2, <1>3, <1>4, <1>5, <1>7, RootsAssumption DEF Neutral, NewStep
<1>. QED
  BY <1>8, NewEffect, NewHeap

LEMMA NewStringEffect ==
    ASSUME TypeOK, TypeOK', SafetyInv, NEW s \in Slot, NEW str \in Str, NewString(s, str)
    PROVE  ProgramEffect /\ HeapInv'
<1>0. str \in Object \ UpVal /\ str \notin Closure \cup Udata \cup Thread
      /\ str \notin NativeClosure
  BY KindsDisjoint, RootsAssumption
<1>1. CASE str \notin alloc
  <2>1. HNew(s, str, Nil, {}) /\ Link(str)
    BY <1>1 DEF NewString
  <2>. QED
    BY <1>0, <1>1, <2>1, LinkEffect
<1>2. CASE str \in alloc
  <2>1. /\ HLoad(s, str) /\ mark' = Resurrected(str) /\ CollectorKept
        /\ UNCHANGED <<gray, grayagain>>
    BY <1>2 DEF NewString, HLoad, CollectorKept
  <2>2. PICK th \in Thread \cap Live : th = L
    BY RunningLive DEF SafetyInv
  <2>3. /\ stack' = [stack EXCEPT ![th][s] = str]
        /\ UNCHANGED <<alloc, meta, env, entries, upv, loc, val, basicmt, co>>
    BY <2>1, <2>2 DEF HLoad, Assign
  <2>4. \A x \in Object : \/ mark'[x] = mark[x]
                          \/ x = str /\ IsDead(x) /\ mark'[x] = currentwhite
    BY <2>1 DEF Resurrected, MakeWhite, TypeOK, GCTypeOK
  <2>5. ColourStep({}, {})
    BY <1>2, <2>1, <2>3, <2>4 DEF ColourStep, Kept, Whitened
  <2>6. str \in Live'
    BY <1>0, <1>2, <2>1, <2>3, WhitesDiffer
    DEF Live, Doomed, IsDead, Resurrected, MakeWhite, CollectorKept, otherwhite,
        TypeOK, GCTypeOK
  <2>7. \A x \in Live' \ Live : x \in Str
    BY <1>0, <2>1, <2>3, <2>4
    DEF Live, Doomed, IsDead, CollectorKept, otherwhite, TypeOK, HeapTypeOK
  <2>. QED
    BY <1>0, <2>1, <2>2, <2>3, <2>5, <2>6, <2>7, StackStore DEF Live
<1>. QED
  BY <1>1, <1>2

(* OP_CLOSURE: the captured upvalue was found (and is white again if it    *)
(* was dead), is new, or belongs to a closure that the program can name.   *)
LEMMA NewClosureEffect ==
    ASSUME TypeOK, TypeOK', SafetyInv, NEW s \in Slot, NEW f \in Closure,
           NEW u \in UpVal, NEW p \in Slot, NewClosure(s, f, u, p)
    PROVE  ProgramEffect /\ HeapInv'
<1>1. PICK th \in Thread \cap Live : th = L
  BY RunningLive DEF SafetyInv
<1>. DEFINE N == {f} \cup ({u} \ alloc)
<1>2. /\ f \in (Closure \ NativeClosure) \ alloc /\ f # u /\ f \notin UpVal
      /\ u \notin Closure \cup Udata \cup Thread \cup Str \cup Table
      /\ th \notin UpVal
  BY KindsDisjoint DEF NewClosure
<1>3. /\ alloc' = alloc \cup N /\ stack' = [stack EXCEPT ![th][s] = f]
      /\ env'[f] = env[th] /\ upv'[f] = {u}
      /\ u \notin alloc => loc'[u] = <<th, p>>
      /\ UNCHANGED <<basicmt, co, entries, meta, val, gray, grayagain>>
      /\ CollectorKept
      /\ \A x \in Object \ N : loc'[x] = loc[x] /\ env'[x] = env[x] /\ upv'[x] = upv[x]
  BY <1>1 DEF NewClosure, HNewClosure, Assign, CollectorKept, TypeOK, HeapTypeOK
<1>4. loc'[f] = Nil /\ Neutral(f) /\ (u \notin alloc => Neutral(u))
  BY <1>2, <1>3 DEF SafetyInv, HeapInv, Kinds, Neutral, NewClosure, HNewClosure
<1>5. /\ \A x \in Object \ {f, u} : mark'[x] = mark[x]
      /\ mark'[f] = currentwhite /\ (u \notin alloc => mark'[u] = currentwhite)
      /\ u \in alloc => mark'[u] = IF u \in UpvalsOn(p) /\ IsDead(u)
                                     THEN currentwhite ELSE mark[u]
  BY <1>2 DEF NewClosure
<1>6. /\ \A q \in Slot : stack[th][q] # Nil => stack[th][q] \in Live
      /\ env[th] # Nil => env[th] \in Live
  BY <1>1, SafeIff, RefsIff DEF SafetyInv
<1>7. Live \subseteq Live' /\ u \in Live' /\ Nil \notin Live'
  <2>1. currentwhite' = currentwhite /\ otherwhite' = otherwhite /\ otherwhite # currentwhite
    BY <1>3, WhitesDiffer DEF CollectorKept, otherwhite, TypeOK
  <2>2. Live \subseteq Object
    BY DEF Live, TypeOK, HeapTypeOK
  <2>3. ASSUME NEW x \in Live PROVE x \in Live'
    BY <1>2, <1>3, <1>5, <2>1, <2>2 DEF Live, Doomed, IsDead
  <2>4. u \in Live'
    <3>1. CASE u \notin alloc
      BY <1>3, <1>5, <2>1, <3>1 DEF Live, Doomed, IsDead
    <3>2. CASE u \in UpvalsOn(p) /\ u \in alloc
      BY <1>3, <1>5, <2>1, <3>2 DEF Live, Doomed, IsDead
    <3>3. CASE \E g \in Accessible : u \in upv[g] \cap UpVal
      <4>1. PICK g \in Accessible : u \in upv[g]
        BY <3>3
      <4>2. g \in Live
        BY AccessibleLive DEF SafetyInv
      <4>3. u \in Refs(g)
        BY <4>1, RefsIff, KindsDisjoint
      <4>4. u \in Live
        BY <4>2, <4>3, SafeIff DEF SafetyInv
      <4>. QED
        BY <2>3, <4>4
    <3>4. \/ u \in UpvalsOn(p) \/ u \notin alloc
          \/ \E g \in Accessible : u \in upv[g] \cap UpVal
      BY DEF NewClosure
    <3>. QED
      BY <3>1, <3>2, <3>3, <3>4
  <2>. QED
    BY <2>3, <2>4, KindsDisjoint DEF Live, TypeOK, HeapTypeOK
<1>8. Refs(f)' \subseteq Live'
  <2>1. f \notin Thread /\ meta'[f] = Nil /\ entries'[f] = {}
    BY <1>2, <1>3, <1>4, KindsDisjoint DEF Neutral
  <2>. QED
    BY <1>2, <1>3, <1>6, <1>7, <2>1, RefsIffNext
<1>9. u \notin alloc => Refs(u)' \subseteq Live' \cup {f}
  <2>. SUFFICES ASSUME u \notin alloc PROVE Refs(u)' \subseteq Live' \cup {f}
    OBVIOUS
  <2>1. meta'[u] = Nil /\ entries'[u] = {} /\ env'[u] = Nil /\ upv'[u] = {}
    BY <1>2, <1>3, <1>4 DEF Neutral, NewClosure, HNewClosure
  <2>2. UpValue(u)' = stack'[th][p]
    <3>1. loc'[u] # Nil
      BY <1>1, <1>3, NilAssumption
    <3>. QED
      BY <1>3, <3>1 DEF UpValue, Open
  <2>3. stack'[th][p] \in {f, stack[th][p]}
    BY <1>3 DEF TypeOK, HeapTypeOK
  <2>. QED
    BY <1>2, <1>6, <1>7, <2>1, <2>2, <2>3, RefsIffNext
<1>10. u \in UpvalsOn(p) => Refs(u) \subseteq Live
  <2>1. /\ meta[u] = Nil /\ entries[u] = {} /\ env[u] = Nil /\ upv[u] = {}
    BY <1>2 DEF SafetyInv, HeapInv, Kinds
  <2>2. u \in UpvalsOn(p) => UpValue(u) = stack[th][p]
    BY <1>1, NilAssumption DEF UpvalsOn, UpValue, Open
  <2>. QED
    BY <1>2, <1>6, <2>1, <2>2, RefsIff
<1>11. NewStep(N, f, th, s)
  <2>1. N \subseteq Object \ alloc /\ f \in N \ UpVal
    BY <1>2
  <2>2. ASSUME NEW x \in Object \ N
        PROVE  \/ mark'[x] = mark[x]
               \/ /\ x \in alloc /\ IsDead(x) /\ mark'[x] = currentwhite
                  /\ Refs(x) \subseteq Live
    BY <1>5, <1>10
  <2>3. ASSUME NEW x \in N
        PROVE  /\ mark'[x] = currentwhite
               /\ Refs(x)' \subseteq Live' \cup {f}
               /\ x \notin Closure \cup Udata \cup Thread => env'[x] = Nil
               /\ x \notin Closure => upv'[x] = {}
               /\ x \in Closure \ NativeClosure => upv'[x] \subseteq UpVal
               /\ x \notin UpVal => loc'[x] = Nil
               /\ loc'[x] = Nil \/ loc'[x][1] = th
    <3>1. CASE x = f
      BY <1>2, <1>3, <1>4, <1>5, <1>8, <3>1
    <3>2. CASE x = u /\ u \notin alloc
      <4>1. env'[u] = Nil /\ upv'[u] = {}
        BY <1>2, <1>4, <3>2 DEF Neutral, NewClosure, HNewClosure
      <4>. QED
        BY <1>2, <1>3, <1>5, <1>9, <3>2, <4>1
    <3>. QED
      BY <3>1, <3>2
  <2>. HIDE DEF N
  <2>. QED
    BY <1>3, <2>1, <2>2, <2>3 DEF NewStep
<1>. QED
  BY <1>11, NewEffect, NewHeap

LEMMA AllocateEffect ==
    ASSUME TypeOK, TypeOK', SafetyInv, Allocate PROVE ProgramEffect /\ HeapInv'
<1>. PICK s \in Slot :
       \/ \E t \in Table : NewTable(s, t)
       \/ \E u \in Udata : NewUdata(s, u)
       \/ \E th \in Thread : NewThread(s, th)
       \/ \E f \in NativeClosure, v \in Accessible : PushCClosure(s, f, v)
       \/ \E str \in Str : NewString(s, str)
       \/ \E f \in Closure, u \in UpVal, p \in Slot : NewClosure(s, f, u, p)
  BY DEF Allocate
<1>1. env[L] \in (Live \cap Table) \cup {Nil}
  <2>1. L \in Live \cap Thread
    BY RunningLive DEF SafetyInv
  <2>2. env[L] # Nil => env[L] \in Refs(L)
    BY RefsIff
  <2>. QED
    BY <2>1, <2>2, SafeIff DEF SafetyInv, TypeOK, HeapTypeOK
<1>2. Accessible \subseteq Live
  BY AccessibleLive DEF SafetyInv
<1>3. ASSUME NEW t \in Table, NewTable(s, t) PROVE ProgramEffect /\ HeapInv'
  BY <1>3, LinkEffect, KindsDisjoint, RootsAssumption DEF NewTable
<1>4. ASSUME NEW u \in Udata, NewUdata(s, u) PROVE ProgramEffect /\ HeapInv'
  BY <1>1, <1>4, LinkEffect, KindsDisjoint, RootsAssumption DEF NewUdata
<1>5. ASSUME NEW th \in Thread, NewThread(s, th) PROVE ProgramEffect /\ HeapInv'
  BY <1>1, <1>5, LinkEffect, KindsDisjoint, RootsAssumption DEF NewThread
<1>6. ASSUME NEW f \in NativeClosure, NEW v \in Accessible, PushCClosure(s, f, v)
      PROVE  ProgramEffect /\ HeapInv'
  BY <1>1, <1>2, <1>6, LinkEffect, KindsDisjoint, RootsAssumption DEF PushCClosure
<1>. QED
  BY <1>3, <1>4, <1>5, <1>6, NewStringEffect, NewClosureEffect

-----------------------------------------------------------------------------
(* Stores to the fields of one object.                                     *)

(* The fields of object o change to what an object of its kind may have.   *)
FieldStep(o) ==
    /\ o \in Live /\ CollectorKept
    /\ UNCHANGED <<alloc, loc, stack, co, basicmt>>
    /\ \A x \in Object \ {o} :
         /\ meta'[x] = meta[x] /\ env'[x] = env[x] /\ upv'[x] = upv[x]
         /\ entries'[x] = entries[x] /\ val'[x] = val[x]
    /\ entries'[o] = entries[o] \/ o \in Table
    /\ meta'[o] = meta[o] \/ o \in Table \cup Udata
    /\ env'[o] = env[o] \/ o \in Closure \cup Udata \cup Thread
    /\ upv'[o] = upv[o] \/ o \in NativeClosure
    /\ val'[o] = val[o] \/ (o \in UpVal /\ ~Open(o) /\ val'[o] \notin UpVal)

LEMMA FieldHeap ==
    ASSUME TypeOK, TypeOK', HeapInv, NEW o, FieldStep(o), NEW W, NEW B, ColourStep(W, B)
    PROVE  HeapInv'
<1>1. \A x \in Object : mark'[x] = "none" <=> x \notin alloc
  BY EffectAllocated DEF FieldStep
<1>2. o \in alloc
  BY DEF FieldStep, Live
<1>3. Values'
  BY DEF HeapInv, Values, FieldStep
<1>4. Kinds'
  <2>. SUFFICES ASSUME NEW x \in Object
                PROVE  /\ x \notin alloc => Neutral(x)'
                       /\ x \in alloc => mark'[x] # "none"
                       /\ x \notin Table => entries'[x] = {}
                       /\ x \notin Table \cup Udata => meta'[x] = Nil
                       /\ x \notin Closure \cup Udata \cup Thread => env'[x] = Nil
                       /\ x \notin Closure => upv'[x] = {}
                       /\ x \in Closure \ NativeClosure => upv'[x] \subseteq UpVal
                       /\ x \notin UpVal => loc[x] = Nil /\ val'[x] = Nil
                       /\ Open(x) => val'[x] = Nil /\ loc[x][1] \in alloc
    BY DEF Kinds, FieldStep, Open
  <2>1. CASE x = o
    BY <1>1, <1>2, <2>1, RootsAssumption DEF HeapInv, Kinds, FieldStep
  <2>2. CASE x # o
    BY <1>1, <2>2 DEF HeapInv, Kinds, Neutral, FieldStep
  <2>. QED
    BY <2>1, <2>2
<1>. QED
  BY <1>3, <1>4 DEF HeapInv

LEMMA FieldEffect ==
    ASSUME TypeOK, TypeOK', SafetyInv, NEW o, FieldStep(o), NEW V \in SUBSET Live,
           Refs(o)' \subseteq Refs(o) \cup V,
           NEW W, NEW B, ColourStep(W, B), Live' \subseteq Live,
           gcstate = "propagate" =>
             /\ mark'[o] = "black" => \A v \in V : mark'[v] \notin Whites
             /\ \A x \in Object : mark'[x] = "black" /\ mark[x] # "black"
                                    => White(Refs(x)) \subseteq W
    PROVE  ProgramEffect /\ HeapInv'
<1>1. o \in Object
  BY DEF FieldStep, Live, TypeOK, HeapTypeOK
<1>2. \A x \in Object \ {o} : Refs(x)' = Refs(x)
  BY <1>1, FieldEdges DEF FieldStep
<1>3. Roots' \cup Chain' \subseteq Live
  BY SafeRoots DEF FieldStep, CollectorKept, SafetyInv
<1>4. Live \subseteq Live' /\ Live' \subseteq Object
  BY LiveKept DEF FieldStep, SafetyInv, Live, TypeOK, HeapTypeOK
<1>5. EdgeStep(V, W)
  <2>1. ASSUME NEW x \in Live'
        PROVE  Refs(x)' \subseteq V \cup (IF x \in Live THEN Refs(x) ELSE {})
    BY <1>2, <1>4
  <2>2. ASSUME gcstate = "propagate", NEW x \in Object, mark'[x] = "black",
               NEW r \in Refs(x)' \ Refs(x)
        PROVE  mark'[r] \notin Whites
    BY <1>2, <2>2
  <2>. QED
    BY <1>3, <1>4, <2>1, <2>2 DEF EdgeStep
<1>6. ProgramEffect
  BY <1>5 DEF ProgramEffect, FieldStep
<1>. QED
  BY <1>6, FieldHeap DEF SafetyInv

(* A store with a forward barrier.                                         *)
LEMMA ForwardEffect ==
    ASSUME TypeOK, TypeOK', SafetyInv, NEW o, FieldStep(o), NEW v,
           v = Nil \/ v \in Live, BarrierForward(o, v), UNCHANGED grayagain,
           Refs(o)' \subseteq Refs(o) \cup ({v} \ {Nil})
    PROVE  ProgramEffect /\ HeapInv'
<1>1. o \in Object /\ (v = Nil \/ v \in Object)
  BY DEF FieldStep, Live, TypeOK, HeapTypeOK
<1>2. UNCHANGED <<alloc, loc, currentwhite, grayagain>>
  BY DEF FieldStep, CollectorKept
<1>3. PICK W : /\ ColourStep(W, {})
               /\ \A x \in Object : mark'[x] = "black" /\ mark[x] # "black"
                                      => White(Refs(x)) \subseteq W
  BY <1>1, <1>2, BarrierForwardColours DEF SafetyInv, ColourInv
<1>4. /\ Live' \subseteq Live
      /\ gcstate = "propagate" /\ mark'[o] = "black" /\ v # Nil
           => mark'[v] \notin Whites
  BY <1>1, <1>2, BarrierForwardColours DEF SafetyInv, ColourInv
<1>. DEFINE V == {v} \ {Nil}
<1>5. /\ V \in SUBSET Live
      /\ Refs(o)' \subseteq Refs(o) \cup V
      /\ gcstate = "propagate" /\ mark'[o] = "black" => \A x \in V : mark'[x] \notin Whites
  BY <1>4
<1>. HIDE DEF V
<1>. QED
  BY <1>3, <1>4, <1>5, FieldEffect

(* A store with a backward barrier.                                        *)
LEMMA BackEffect ==
    ASSUME TypeOK, TypeOK', SafetyInv, NEW t \in Table, FieldStep(t), NEW S,
           S \cap Object \subseteq Live, BarrierBack(t, S), UNCHANGED gray,
           Refs(t)' \subseteq Refs(t) \cup (S \cap Object)
    PROVE  ProgramEffect /\ HeapInv'
<1>1. UNCHANGED <<alloc, loc, currentwhite, gray>>
  BY DEF FieldStep, CollectorKept
<1>2. PICK B : ColourStep({}, B)
  BY <1>1, BarrierBackColours DEF SafetyInv
<1>3. /\ Live' \subseteq Live
      /\ \A x \in Object : mark'[x] = "black" => mark[x] = "black"
      /\ mark'[t] = "black" => \A v \in S \cap Object : mark'[v] \notin Whites
  BY <1>1, BarrierBackColours DEF SafetyInv
<1>. DEFINE V == S \cap Object
<1>4. /\ V \in SUBSET Live
      /\ Refs(t)' \subseteq Refs(t) \cup V
      /\ mark'[t] = "black" => \A x \in V : mark'[x] \notin Whites
  BY <1>3
<1>. HIDE DEF V
<1>. QED
  BY <1>2, <1>3, <1>4, FieldEffect

LEMMA SetTableEffect ==
    ASSUME TypeOK, TypeOK', SafetyInv, NEW t \in Accessible,
           NEW k \in PlainKey \cup Accessible, NEW v \in Accessible \cup {Nil},
           SetTable(t, k, v)
    PROVE  ProgramEffect /\ HeapInv'
<1>1. Accessible \subseteq Live /\ t \in Table /\ t \in Live
  BY AccessibleLive DEF SafetyInv, SetTable
<1>. DEFINE isnew == \A e \in entries[t] : e[1] # k
            S == {v} \cup (IF isnew THEN {k} ELSE {})
<1>2. HSetTable(t, k, v) /\ BarrierBack(t, S)
      /\ UNCHANGED <<currentwhite, gcstate, stage, gray, weak, sweepgc, sweepstrgc>>
  BY Zenon DEF SetTable
<1>3. FieldStep(t)
  BY <1>1, <1>2
  DEF HSetTable, FieldStep, CollectorKept, TypeOK, HeapTypeOK
<1>4. S \cap Object \subseteq Live
  BY <1>1, KindsDisjoint
<1>5. Refs(t)' \subseteq Refs(t) \cup (S \cap Object)
  <2>1. entries'[t] \subseteq entries[t] \cup (IF v = Nil THEN {} ELSE {<<k, v>>})
    BY <1>1, <1>2 DEF HSetTable, TypeOK, HeapTypeOK
  <2>2. /\ t \notin UpVal /\ t \notin Thread
        /\ UNCHANGED <<meta, env, upv>>
    BY <1>1, <1>2, KindsDisjoint DEF HSetTable
  <2>3. v # Nil => v \in Object
    BY <1>1 DEF Live, TypeOK, HeapTypeOK
  <2>4. ASSUME NEW e \in entries'[t]
        PROVE  /\ e[2] \in Refs(t) \cup (S \cap Object)
               /\ e[1] \in Object => e[1] \in Refs(t) \cup (S \cap Object)
    <3>1. CASE e \in entries[t]
      BY <3>1, RefsIff
    <3>2. CASE v # Nil /\ e = <<k, v>>
      <4>1. ~isnew /\ k \in Object => k \in Refs(t)
        BY RefsIff
      <4>. QED
        BY <2>3, <3>2, <4>1
    <3>. QED
      BY <2>1, <3>1, <3>2
  <2>. HIDE DEF S, isnew
  <2>. QED
    BY <2>2, <2>4, RefsIff, RefsIffNext
<1>. HIDE DEF S, isnew
<1>. QED
  BY <1>1, <1>2, <1>3, <1>4, <1>5, BackEffect

LEMMA SetMetafieldsEffect ==
    ASSUME TypeOK, TypeOK', SafetyInv, NEW m \in Accessible, NEW fields,
           SetMetafields(m, fields)
    PROVE  ProgramEffect /\ HeapInv'
<1>1. m \in Table /\ m \in Live
  BY AccessibleLive DEF SafetyInv, SetMetafields
<1>2. FieldStep(m) /\ UNCHANGED <<alloc, loc, gray>>
  BY <1>1 DEF SetMetafields, HSetMetafields, FieldStep, CollectorKept
<1>3. Refs(m)' \subseteq Refs(m)
  <2>1. m \notin UpVal /\ m \notin Thread /\ UNCHANGED <<meta, env, upv, entries>>
    BY <1>1, KindsDisjoint DEF SetMetafields, HSetMetafields
  <2>. QED
    BY <2>1, RefsIff, RefsIffNext
<1>4. PICK B : /\ ColourStep({}, B)
               /\ \A x \in Object : mark'[x] \in {mark[x], "gray"}
  <2>1. CASE UNCHANGED <<mark, grayagain>>
    BY <1>2, <2>1, MarkKept
  <2>2. CASE /\ mark[m] = "black" /\ mark' = [mark EXCEPT ![m] = "gray"]
             /\ grayagain' = grayagain \cup {m}
    <3>1. mark'[m] = "gray" /\ \A x \in Object \ {m} : mark'[x] = mark[x]
      BY <1>1, <2>2 DEF TypeOK, GCTypeOK
    <3>2. ColourStep({}, {m})
      BY <1>1, <1>2, <2>2, <3>1 DEF ColourStep, Kept, TurnedBack, Live
    <3>. QED
      BY <3>1, <3>2
  <2>. QED
    BY <2>1, <2>2 DEF SetMetafields
<1>5. Live' \subseteq Live
  <2>1. mark[m] # otherwhite \/ m \in FixedStr
    BY <1>1 DEF Live, Doomed, IsDead
  <2>2. \A x \in Object : x # m => mark'[x] = mark[x]
    BY DEF SetMetafields, TypeOK, GCTypeOK
  <2>. QED
    BY <1>1, <1>2, <2>1, <2>2
    DEF Live, Doomed, IsDead, otherwhite, FieldStep, CollectorKept, TypeOK, HeapTypeOK
<1>6. \A x \in Object : mark'[x] = "black" => mark[x] = "black"
  BY <1>4
<1>. QED
  BY <1>2, <1>3, <1>4, <1>5, <1>6, FieldEffect

LEMMA SetMetatableEffect ==
    ASSUME TypeOK, TypeOK', SafetyInv, NEW t \in Accessible,
           NEW m \in Accessible \cup {Nil}, SetMetatable(t, m)
    PROVE  ProgramEffect /\ HeapInv'
<1>1. Accessible \subseteq Live /\ t \in Table /\ t \in Live
  BY AccessibleLive DEF SafetyInv, SetMetatable
<1>. DEFINE S == {m}
<1>2. HSetMetatable(t, m) /\ BarrierBack(t, S)
      /\ UNCHANGED <<currentwhite, gcstate, stage, gray, weak, sweepgc, sweepstrgc>>
  BY Zenon DEF SetMetatable
<1>3. FieldStep(t) /\ meta'[t] = m
  BY <1>1, <1>2
  DEF HSetMetatable, FieldStep, CollectorKept, TypeOK, HeapTypeOK
<1>4. S \cap Object \subseteq Live
  BY <1>1, KindsDisjoint
<1>5. Refs(t)' \subseteq Refs(t) \cup (S \cap Object)
  <2>1. /\ t \notin UpVal /\ t \notin Thread /\ UNCHANGED <<entries, env, upv>>
    BY <1>1, <1>2, KindsDisjoint DEF HSetMetatable
  <2>2. m # Nil => m \in Object
    BY <1>1 DEF Live, TypeOK, HeapTypeOK
  <2>. QED
    BY <1>3, <2>1, <2>2, RefsIff, RefsIffNext
<1>. HIDE DEF S
<1>. QED
  BY <1>1, <1>2, <1>3, <1>4, <1>5, BackEffect

LEMMA SetUdataMetatableEffect ==
    ASSUME TypeOK, TypeOK', SafetyInv, NEW u \in Accessible,
           NEW m \in Accessible \cup {Nil}, SetUdataMetatable(u, m)
    PROVE  ProgramEffect /\ HeapInv'
<1>1. Accessible \subseteq Live /\ u \in Udata /\ u \in Live
  BY AccessibleLive DEF SafetyInv, SetUdataMetatable
<1>2. HSetMetatable(u, m) /\ BarrierForward(u, m)
      /\ UNCHANGED <<currentwhite, gcstate, stage, grayagain, weak, sweepgc, sweepstrgc>>
  BY Zenon DEF SetUdataMetatable
<1>3. FieldStep(u) /\ meta'[u] = m
  BY <1>1, <1>2
  DEF HSetMetatable, FieldStep, CollectorKept, TypeOK, HeapTypeOK
<1>4. Refs(u)' \subseteq Refs(u) \cup ({m} \ {Nil})
  <2>1. /\ u \notin UpVal /\ u \notin Thread /\ UNCHANGED <<entries, env, upv>>
    BY <1>1, <1>2, KindsDisjoint DEF HSetMetatable
  <2>. QED
    BY <1>3, <2>1, RefsIff, RefsIffNext
<1>. QED
  BY <1>1, <1>2, <1>3, <1>4, ForwardEffect

LEMMA SetFenvEffect ==
    ASSUME TypeOK, TypeOK', SafetyInv, NEW o \in Accessible, NEW e \in Accessible,
           SetFenv(o, e)
    PROVE  ProgramEffect /\ HeapInv'
<1>1. Accessible \subseteq Live /\ o \in Closure \cup Udata \cup Thread /\ o \in Live
  BY AccessibleLive DEF SafetyInv, SetFenv
<1>2. HSetFenv(o, e) /\ BarrierForward(o, e)
      /\ UNCHANGED <<currentwhite, gcstate, stage, grayagain, weak, sweepgc, sweepstrgc>>
  BY Zenon DEF SetFenv
<1>3. FieldStep(o) /\ env'[o] = e
  BY <1>1, <1>2
  DEF HSetFenv, FieldStep, CollectorKept, TypeOK, HeapTypeOK
<1>4. Refs(o)' \subseteq Refs(o) \cup ({e} \ {Nil})
  <2>1. o \notin UpVal /\ UNCHANGED <<entries, meta, upv, stack, co>>
    BY <1>1, <1>2, KindsDisjoint DEF HSetFenv
  <2>2. Resumed(o)' = Resumed(o)
    BY <2>1 DEF Resumed
  <2>. QED
    BY <1>3, <2>1, <2>2, RefsIff, RefsIffNext
<1>. QED
  BY <1>1, <1>2, <1>3, <1>4, ForwardEffect

LEMMA SetCaptureEffect ==
    ASSUME TypeOK, TypeOK', SafetyInv, NEW f \in Accessible,
           NEW v \in Accessible \cup {Nil}, SetCapture(f, v)
    PROVE  ProgramEffect /\ HeapInv'
<1>1. Accessible \subseteq Live /\ f \in NativeClosure /\ f \in Closure /\ f \in Live
  BY AccessibleLive, RootsAssumption DEF SafetyInv, SetCapture
<1>2. HSetCapture(f, v) /\ BarrierForward(f, v)
      /\ UNCHANGED <<currentwhite, gcstate, stage, grayagain, weak, sweepgc, sweepstrgc>>
  BY Zenon DEF SetCapture
<1>3. FieldStep(f) /\ upv'[f] = {v} \ {Nil}
  BY <1>1, <1>2
  DEF HSetCapture, FieldStep, CollectorKept, TypeOK, HeapTypeOK
<1>4. Refs(f)' \subseteq Refs(f) \cup ({v} \ {Nil})
  <2>1. /\ f \notin UpVal /\ f \notin Thread /\ UNCHANGED <<entries, env, meta>>
    BY <1>1, <1>2, KindsDisjoint DEF HSetCapture
  <2>. QED
    BY <1>3, <2>1, RefsIff, RefsIffNext
<1>. QED
  BY <1>1, <1>2, <1>3, <1>4, ForwardEffect

(* OP_SETUPVAL: an open upvalue is a slot of some stack and never black, a *)
(* closed one has the barrier.                                             *)
LEMMA SetUpvalEffect ==
    ASSUME TypeOK, TypeOK', SafetyInv, NEW f \in Accessible,
           NEW v \in Accessible \cup {Nil}, NEW u \in upv[f], SetUpval(f, u, v)
    PROVE  ProgramEffect /\ HeapInv'
<1>1. /\ Accessible \subseteq Live /\ Accessible \cap UpVal = {}
      /\ f \in Closure \ NativeClosure /\ f \in Live
  BY AccessibleLive DEF SafetyInv, SetUpval
<1>2. u \in UpVal /\ u \in Live
  <2>1. u \in UpVal
    BY <1>1 DEF SafetyInv, HeapInv, Kinds
  <2>2. u \in Refs(f)
    BY <2>1, RefsIff, KindsDisjoint
  <2>. QED
    BY <1>1, <2>1, <2>2, SafeIff DEF SafetyInv
<1>3. HSetUpval(u, v) /\ BarrierForward(u, v)
      /\ UNCHANGED <<currentwhite, gcstate, stage, grayagain, weak, sweepgc, sweepstrgc>>
  BY Zenon DEF SetUpval
<1>4. CASE Open(u)
  <2>1. loc[u][1] \in Thread \cap alloc /\ loc[u][2] \in Slot
    BY <1>2, <1>4 DEF SafetyInv, HeapInv, Kinds, Open, TypeOK, HeapTypeOK
  <2>2. mark[u] # "black"
    BY <1>2, <1>4 DEF SafetyInv, ColourInv, Colours
  <2>3. UNCHANGED <<mark, gray>>
    BY <1>3, <2>2, Zenon DEF BarrierForward
  <2>4. /\ stack' = [stack EXCEPT ![loc[u][1]][loc[u][2]] = v]
        /\ CollectorKept /\ UNCHANGED <<mark, gray, grayagain>>
        /\ UNCHANGED <<alloc, meta, env, entries, upv, loc, val, basicmt, co>>
    BY <1>3, <1>4, <2>3 DEF HSetUpval, CollectorKept
  <2>5. Live' = Live
    BY <2>4 DEF Live, Doomed, IsDead, otherwhite, CollectorKept
  <2>6. ColourStep({}, {})
    BY <2>4, MarkKept
  <2>7. v = Nil \/ v \in Live' \ UpVal
    BY <1>1, <2>5
  <2>8. \A x \in Live' \ Live : x \in Str
    BY <2>5
  <2>. QED
    BY <2>1, <2>4, <2>6, <2>7, <2>8, StackStore
<1>5. CASE ~Open(u)
  <2>1. FieldStep(u) /\ val'[u] = v
    BY <1>1, <1>2, <1>3, <1>5, KindsDisjoint
    DEF HSetUpval, FieldStep, CollectorKept, TypeOK, HeapTypeOK
  <2>2. Refs(u)' \subseteq Refs(u) \cup ({v} \ {Nil})
    <3>1. /\ u \notin Thread /\ UNCHANGED <<entries, env, meta, upv, loc>>
      BY <1>2, <1>3, KindsDisjoint DEF HSetUpval
    <3>2. UpValue(u)' = v
      BY <1>5, <2>1, <3>1 DEF UpValue, Open
    <3>. QED
      BY <3>1, <3>2, RefsIff, RefsIffNext
  <2>. QED
    BY <1>1, <1>3, <2>1, <2>2, ForwardEffect
<1>. QED
  BY <1>4, <1>5

(* lua_setmetatable on a basic type has no barrier: it changes the roots.  *)
LEMMA SetBasicMetatableEffect ==
    ASSUME TypeOK, TypeOK', SafetyInv, NEW b \in BasicType,
           NEW m \in Accessible \cup {Nil}, SetBasicMetatable(b, m)
    PROVE  ProgramEffect /\ HeapInv'
<1>1. /\ UNCHANGED <<alloc, meta, env, entries, upv, loc, val, stack, co, tmudata>>
      /\ UNCHANGED <<mark, gray, grayagain>> /\ CollectorKept
      /\ basicmt' = [basicmt EXCEPT ![b] = m]
  BY DEF SetBasicMetatable, HSetBasicMetatable, gcVars, CollectorKept
<1>2. Live' = Live /\ \A x : Refs(x)' = Refs(x)
  BY <1>1
  DEF Live, Doomed, IsDead, otherwhite, CollectorKept, Refs, Fixtures, KeysOf,
      ValuesOf, StackOf, Resumed, UpValue, Open
<1>3. Roots' \cup Chain' \subseteq Live
  <2>1. \A c \in BasicType : basicmt'[c] \in {m, basicmt[c]}
    BY <1>1 DEF TypeOK, HeapTypeOK
  <2>2. m # Nil => m \in Live
    BY AccessibleLive DEF SafetyInv
  <2>. QED
    BY <1>1, <2>1, <2>2, SafeIff DEF Roots, Chain, SafetyInv
<1>4. ColourStep({}, {}) /\ EdgeStep({}, {})
  BY <1>1, <1>2, <1>3, MarkKept DEF EdgeStep
<1>5. HeapInv'
  BY <1>1 DEF SafetyInv, HeapInv, Kinds, Values, Neutral, Open
<1>. QED
  BY <1>1, <1>4, <1>5 DEF ProgramEffect

LEMMA StoreEffect ==
    ASSUME TypeOK, TypeOK', SafetyInv, "debug.setupvalue" \notin Ops, Store
    PROVE  ProgramEffect /\ HeapInv'
<1>1. ASSUME NEW t \in Accessible, NEW v \in Accessible \cup {Nil},
             NEW k \in PlainKey \cup (IF "objectkey" \in Ops THEN Accessible ELSE {}),
             SetTable(t, k, v)
      PROVE  ProgramEffect /\ HeapInv'
  BY <1>1, SetTableEffect
<1>. QED
  BY <1>1, SetMetafieldsEffect, SetMetatableEffect, SetUdataMetatableEffect,
     SetBasicMetatableEffect, SetFenvEffect, SetCaptureEffect, SetUpvalEffect
  DEF Store

-----------------------------------------------------------------------------
(* Coroutines, closing upvalues, full collections.                         *)

(* The chain of coroutines changes: the running thread is not black.       *)
LEMMA ChainEffect ==
    ASSUME TypeOK, TypeOK', SafetyInv, NEW A \in SUBSET Live,
           UNCHANGED <<alloc, meta, env, entries, upv, loc, val, stack, basicmt, tmudata>>,
           UNCHANGED gcVars, co'[1] = co[1], Chain' \subseteq Chain \cup A,
           \A x \in Thread : Resumed(x)' \subseteq Resumed(x) \cup A
    PROVE  ProgramEffect /\ HeapInv'
<1>1. CollectorKept /\ UNCHANGED <<mark, gray, grayagain>>
  BY DEF CollectorKept, gcVars
<1>2. Live' = Live
  BY <1>1 DEF Live, Doomed, IsDead, otherwhite, CollectorKept
<1>3. /\ \A x \in Object : Refs(x)' \subseteq Refs(x) \cup A
      /\ \A x \in Object \ Thread : Refs(x)' \subseteq Refs(x)
  <2>1. \A x \in Object : UpValue(x)' = UpValue(x)
    BY DEF UpValue, Open
  <2>. QED
    BY <2>1, RefsIff, RefsIffNext
<1>4. Roots' \cup Chain' \subseteq Live
  BY SafeIff DEF Roots, SafetyInv
<1>5. EdgeStep(A, {})
  <2>1. ASSUME NEW x \in Object, mark'[x] = "black"
        PROVE  mark[x] = "black" /\ x \notin Thread
    BY <1>1, <2>1 DEF SafetyInv, ColourInv, Colours
  <2>2. Live \subseteq Object
    BY DEF Live, TypeOK, HeapTypeOK
  <2>. QED
    BY <1>2, <1>3, <1>4, <2>1, <2>2 DEF EdgeStep
<1>6. HeapInv'
  BY <1>1 DEF SafetyInv, HeapInv, Kinds, Values, Neutral, Open
<1>. QED
  BY <1>1, <1>5, <1>6, MarkKept DEF ProgramEffect

LEMMA ResumeEffect ==
    ASSUME TypeOK, TypeOK', SafetyInv, NEW th \in Accessible, Resume(th)
    PROVE  ProgramEffect /\ HeapInv'
<1>1. co \in Seq(Thread) /\ co # <<>> /\ th \in Thread /\ co' = Append(co, th)
  BY DEF TypeOK, HeapTypeOK, Resume, HResume
<1>2. /\ Len(co') = Len(co) + 1 /\ co'[Len(co) + 1] = th
      /\ \A i \in 1 .. Len(co) : co'[i] = co[i]
      /\ DOMAIN co' = 1 .. Len(co) + 1 /\ DOMAIN co = 1 .. Len(co) /\ Len(co) \in Nat \ {0}
  BY <1>1
<1>3. Chain' \subseteq Chain \cup {th} /\ co'[1] = co[1]
  BY <1>2 DEF Chain
<1>4. \A x \in Thread : Resumed(x)' \subseteq Resumed(x) \cup {th}
  <2>. SUFFICES ASSUME NEW x \in Thread, NEW j \in 1 .. Len(co') - 1, co'[j] = x
                PROVE  co'[j + 1] \in Resumed(x) \cup {th}
    BY DEF Resumed
  <2>1. CASE j = Len(co)
    BY <1>2, <2>1
  <2>2. CASE j # Len(co)
    <3>. PICK n \in Nat : n = Len(co) /\ Len(co') = n + 1
      BY <1>2
    <3>1. j \in 1 .. n - 1 /\ j \in 1 .. n /\ j + 1 \in 1 .. n
      BY <2>2
    <3>2. co[j] = x /\ co'[j + 1] = co[j + 1]
      BY <1>2, <3>1
    <3>. QED
      BY <3>1, <3>2 DEF Resumed
  <2>. QED
    BY <2>1, <2>2
<1>5. th \in Live
  BY AccessibleLive DEF SafetyInv
<1>6. /\ UNCHANGED <<alloc, meta, env, entries, upv, loc, val, stack, basicmt, tmudata>>
      /\ UNCHANGED gcVars
  BY DEF Resume, HResume
<1>. QED
  BY <1>3, <1>4, <1>5, <1>6, ChainEffect

LEMMA YieldEffect ==
    ASSUME TypeOK, TypeOK', SafetyInv, Yield PROVE ProgramEffect /\ HeapInv'
<1>1. co \in Seq(Thread) /\ Len(co) > 1 /\ co' = SubSeq(co, 1, Len(co) - 1)
  BY DEF TypeOK, HeapTypeOK, Yield, HYield
<1>2. /\ Len(co') = Len(co) - 1 /\ Len(co) \in Nat
      /\ \A i \in 1 .. Len(co) - 1 : co'[i] = co[i]
      /\ DOMAIN co' = 1 .. Len(co) - 1 /\ DOMAIN co = 1 .. Len(co)
  BY <1>1
<1>3. Chain' \subseteq Chain \cup {} /\ co'[1] = co[1]
  BY <1>1, <1>2 DEF Chain
<1>4. \A x \in Thread : Resumed(x)' \subseteq Resumed(x) \cup {}
  BY <1>1, <1>2 DEF Resumed
<1>5. /\ UNCHANGED <<alloc, meta, env, entries, upv, loc, val, stack, basicmt, tmudata>>
      /\ UNCHANGED gcVars
  BY DEF Yield, HYield
<1>. QED
  BY <1>3, <1>4, <1>5, ChainEffect

(* A step that changes at most the progress of luaC_fullgc.                *)
LEMMA QuietStep ==
    ASSUME SafetyInv, UNCHANGED heapVars,
           UNCHANGED <<mark, currentwhite, gcstate, stage, gray, grayagain, weak,
                       sweepgc, sweepstrgc>>
    PROVE  SafetyInv'
<1>1. HeapInv'
  BY DEF SafetyInv, HeapInv, Kinds, Values, Neutral, Open, heapVars
<1>2. Colours' /\ SweepInv' /\ WhiteAfterSweep'
  BY DEF SafetyInv, ColourInv, Colours, SweepInv, WhiteAfterSweep, Pending,
         Sweeping, IsDead, otherwhite, Open, heapVars
<1>3. /\ \A x : Refs(x)' = Refs(x) /\ UpValue(x)' = UpValue(x)
      /\ \A x : IsWhite(x)' <=> IsWhite(x)
      /\ \A x : IsWeak(x)' <=> IsWeak(x)
      /\ \A x : Traversed(x)' = Traversed(x)
      /\ MarkMt' = MarkMt
  BY DEF Refs, Fixtures, KeysOf, ValuesOf, StackOf, Resumed, UpValue, Open,
         heapVars, IsWhite, Traversed, IsWeak, WeakKey, WeakValue, HasMode, MarkMt
<1>4. MemorySafe'
  <2>1. Live' = Live /\ Roots' = Roots /\ Chain' = Chain
    BY DEF Live, Doomed, IsDead, otherwhite, Roots, Chain, heapVars
  <2>. QED
    BY <1>3, <2>1, SafeIff, SafeIffNext DEF SafetyInv
<1>5. PropagateInv'
  <2>1. PropagateInv
    BY DEF SafetyInv, ColourInv
  <2>2. GrayLists' <=> GrayLists
    BY DEF GrayLists
  <2>3. TriColour' <=> TriColour
    BY <1>3 DEF TriColour, White, heapVars
  <2>. QED
    BY <1>3, <2>1, <2>2, <2>3 DEF PropagateInv, Dark
<1>. QED
  BY <1>1, <1>2, <1>4, <1>5 DEF SafetyInv, ColourInv

(* What StartFullGC and atomic() leave to the sweep.                       *)
LEMMA AllPending ==
    ASSUME TypeOK, HeapInv, UNCHANGED <<loc, alloc, tmudata>>,
           gcstate' = "sweepstring", sweepstrgc' = 0,
           sweepgc' = {o \in alloc \ (Str \cup tmudata) : ~Open(o)}
    PROVE  SweepInv'
<1>1. ASSUME NEW o \in alloc \ tmudata PROVE Pending(o)'
  <2>1. o \in Object
    BY DEF TypeOK, HeapTypeOK
  <2>2. CASE o \in Str
    <3>1. 0 <= Bucket[o]
      BY <2>2, StringTableAssumption
    <3>. QED
      BY <2>2, <3>1 DEF Pending
  <2>3. CASE Open(o)
    <3>1. loc[o][1] \in alloc /\ loc[o][1] \in Thread
      BY <2>1, <2>3 DEF HeapInv, Kinds, Open, TypeOK, HeapTypeOK
    <3>2. loc[o][1] \notin Str \cup tmudata /\ ~Open(loc[o][1])
      BY <3>1, KindsDisjoint DEF HeapInv, Kinds, Open, TypeOK, HeapTypeOK
    <3>. QED
      BY <2>3, <3>1, <3>2 DEF Pending, Open
  <2>4. CASE o \notin Str /\ ~Open(o)
    BY <2>4 DEF Pending
  <2>. QED
    BY <2>2, <2>3, <2>4
<1>. QED
  BY <1>1 DEF SweepInv, Sweeping, Open

(* luaC_fullgc sweeps everything first: nothing is dead by then.           *)
LEMMA FullGCSafe ==
    ASSUME TypeOK, TypeOK', SafetyInv, StartFullGC PROVE SafetyInv'
<1>1. CASE gcstate \notin {"pause", "propagate"}
  BY <1>1, QuietStep DEF StartFullGC
<1>2. CASE gcstate \in {"pause", "propagate"}
  <2>1. /\ UNCHANGED heapVars /\ UNCHANGED <<mark, currentwhite>>
        /\ gcstate' = "sweepstring" /\ sweepstrgc' = 0
        /\ sweepgc' = {o \in alloc \ (Str \cup tmudata) : ~Open(o)}
    BY <1>2 DEF StartFullGC
  <2>2. HeapInv'
    BY <2>1 DEF SafetyInv, HeapInv, Kinds, Values, Neutral, Open, heapVars
  <2>3. Colours' /\ WhiteAfterSweep' /\ PropagateInv'
    BY <2>1 DEF SafetyInv, ColourInv, Colours, WhiteAfterSweep, PropagateInv,
           Open, heapVars
  <2>4. MemorySafe'
    <3>1. Live' = Live /\ Roots' = Roots /\ Chain' = Chain
      BY <2>1 DEF Live, Doomed, IsDead, otherwhite, Roots, Chain, heapVars
    <3>2. \A x : Refs(x)' = Refs(x)
      BY <2>1 DEF Refs, Fixtures, KeysOf, ValuesOf, StackOf, Resumed, UpValue, Open,
             heapVars
    <3>. QED
      BY <3>1, <3>2, SafeIff, SafeIffNext DEF SafetyInv
  <2>5. SweepInv'
    BY <2>1, AllPending DEF SafetyInv, heapVars
  <2>. QED
    BY <2>2, <2>3, <2>4, <2>5 DEF SafetyInv, ColourInv
<1>. QED
  BY <1>1, <1>2

(* luaF_close.  What a gray upvalue refers to is marked when it is closed  *)
(* during the mark phase.                                                  *)
LEMMA CloseUpvalsEffect ==
    ASSUME TypeOK, TypeOK', SafetyInv, NEW s \in Slot, CloseUpvals(s)
    PROVE  ProgramEffect /\ HeapInv'
<1>. DEFINE C == OpenAbove(L, s)
            D == {u \in C : IsDead(u)}
            G == {u \in C : mark[u] = "gray"}
            W == IF gcstate = "propagate" THEN ClosingMarks(G) ELSE {}
<1>1. /\ HCloseUpvals(s, D)
      /\ mark' = [o \in Object |->
                    IF o \in D THEN "none"
                    ELSE IF o \notin G THEN Painted(W)[o]
                    ELSE IF gcstate = "propagate" THEN "black"
                    ELSE currentwhite]
      /\ gray' = gray \cup (W \cap Listed)
      /\ UNCHANGED <<currentwhite, gcstate, stage, grayagain, weak, sweepgc, sweepstrgc>>
  BY DEF CloseUpvals
<1>2. /\ C \subseteq UpVal /\ \A u \in C : Open(u) /\ u \in alloc
      /\ D \subseteq C /\ G \subseteq C /\ D \cap G = {}
  <2>1. otherwhite # "gray"
    BY WhitesDiffer DEF TypeOK
  <2>2. C \subseteq UpVal /\ \A u \in C : Open(u)
    BY DEF OpenAbove
  <2>3. \A u \in UpVal : Open(u) => u \in alloc
    BY DEF SafetyInv, HeapInv, Kinds, Neutral, Open
  <2>. QED
    BY <2>1, <2>2, <2>3 DEF IsDead
<1>3. \A u \in UpVal : UpValue(u) \notin UpVal /\ (UpValue(u) # Nil => UpValue(u) \in Object)
  BY DEF TypeOK, HeapTypeOK, SafetyInv, HeapInv, Values, UpValue, Open
<1>4. /\ W \subseteq Object \ UpVal
      /\ \A x \in W : IsWhite(x) /\ gcstate = "propagate"
      /\ \A x \in W \cap Udata : White(Refs(x)) \subseteq W
      /\ gcstate = "propagate" => \A u \in G : White({UpValue(u)} \ {Nil}) \subseteq W
  <2>1. CASE gcstate = "propagate"
    <3>. DEFINE S == {UpValue(u) : u \in G} \ {Nil}
    <3>1. W = ReallyMarked(S)
      BY <2>1 DEF ClosingMarks
    <3>2. S \subseteq Object \ UpVal
      BY <1>2, <1>3
    <3>3. ReallyMarked(S) \cap UpVal = {}
      <4>1. White({UpValue(u) : u \in White(S) \cap UpVal} \ {Nil}) = {}
        BY <3>2 DEF White
      <4>2. \A u \in Udata : {meta[u], env[u]} \subseteq Table \cup {Nil}
        BY DEF TypeOK, HeapTypeOK
      <4>. QED
        BY <3>2, <4>1, <4>2, KindsDisjoint DEF ReallyMarked, White
    <3>4. \A u \in G : White({UpValue(u)} \ {Nil}) \subseteq White(S)
      BY DEF White
    <3>. HIDE DEF S, W
    <3>. QED
      BY <2>1, <3>1, <3>2, <3>3, <3>4, ReallyMarkedClosed DEF SafetyInv
  <2>2. CASE gcstate # "propagate"
    BY <2>2
  <2>. QED
    BY <2>1, <2>2
<1>5. /\ alloc' = alloc \ D
      /\ \A x \in Object : loc'[x] = IF x \in C THEN Nil ELSE loc[x]
      /\ \A x \in Object : val'[x] = IF x \in C \ D THEN UpValue(x) ELSE val[x]
      /\ UNCHANGED <<meta, env, entries, upv, stack, basicmt, co, tmudata>>
      /\ CollectorKept
  BY <1>1 DEF HCloseUpvals, CollectorKept
<1>. HIDE DEF C, D, G, W
<1>6. ASSUME NEW x \in D PROVE FreedUpval(x)
  BY <1>1, <1>2, <1>5, <1>6 DEF FreedUpval, D
<1>7. ASSUME NEW x \in G
      PROVE  /\ mark[x] = "gray"
             /\ gcstate = "propagate" => ClosedUpval(x)
             /\ gcstate # "propagate" => Whitened(x)
  BY <1>1, <1>2, <1>5, <1>7 DEF ClosedUpval, Whitened, G
<1>8. ASSUME NEW x \in W PROVE Marked(x)
  <2>1. x \notin C /\ x \in Object \ UpVal /\ IsWhite(x) /\ gcstate = "propagate"
    BY <1>2, <1>4
  <2>2. x \in alloc
    BY <2>1 DEF IsWhite, Whites, SafetyInv, HeapInv, Kinds, Neutral
  <2>. QED
    BY <1>1, <1>2, <1>5, <2>1, <2>2 DEF Marked, Painted
<1>9. ASSUME NEW x \in Object \ (W \cup D \cup G) PROVE Kept(x) /\ mark'[x] = mark[x]
  <2>1. mark'[x] = mark[x] /\ (x \in alloc' <=> x \in alloc)
    BY <1>1, <1>5 DEF Painted
  <2>2. x \in C => Open(x) /\ mark[x] = currentwhite
    <3>1. x \in C => /\ ~IsDead(x) /\ mark[x] # "gray" /\ Open(x) /\ x \in alloc
                     /\ x \in UpVal
      BY <1>2 DEF D, G
    <3>2. x \in C => mark[x] \notin {"gray", "black", "none"} /\ mark[x] # otherwhite
      BY <3>1 DEF SafetyInv, HeapInv, Kinds, ColourInv, Colours, IsDead
    <3>3. mark[x] \in {currentwhite, otherwhite, "gray", "black", "none"}
      BY WhitesDiffer DEF TypeOK, GCTypeOK, Colour
    <3>. QED
      BY <3>1, <3>2, <3>3
  <2>. QED
    BY <1>5, <2>1, <2>2 DEF Kept
<1>10. ColourStep(W, {})
  <2>1. W \cap D = {} /\ W \cap G = {}
    BY <1>2, <1>4
  <2>. QED
    BY <1>1, <1>4, <1>6, <1>7, <1>8, <1>9, <2>1 DEF ColourStep
<1>11. \A x \in Object \ D : Refs(x)' = Refs(x)
  <2>. SUFFICES ASSUME NEW x \in Object \ D PROVE Refs(x)' = Refs(x)
    OBVIOUS
  <2>1. UpValue(x)' = UpValue(x)
    <3>1. CASE x \in C
      BY <1>5, <3>1 DEF UpValue, Open
    <3>2. CASE x \notin C
      BY <1>5, <3>2 DEF UpValue, Open
    <3>. QED
      BY <3>1, <3>2
  <2>2. Resumed(x)' = Resumed(x)
    BY <1>5 DEF Resumed
  <2>3. ASSUME NEW r PROVE r \in Refs(x)' <=> r \in Refs(x)
    BY <1>5, <2>1, <2>2, RefsIff, RefsIffNext
  <2>. QED
    BY <2>3
<1>12. Live' \subseteq Live
  <2>. SUFFICES ASSUME NEW x \in alloc', x \in Object, IsDead(x), x \notin FixedStr
                PROVE  IsDead(x)'
    <3>1. alloc' \subseteq alloc /\ alloc \subseteq Object
      BY <1>5 DEF TypeOK, HeapTypeOK
    <3>. QED
      BY <3>1 DEF Live, Doomed
  <2>1. x \notin D
    BY <1>5
  <2>2. x \notin G
    BY <1>7, WhitesDiffer DEF IsDead, TypeOK
  <2>3. x \notin W
    BY <1>4 DEF SafetyInv, ColourInv, SweepInv, Sweeping
  <2>. QED
    BY <1>1, <1>9, <2>1, <2>2, <2>3 DEF IsDead, otherwhite
<1>13. EdgeStep({}, W)
  <2>1. Roots' \cup Chain' \subseteq Live
    BY <1>5, SafeRoots DEF SafetyInv
  <2>2. ASSUME NEW x \in Live' PROVE x \in Object \ D /\ x \in Live
    BY <1>5, <1>12 DEF Live, TypeOK, HeapTypeOK
  <2>3. ASSUME gcstate = "propagate", NEW x \in Object, mark'[x] = "black"
        PROVE  /\ x \notin D
               /\ mark[x] # "black" => White(Refs(x)) \subseteq W
    <3>1. x \notin D
      BY <1>6, <2>3 DEF FreedUpval
    <3>2. CASE x \in G
      <4>1. Refs(x) \subseteq {UpValue(x)} \ {Nil}
        BY <1>2, <3>2, RefsIff, KindsDisjoint DEF SafetyInv, HeapInv, Kinds
      <4>. QED
        BY <1>4, <2>3, <3>1, <3>2, <4>1 DEF White
    <3>3. CASE x \in W
      <4>1. x \in Udata
        BY <1>4, <1>8, <2>3, <3>3 DEF Marked
      <4>. QED
        BY <1>4, <3>1, <3>3, <4>1
    <3>. QED
      BY <1>9, <2>3, <3>1, <3>2, <3>3
  <2>. QED
    BY <1>11, <2>1, <2>2, <2>3 DEF EdgeStep
<1>14. ProgramEffect
  BY <1>5, <1>10, <1>13 DEF ProgramEffect
<1>15. HeapInv'
  <2>1. Values'
    BY <1>3, <1>5 DEF SafetyInv, HeapInv, Values
  <2>2. \A x \in Object : mark'[x] = "none" <=> x \notin alloc'
    BY <1>10, EffectAllocated DEF SafetyInv
  <2>. SUFFICES ASSUME NEW x \in Object
                PROVE  /\ x \notin alloc' => Neutral(x)'
                       /\ x \in alloc' => mark'[x] # "none"
                       /\ x \notin Table => entries'[x] = {}
                       /\ x \notin Table \cup Udata => meta'[x] = Nil
                       /\ x \notin Closure \cup Udata \cup Thread => env'[x] = Nil
                       /\ x \notin Closure => upv'[x] = {}
                       /\ x \in Closure \ NativeClosure => upv'[x] \subseteq UpVal
                       /\ x \notin UpVal => loc'[x] = Nil /\ val'[x] = Nil
                       /\ Open(x)' => val'[x] = Nil /\ loc'[x][1] \in alloc'
    BY <2>1 DEF HeapInv, Kinds
  <2>3. CASE x \in D
    <3>1. x \in UpVal /\ x \in C /\ Open(x) /\ x \notin alloc'
      BY <1>2, <1>5, <2>3
    <3>2. /\ val'[x] = Nil /\ loc'[x] = Nil /\ ~Open(x)'
          /\ meta'[x] = Nil /\ env'[x] = Nil /\ entries'[x] = {} /\ upv'[x] = {}
      BY <1>5, <2>3, <3>1, KindsDisjoint DEF SafetyInv, HeapInv, Kinds, Open
    <3>. QED
      BY <2>2, <3>1, <3>2, KindsDisjoint DEF Neutral
  <2>4. CASE x \notin D
    <3>1. x \in alloc' <=> x \in alloc
      BY <1>5, <2>4
    <3>2. Open(x)' => val'[x] = Nil /\ loc'[x][1] \in alloc'
      <4>. SUFFICES ASSUME Open(x)' PROVE val'[x] = Nil /\ loc'[x][1] \in alloc'
        OBVIOUS
      <4>1. x \notin C /\ Open(x) /\ loc'[x] = loc[x] /\ val'[x] = val[x]
        BY <1>5 DEF Open
      <4>2. loc[x][1] \in alloc /\ loc[x][1] \in Thread /\ val[x] = Nil
        BY <4>1 DEF SafetyInv, HeapInv, Kinds, Open, TypeOK, HeapTypeOK
      <4>3. loc[x][1] \notin D
        BY <1>2, <4>2, KindsDisjoint
      <4>. QED
        BY <1>5, <4>1, <4>2, <4>3
    <3>3. x \notin alloc' => x \notin C
      BY <1>2, <3>1
    <3>4. x \notin UpVal => x \notin C
      BY <1>2
    <3>. QED
      BY <1>5, <2>2, <3>1, <3>2, <3>3, <3>4 DEF SafetyInv, HeapInv, Kinds, Neutral
  <2>. QED
    BY <2>3, <2>4
<1>. QED
  BY <1>14, <1>15

(* Every step of a program that does not call debug.setupvalue on a Lua    *)
(* function preserves the invariant.                                       *)
LEMMA ProgramSafe ==
    ASSUME TypeOK, TypeOK', SafetyInv, "debug.setupvalue" \notin Ops, Program
    PROVE  SafetyInv'
<1>1. stage = 0
  BY DEF Program, Running
<1>2. ASSUME ProgramEffect, HeapInv' PROVE SafetyInv'
  BY <1>1, <1>2, EffectInv
<1>3. CASE Control
  <2>1. CASE FinalizerError
    BY <2>1, QuietStep DEF FinalizerError
  <2>. QED
    BY <1>2, <1>3, <2>1, CloseUpvalsEffect, ResumeEffect, YieldEffect, XMoveEffect,
       FullGCSafe
    DEF Control
<1>. QED
  BY <1>2, <1>3, LoadEffect, AllocateEffect, StoreEffect DEF Program

=============================================================================
