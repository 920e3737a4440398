---------------------------- MODULE LuaGC_proofs ----------------------------
(***************************************************************************)
(* What holds of the collector of LuaGC for every heap, every set of       *)
(* stores and every size of the string table: the types of its state, and  *)
(* that no userdata is freed before its finalizer had its turn.            *)
(***************************************************************************)
EXTENDS LuaGC, SequenceTheorems, TLAPS

-----------------------------------------------------------------------------
(* The heap operations preserve the types of the heap.                     *)

USE DEF Object, PlainKey

LEMMA RunningThread ==
    ASSUME HeapTypeOK PROVE L \in Thread
BY DEF HeapTypeOK, L

LEMMA AccessibleIsObject ==
    ASSUME HeapTypeOK PROVE Accessible \subseteq Object
<1>1. L \in Thread
  BY RunningThread
<1>. QED
  BY <1>1, RootsAssumption DEF HeapTypeOK, Accessible

LEMMA UpValueType ==
    ASSUME HeapTypeOK, NEW u \in Object PROVE UpValue(u) \in Object \cup {Nil}
BY DEF HeapTypeOK, UpValue, Open

LEMMA ReadableIsObject ==
    ASSUME HeapTypeOK PROVE Readable \subseteq Object
<1>1. Accessible \subseteq Object
  BY AccessibleIsObject
<1>2. ASSUME NEW o \in Object
      PROVE  Fixtures(o) \subseteq Object
  <2>1. meta[o] \in Object \cup {Nil} /\ env[o] \in Object \cup {Nil}
    BY DEF HeapTypeOK
  <2>2. upv[o] \subseteq Object
    BY DEF HeapTypeOK
  <2>3. UpValue(o) \in Object \cup {Nil}
    BY UpValueType
  <2>4. o \in Thread => StackOf(o) \subseteq Object \cup {Nil}
    BY DEF HeapTypeOK, StackOf
  <2>5. Resumed(o) \subseteq Thread
    BY DEF HeapTypeOK, Resumed
  <2>. QED
    BY <2>1, <2>2, <2>3, <2>4, <2>5 DEF Fixtures
<1>3. ASSUME NEW o \in Object
      PROVE  KeysOf(o) \subseteq Object /\ ValuesOf(o) \subseteq Object
  BY DEF HeapTypeOK, KeysOf, ValuesOf
<1>4. ASSUME NEW o \in Object
      PROVE  {UpValue(u) : u \in upv[o] \cap UpVal} \subseteq Object \cup {Nil}
  BY UpValueType
<1>. QED
  BY <1>1, <1>2, <1>3, <1>4 DEF Readable, Refs

LEMMA HLoadType ==
    ASSUME HeapTypeOK, NEW s \in Slot, NEW v \in Object \cup {Nil}, HLoad(s, v)
    PROVE  HeapTypeOK'
BY RunningThread DEF HeapTypeOK, HLoad, Assign

LEMMA HNewType ==
    ASSUME HeapTypeOK, NEW s \in Slot, NEW o \in Object,
           NEW e \in Table \cup {Nil}, NEW c \in SUBSET Object, HNew(s, o, e, c)
    PROVE  HeapTypeOK'
BY RunningThread DEF HeapTypeOK, HNew, Assign

LEMMA HNewClosureType ==
    ASSUME HeapTypeOK, NEW s \in Slot, NEW f \in Closure, NEW u \in UpVal,
           NEW p \in Slot, HNewClosure(s, f, u, <<L, p>>)
    PROVE  HeapTypeOK'
<1>1. L \in Thread
  BY RunningThread
<1>2. stack' \in [Thread -> [Slot -> Object \cup {Nil}]]
  BY <1>1 DEF HeapTypeOK, HNewClosure, Assign
<1>3. loc' \in [Object -> (Thread \X Slot) \cup {Nil}]
  BY <1>1 DEF HeapTypeOK, HNewClosure
<1>4. env' \in [Object -> Table \cup {Nil}] /\ upv' \in [Object -> SUBSET Object]
  BY <1>1 DEF HeapTypeOK, HNewClosure
<1>. QED
  BY <1>2, <1>3, <1>4 DEF HeapTypeOK, HNewClosure

LEMMA HSetTableType ==
    ASSUME HeapTypeOK, NEW t \in Object, NEW k \in Object \cup PlainKey,
           NEW v \in Object \cup {Nil}, HSetTable(t, k, v)
    PROVE  HeapTypeOK'
<1>1. entries' \in [Object -> SUBSET ((Object \cup PlainKey) \X Object)]
  <2>1. {e \in entries[t] : e[1] # k} \in SUBSET ((Object \cup PlainKey) \X Object)
    BY DEF HeapTypeOK
  <2>2. (IF v = Nil THEN {} ELSE {<<k, v>>})
          \in SUBSET ((Object \cup PlainKey) \X Object)
    OBVIOUS
  <2>. QED
    BY <2>1, <2>2 DEF HeapTypeOK, HSetTable
<1>. QED
  BY <1>1 DEF HeapTypeOK, HSetTable

LEMMA HSetFieldType ==
    ASSUME HeapTypeOK, NEW o \in Object, NEW m \in Table \cup {Nil}
    PROVE  /\ HSetMetatable(o, m) => HeapTypeOK'
           /\ HSetFenv(o, m) => HeapTypeOK'
<1>1. ASSUME HSetMetatable(o, m) PROVE HeapTypeOK'
  BY <1>1 DEF HeapTypeOK, HSetMetatable
<1>2. ASSUME HSetFenv(o, m) PROVE HeapTypeOK'
  BY <1>2 DEF HeapTypeOK, HSetFenv
<1>. QED
  BY <1>1, <1>2

LEMMA HSetMetafieldsType ==
    ASSUME HeapTypeOK, NEW m \in Object, NEW fields \in Metafields,
           HSetMetafields(m, fields)
    PROVE  HeapTypeOK'
BY BoundsAssumption DEF HeapTypeOK, HSetMetafields

LEMMA HSetBasicMetatableType ==
    ASSUME HeapTypeOK, NEW b \in BasicType, NEW m \in Table \cup {Nil},
           HSetBasicMetatable(b, m)
    PROVE  HeapTypeOK'
BY DEF HeapTypeOK, HSetBasicMetatable

LEMMA HSetCaptureType ==
    ASSUME HeapTypeOK, NEW f \in Object, NEW v \in Object \cup {Nil},
           HSetCapture(f, v)
    PROVE  HeapTypeOK'
BY DEF HeapTypeOK, HSetCapture

LEMMA HSetUpvalType ==
    ASSUME HeapTypeOK, NEW u \in Object, NEW v \in Object \cup {Nil},
           HSetUpval(u, v)
    PROVE  HeapTypeOK'
<1>1. CASE Open(u)
  <2>1. loc[u][1] \in Thread /\ loc[u][2] \in Slot
    BY <1>1 DEF HeapTypeOK, Open
  <2>2. /\ stack \in [Thread -> [Slot -> Object \cup {Nil}]]
        /\ stack' = [stack EXCEPT ![loc[u][1]][loc[u][2]] = v]
    BY <1>1 DEF HeapTypeOK, HSetUpval
  <2>3. stack' \in [Thread -> [Slot -> Object \cup {Nil}]]
    BY <2>1, <2>2
  <2>. QED
    BY <1>1, <2>3 DEF HeapTypeOK, HSetUpval
<1>2. CASE ~Open(u)
  BY <1>2 DEF HeapTypeOK, HSetUpval
<1>. QED
  BY <1>1, <1>2

LEMMA HCloseUpvalsType ==
    ASSUME HeapTypeOK, NEW s \in Slot, NEW D, HCloseUpvals(s, D)
    PROVE  HeapTypeOK'
<1>1. loc' \in [Object -> (Thread \X Slot) \cup {Nil}]
  BY DEF HeapTypeOK, HCloseUpvals
<1>2. val' \in [Object -> Object \cup {Nil}]
  BY UpValueType DEF HeapTypeOK, HCloseUpvals
<1>3. alloc' \subseteq Object
  BY DEF HeapTypeOK, HCloseUpvals
<1>. QED
  BY <1>1, <1>2, <1>3 DEF HeapTypeOK, HCloseUpvals

LEMMA HXMoveType ==
    ASSUME HeapTypeOK, NEW th \in Thread, NEW s \in Slot,
           NEW v \in Object \cup {Nil}, HXMove(th, s, v)
    PROVE  HeapTypeOK'
BY DEF HeapTypeOK, HXMove

LEMMA HResumeType ==
    ASSUME HeapTypeOK, NEW th \in Thread, HResume(th) PROVE HeapTypeOK'
BY DEF HeapTypeOK, HResume

LEMMA HYieldType ==
    ASSUME HeapTypeOK, Len(co) > 1, HYield PROVE HeapTypeOK'
<1>1. co \in Seq(Thread) /\ co' = SubSeq(co, 1, Len(co) - 1)
  BY DEF HeapTypeOK, HYield
<1>2. co' \in Seq(Thread) /\ Len(co') = Len(co) - 1
  BY <1>1, SubSeqProperties
<1>3. co' # <<>>
  BY <1>2
<1>. QED
  BY <1>2, <1>3 DEF HeapTypeOK, HYield

LEMMA HFreeType ==
    ASSUME HeapTypeOK, NEW D, HFree(D) PROVE HeapTypeOK'
<1>1. val' \in [Object -> Object \cup {Nil}]
  BY UpValueType DEF HeapTypeOK, HFree
<1>2. loc' \in [Object -> (Thread \X Slot) \cup {Nil}]
  BY DEF HeapTypeOK, HFree
<1>3. stack' \in [Thread -> [Slot -> Object \cup {Nil}]]
  BY DEF HeapTypeOK, HFree
<1>4. /\ meta' \in [Object -> Table \cup {Nil}]
      /\ env' \in [Object -> Table \cup {Nil}]
  BY DEF HeapTypeOK, HFree
<1>5. /\ entries' \in [Object -> SUBSET ((Object \cup PlainKey) \X Object)]
      /\ tm' \in [Object -> SUBSET {"k", "v", "gc"}]
      /\ upv' \in [Object -> SUBSET Object]
  BY DEF HeapTypeOK, HFree
<1>6. /\ alloc' \subseteq Object
      /\ finalized' \subseteq Udata
      /\ called' \subseteq Udata
      /\ UNCHANGED <<basicmt, co, tmudata>>
  BY DEF HeapTypeOK, HFree
<1>. QED
  BY <1>1, <1>2, <1>3, <1>4, <1>5, <1>6 DEF HeapTypeOK

LEMMA HSeparateType ==
    ASSUME HeapTypeOK, NEW S \in SUBSET Udata, HSeparate(S) PROVE HeapTypeOK'
BY DEF HeapTypeOK, HSeparate

LEMMA HCallGCType ==
    ASSUME HeapTypeOK, NEW u \in Udata, NEW s \in Slot, HCallGC(u, s)
    PROVE  HeapTypeOK'
<1>1. stack' \in [Thread -> [Slot -> Object \cup {Nil}]]
  <2>1. L \in Thread /\ stack \in [Thread -> [Slot -> Object \cup {Nil}]]
    BY RunningThread DEF HeapTypeOK
  <2>2. stack' = [stack EXCEPT ![L][s] = u] \/ stack' = stack
    BY Zenon DEF HCallGC, Assign
  <2>. QED
    BY <2>1, <2>2
<1>2. called' \subseteq Udata /\ tmudata' \subseteq Udata
  BY DEF HeapTypeOK, HCallGC
<1>. QED
  BY <1>1, <1>2 DEF HeapTypeOK, HCallGC

-----------------------------------------------------------------------------
(* Type correctness of the collector.                                      *)

LEMMA PaintedType ==
    ASSUME GCTypeOK, NEW W PROVE Painted(W) \in [Object -> Colour]
BY DEF GCTypeOK, Painted, Colour

LEMMA MakeWhiteType ==
    ASSUME GCTypeOK, NEW o \in Object PROVE MakeWhite(o) \in [Object -> Colour]
BY DEF GCTypeOK, MakeWhite, Colour

LEMMA ListedIsObject == Listed \subseteq Object
BY DEF Listed

LEMMA BarrierForwardType ==
    ASSUME GCTypeOK, NEW o \in Object, NEW v, BarrierForward(o, v)
    PROVE  mark' \in [Object -> Colour] /\ gray' \subseteq Object
<1>1. CASE v # Nil /\ mark[o] = "black" /\ IsWhite(v) /\ gcstate = "propagate"
  <2>1. PICK W : mark' = Painted(W) /\ gray' = gray \cup (W \cap Listed)
    BY <1>1, Zenon DEF BarrierForward
  <2>. QED
    BY <2>1, PaintedType, ListedIsObject DEF GCTypeOK
<1>2. CASE v # Nil /\ mark[o] = "black" /\ IsWhite(v) /\ gcstate # "propagate"
  <2>1. mark' = MakeWhite(o) /\ gray' = gray
    BY <1>2, Zenon DEF BarrierForward
  <2>. QED
    BY <2>1, MakeWhiteType DEF GCTypeOK
<1>3. CASE ~(v # Nil /\ mark[o] = "black" /\ IsWhite(v))
  <2>1. mark' = mark /\ gray' = gray
    BY <1>3, Zenon DEF BarrierForward
  <2>. QED
    BY <2>1 DEF GCTypeOK
<1>. QED
  BY <1>1, <1>2, <1>3

LEMMA BarrierBackType ==
    ASSUME GCTypeOK, NEW t \in Object, NEW S, BarrierBack(t, S)
    PROVE  mark' \in [Object -> Colour] /\ grayagain' \subseteq Object
BY DEF GCTypeOK, BarrierBack, Colour

LEMMA SweepType ==
    ASSUME TypeOK, NEW S, Sweep(S)
    PROVE  HeapTypeOK' /\ mark' \in [Object -> Colour]
<1>1. HeapTypeOK'
  BY HFreeType DEF TypeOK, Sweep
<1>2. mark' \in [Object -> Colour]
  BY DEF TypeOK, GCTypeOK, Sweep, Colour
<1>. QED
  BY <1>1, <1>2

LEMMA TypeInit == Init => TypeOK
<1>1. HeapInit => HeapTypeOK
  <2>1. MainThread \in Object /\ Registry \in Object /\ Globals \in Object
    BY RootsAssumption
  <2>2. <<MainThread>> \in Seq(Thread) /\ <<MainThread>> # <<>>
    BY RootsAssumption
  <2>. QED
    BY <2>1, <2>2, RootsAssumption DEF HeapInit, HeapTypeOK
<1>2. GCInit => GCTypeOK
  BY StringTableAssumption
  DEF GCInit, GCTypeOK, Colour, Whites, GCState, FullGC
<1>. QED
  BY <1>1, <1>2 DEF Init, TypeOK

LEMMA LinkType ==
    ASSUME TypeOK, NEW s \in Slot, NEW o \in Object, NEW e \in Table \cup {Nil},
           NEW c \in SUBSET Object, HNew(s, o, e, c), Link(o)
    PROVE  TypeOK'
<1>1. HeapTypeOK'
  BY HNewType DEF TypeOK
<1>2. mark' \in [Object -> Colour]
  BY MakeWhiteType DEF TypeOK, Link
<1>. QED
  BY <1>1, <1>2 DEF TypeOK, GCTypeOK, Link

LEMMA AllocateType == ASSUME TypeOK, Allocate PROVE TypeOK'
<1>. PICK s \in Slot :
       \/ \E t \in Table : NewTable(s, t)
       \/ \E u \in Udata : NewUdata(s, u)
       \/ \E th \in Thread : NewThread(s, th)
       \/ \E f \in NativeClosure, v \in Accessible : PushCClosure(s, f, v)
       \/ \E str \in Str : NewString(s, str)
       \/ \E f \in Closure, u \in UpVal, p \in Slot : NewClosure(s, f, u, p)
  BY DEF Allocate
<1>1. L \in Thread /\ env[L] \in Table \cup {Nil}
  BY RunningThread DEF TypeOK, HeapTypeOK
<1>2. CASE \E t \in Table : NewTable(s, t)
  BY <1>2, LinkType DEF NewTable
<1>3. CASE \E u \in Udata : NewUdata(s, u)
  BY <1>1, <1>3, LinkType DEF NewUdata
<1>4. CASE \E th \in Thread : NewThread(s, th)
  BY <1>1, <1>4, LinkType DEF NewThread
<1>5. CASE \E f \in NativeClosure, v \in Accessible : PushCClosure(s, f, v)
  <2>1. PICK f \in NativeClosure, v \in Accessible : PushCClosure(s, f, v)
    BY <1>5
  <2>2. f \in Object /\ {v} \in SUBSET Object
    BY RootsAssumption, AccessibleIsObject DEF TypeOK
  <2>. QED
    BY <1>1, <2>1, <2>2, LinkType DEF PushCClosure
<1>6. CASE \E str \in Str : NewString(s, str)
  <2>1. PICK str \in Str : NewString(s, str)
    BY <1>6
  <2>2. CASE str \notin alloc
    BY <2>1, <2>2, LinkType DEF NewString
  <2>3. CASE str \in alloc
    <3>1. HeapTypeOK'
      BY <2>1, <2>3, HLoadType DEF NewString, TypeOK
    <3>2. mark' \in [Object -> Colour]
      BY <2>1, <2>3, MakeWhiteType DEF NewString, Resurrected, TypeOK, GCTypeOK
    <3>. QED
      BY <2>1, <2>3, <3>1, <3>2 DEF NewString, TypeOK, GCTypeOK
  <2>. QED
    BY <2>2, <2>3
<1>7. CASE \E f \in Closure, u \in UpVal, p \in Slot : NewClosure(s, f, u, p)
  <2>1. PICK f \in Closure, u \in UpVal, p \in Slot : NewClosure(s, f, u, p)
    BY <1>7
  <2>2. HeapTypeOK'
    BY <2>1, HNewClosureType DEF NewClosure, TypeOK
  <2>3. mark' \in [Object -> Colour]
    BY <2>1 DEF NewClosure, TypeOK, GCTypeOK, Colour
  <2>. QED
    BY <2>1, <2>2, <2>3 DEF NewClosure, TypeOK, GCTypeOK
<1>. QED
  BY <1>2, <1>3, <1>4, <1>5, <1>6, <1>7

LEMMA StoreType == ASSUME TypeOK, Store PROVE TypeOK'
<1>1. Accessible \subseteq Object
  BY AccessibleIsObject DEF TypeOK
<1>2. ASSUME NEW t \in Object, NEW k, NEW v \in Object \cup {Nil},
             SetTable(t, k, v)
      PROVE  TypeOK'
  <2>1. HeapTypeOK'
    BY <1>2, HSetTableType DEF SetTable, TypeOK
  <2>2. mark' \in [Object -> Colour] /\ grayagain' \subseteq Object
    BY <1>2, BarrierBackType, Zenon DEF SetTable, TypeOK
  <2>. QED
    BY <1>2, <2>1, <2>2 DEF SetTable, TypeOK, GCTypeOK
<1>3. ASSUME NEW m \in Object, NEW fields \in Metafields, SetMetafields(m, fields)
      PROVE  TypeOK'
  <2>1. HeapTypeOK'
    BY <1>3, HSetMetafieldsType DEF SetMetafields, TypeOK
  <2>2. mark' \in [Object -> Colour] /\ grayagain' \subseteq Object
    BY <1>3 DEF SetMetafields, TypeOK, GCTypeOK, Colour
  <2>. QED
    BY <1>3, <2>1, <2>2 DEF SetMetafields, TypeOK, GCTypeOK
<1>4. ASSUME NEW t \in Object, NEW m, SetMetatable(t, m)
      PROVE  TypeOK'
  <2>1. HeapTypeOK'
    BY <1>4, HSetFieldType DEF SetMetatable, TypeOK
  <2>2. mark' \in [Object -> Colour] /\ grayagain' \subseteq Object
    BY <1>4, BarrierBackType, Zenon DEF SetMetatable, TypeOK
  <2>. QED
    BY <1>4, <2>1, <2>2 DEF SetMetatable, TypeOK, GCTypeOK
<1>5. ASSUME NEW u \in Object, NEW m, SetUdataMetatable(u, m)
      PROVE  TypeOK'
  <2>1. HeapTypeOK'
    BY <1>5, HSetFieldType DEF SetUdataMetatable, TypeOK
  <2>2. mark' \in [Object -> Colour] /\ gray' \subseteq Object
    BY <1>5, BarrierForwardType, Zenon DEF SetUdataMetatable, TypeOK
  <2>. QED
    BY <1>5, <2>1, <2>2 DEF SetUdataMetatable, TypeOK, GCTypeOK
<1>6. ASSUME NEW b \in BasicType, NEW m, SetBasicMetatable(b, m)
      PROVE  TypeOK'
  BY <1>6, HSetBasicMetatableType
  DEF SetBasicMetatable, TypeOK, GCTypeOK, gcVars
<1>7. ASSUME NEW o \in Object, NEW e, SetFenv(o, e)
      PROVE  TypeOK'
  <2>1. HeapTypeOK'
    BY <1>7, HSetFieldType DEF SetFenv, TypeOK
  <2>2. mark' \in [Object -> Colour] /\ gray' \subseteq Object
    BY <1>7, BarrierForwardType, Zenon DEF SetFenv, TypeOK
  <2>. QED
    BY <1>7, <2>1, <2>2 DEF SetFenv, TypeOK, GCTypeOK
<1>8. ASSUME NEW f \in Object, NEW v \in Object \cup {Nil}, SetCapture(f, v)
      PROVE  TypeOK'
  <2>1. HeapTypeOK'
    BY <1>8, HSetCaptureType DEF SetCapture, TypeOK
  <2>2. mark' \in [Object -> Colour] /\ gray' \subseteq Object
    BY <1>8, BarrierForwardType, Zenon DEF SetCapture, TypeOK
  <2>. QED
    BY <1>8, <2>1, <2>2 DEF SetCapture, TypeOK, GCTypeOK
<1>9. ASSUME NEW f \in Object, NEW u \in Object, NEW v \in Object \cup {Nil},
             SetUpval(f, u, v) \/ DebugSetUpvalue(f, u, v)
      PROVE  TypeOK'
  <2>1. HeapTypeOK'
    BY <1>9, HSetUpvalType DEF SetUpval, DebugSetUpvalue, TypeOK
  <2>2. mark' \in [Object -> Colour] /\ gray' \subseteq Object
    BY <1>9, BarrierForwardType, Zenon DEF SetUpval, DebugSetUpvalue, TypeOK
  <2>. QED
    BY <1>9, <2>1, <2>2 DEF SetUpval, DebugSetUpvalue, TypeOK, GCTypeOK
<1>10. \A f \in Object : upv[f] \subseteq Object
  BY DEF TypeOK, HeapTypeOK
<1>. QED
  BY <1>1, <1>2, <1>3, <1>4, <1>5, <1>6, <1>7, <1>8, <1>9, <1>10 DEF Store

LEMMA ControlType == ASSUME TypeOK, Control PROVE TypeOK'
<1>1. ASSUME NEW s \in Slot, CloseUpvals(s) PROVE TypeOK'
  <2>1. HeapTypeOK'
    BY <1>1, HCloseUpvalsType DEF CloseUpvals, TypeOK
  <2>. DEFINE C == OpenAbove(L, s)
              D == {u \in C : IsDead(u)}
              G == {u \in C : mark[u] = "gray"}
              W == IF gcstate = "propagate" THEN ClosingMarks(G) ELSE {}
  <2>2. /\ mark' = [o \in Object |->
                      IF o \in D THEN "none"
                      ELSE IF o \notin G THEN Painted(W)[o]
                      ELSE IF gcstate = "propagate" THEN "black"
                      ELSE currentwhite]
        /\ gray' = gray \cup (W \cap Listed)
    BY <1>1 DEF CloseUpvals
  <2>. HIDE DEF C, D, G, W
  <2>3. Painted(W) \in [Object -> Colour]
    BY PaintedType DEF TypeOK
  <2>4. mark' \in [Object -> Colour]
    BY <2>2, <2>3 DEF TypeOK, GCTypeOK, Colour
  <2>5. gray' \subseteq Object
    BY <2>2, ListedIsObject DEF TypeOK, GCTypeOK
  <2>. QED
    BY <1>1, <2>1, <2>4, <2>5 DEF CloseUpvals, TypeOK, GCTypeOK
<1>2. ASSUME NEW th, Resume(th) PROVE TypeOK'
  BY <1>2, HResumeType DEF Resume, TypeOK, GCTypeOK, gcVars
<1>3. ASSUME Yield PROVE TypeOK'
  BY <1>3, HYieldType DEF Yield, TypeOK, GCTypeOK, gcVars
<1>4. ASSUME NEW th, NEW s \in Slot, NEW v \in Accessible, XMove(th, s, v)
      PROVE  TypeOK'
  BY <1>4, HXMoveType, AccessibleIsObject
  DEF XMove, TypeOK, GCTypeOK, gcVars
<1>5. ASSUME StartFullGC PROVE TypeOK'
  <2>1. HeapTypeOK'
    BY <1>5 DEF StartFullGC, heapVars, TypeOK, HeapTypeOK
  <2>2. /\ gcstate' \in GCState
        /\ gray' \subseteq Object /\ grayagain' \subseteq Object
        /\ weak' \subseteq Object
        /\ sweepgc' \subseteq Object
        /\ sweepstrgc' \in 0 .. NBucket
    <3>1. CASE gcstate \in {"pause", "propagate"}
      BY <1>5, <3>1, StringTableAssumption
      DEF StartFullGC, TypeOK, GCTypeOK, HeapTypeOK, GCState
    <3>2. CASE gcstate \notin {"pause", "propagate"}
      BY <1>5, <3>2 DEF StartFullGC, TypeOK, GCTypeOK
    <3>. QED
      BY <3>1, <3>2
  <2>3. fullgc' \in FullGC /\ UNCHANGED <<mark, currentwhite, stage>>
    BY <1>5 DEF StartFullGC, FullGC
  <2>. QED
    BY <2>1, <2>2, <2>3 DEF TypeOK, GCTypeOK
<1>6. ASSUME FinalizerError PROVE TypeOK'
  BY <1>6 DEF FinalizerError, heapVars, TypeOK, HeapTypeOK, GCTypeOK, FullGC
<1>. QED
  BY <1>1, <1>2, <1>3, <1>4, <1>5, <1>6 DEF Control

(* A step of the collector that only marks.                                *)
LEMMA MarkingType ==
    ASSUME TypeOK, NEW W, mark' = Painted(W), gray' = W \cap Listed
    PROVE  mark' \in [Object -> Colour] /\ gray' \subseteq Object
BY PaintedType, ListedIsObject DEF TypeOK

LEMMA MarkPhaseType ==
    ASSUME TypeOK,
           \/ MarkRoot
           \/ \E o \in gray : PropagateMark(o)
           \/ RemarkUpvals \/ RemarkWeak \/ RemarkGrayAgain
           \/ SeparateUdata
    PROVE  TypeOK'
<1>1. CASE MarkRoot
  <2>1. mark' \in [Object -> Colour] /\ gray' \subseteq Object
    BY <1>1, MarkingType, Zenon DEF MarkRoot
  <2>2. HeapTypeOK'
    BY <1>1 DEF MarkRoot, heapVars, TypeOK, HeapTypeOK
  <2>. QED
    BY <1>1, <2>1, <2>2 DEF MarkRoot, TypeOK, GCTypeOK, GCState, FullGC
<1>2. ASSUME NEW o \in gray, PropagateMark(o) PROVE TypeOK'
  <2>1. PICK W :
          /\ mark' = [Painted(W) EXCEPT ![o] =
                        IF o \in Thread \/ IsWeak(o) THEN "gray" ELSE "black"]
          /\ gray' = (gray \ {o}) \cup (W \cap Listed)
    BY <1>2, Zenon DEF PropagateMark
  <2>2. mark' \in [Object -> Colour]
    BY <2>1, PaintedType DEF TypeOK, Colour
  <2>3. gray' \subseteq Object
    BY <2>1, ListedIsObject DEF TypeOK, GCTypeOK
  <2>4. HeapTypeOK'
    BY <1>2 DEF PropagateMark, heapVars, TypeOK, HeapTypeOK
  <2>. QED
    BY <1>2, <2>2, <2>3, <2>4 DEF PropagateMark, TypeOK, GCTypeOK
<1>3. CASE RemarkUpvals
  <2>1. mark' \in [Object -> Colour] /\ gray' \subseteq Object
    BY <1>3, MarkingType, Zenon DEF RemarkUpvals
  <2>2. HeapTypeOK'
    BY <1>3 DEF RemarkUpvals, heapVars, TypeOK, HeapTypeOK
  <2>. QED
    BY <1>3, <2>1, <2>2 DEF RemarkUpvals, AtomicStage, TypeOK, GCTypeOK
<1>4. CASE RemarkWeak
  <2>1. PICK W : mark' = Painted(W) /\ gray' = weak \cup (W \cap Listed)
    BY <1>4, Zenon DEF RemarkWeak
  <2>2. mark' \in [Object -> Colour] /\ gray' \subseteq Object
    BY <2>1, PaintedType, ListedIsObject DEF TypeOK, GCTypeOK
  <2>3. HeapTypeOK'
    BY <1>4 DEF RemarkWeak, heapVars, TypeOK, HeapTypeOK
  <2>4. /\ weak' = {} /\ stage' = 2
        /\ UNCHANGED <<currentwhite, gcstate, grayagain, sweepgc, sweepstrgc,
                       fullgc>>
    BY <1>4 DEF RemarkWeak, AtomicStage
  <2>. QED
    BY <2>2, <2>3, <2>4 DEF TypeOK, GCTypeOK
<1>5. CASE RemarkGrayAgain
  BY <1>5 DEF RemarkGrayAgain, AtomicStage, heapVars, TypeOK, HeapTypeOK, GCTypeOK
<1>6. CASE SeparateUdata
  <2>1. HeapTypeOK'
    <3>1. ToSeparate \in SUBSET Udata
      BY DEF ToSeparate, White
    <3>. QED
      BY <1>6, <3>1, HSeparateType DEF SeparateUdata, TypeOK
  <2>2. mark' \in [Object -> Colour] /\ gray' \subseteq Object
    BY <1>6, MarkingType DEF SeparateUdata
  <2>. QED
    BY <1>6, <2>1, <2>2 DEF SeparateUdata, AtomicStage, TypeOK, GCTypeOK
<1>. QED
  BY <1>1, <1>2, <1>3, <1>4, <1>5, <1>6

(* Between two steps of the sweep-string phase the next bucket exists.     *)
BucketInRange == gcstate = "sweepstring" => sweepstrgc < NBucket

LEMMA SweepPhaseType ==
    ASSUME TypeOK, BucketInRange,
           \/ ClearWeakAndFlip
           \/ SweepString
           \/ \E o \in sweepgc : SweepObject(o)
           \/ \E u \in tmudata, s \in Slot : CallGCTM(u, s)
           \/ EndCycle
    PROVE  TypeOK'
<1>1. CASE ClearWeakAndFlip
  <2>1. entries' \in [Object -> SUBSET ((Object \cup PlainKey) \X Object)]
    BY <1>1 DEF ClearWeakAndFlip, TypeOK, HeapTypeOK
  <2>2. HeapTypeOK'
    BY <1>1, <2>1 DEF ClearWeakAndFlip, TypeOK, HeapTypeOK
  <2>3. mark' \in [Object -> Colour]
    BY <1>1 DEF ClearWeakAndFlip, TypeOK, GCTypeOK, Colour
  <2>4. sweepgc' \subseteq Object
    BY <1>1 DEF ClearWeakAndFlip, TypeOK, HeapTypeOK
  <2>5. currentwhite' \in Whites /\ sweepstrgc' \in 0 .. NBucket
    BY <1>1, StringTableAssumption DEF ClearWeakAndFlip, otherwhite, Whites
  <2>. QED
    BY <1>1, <2>2, <2>3, <2>4, <2>5
    DEF ClearWeakAndFlip, TypeOK, GCTypeOK, GCState
<1>2. CASE SweepString
  <2>1. HeapTypeOK' /\ mark' \in [Object -> Colour]
    BY <1>2, SweepType DEF SweepString
  <2>2. sweepstrgc' \in 0 .. NBucket
    BY <1>2, StringTableAssumption DEF SweepString, BucketInRange, TypeOK, GCTypeOK
  <2>. QED
    BY <1>2, <2>1, <2>2 DEF SweepString, TypeOK, GCTypeOK, GCState
<1>3. ASSUME NEW o \in sweepgc, SweepObject(o) PROVE TypeOK'
  <2>1. HeapTypeOK' /\ mark' \in [Object -> Colour]
    BY <1>3, SweepType DEF SweepObject
  <2>. QED
    BY <1>3, <2>1 DEF SweepObject, TypeOK, GCTypeOK, GCState
<1>4. ASSUME NEW u \in tmudata, NEW s \in Slot, CallGCTM(u, s) PROVE TypeOK'
  <2>1. u \in Udata
    BY DEF TypeOK, HeapTypeOK
  <2>2. HeapTypeOK'
    BY <1>4, <2>1, HCallGCType DEF CallGCTM, TypeOK
  <2>3. mark' \in [Object -> Colour]
    BY <1>4, <2>1, MakeWhiteType DEF CallGCTM, TypeOK
  <2>4. fullgc' \in FullGC
    BY <1>4 DEF CallGCTM, TypeOK, GCTypeOK, FullGC
  <2>. QED
    BY <1>4, <2>2, <2>3, <2>4 DEF CallGCTM, TypeOK, GCTypeOK
<1>5. CASE EndCycle
  BY <1>5 DEF EndCycle, heapVars, TypeOK, HeapTypeOK, GCTypeOK, GCState, FullGC
<1>. QED
  BY <1>1, <1>2, <1>3, <1>4, <1>5

(* Only luaC_fullgc lets a step of the program change the phase.           *)
LEMMA ProgramFrame ==
    ASSUME Program
    PROVE  \/ UNCHANGED <<currentwhite, gcstate, stage, weak, sweepgc, sweepstrgc>>
           \/ StartFullGC
<1>1. ASSUME Allocate
      PROVE  UNCHANGED <<currentwhite, gcstate, stage, weak, sweepgc, sweepstrgc>>
  BY <1>1
  DEF Allocate, NewTable, NewUdata, NewThread, PushCClosure, NewString,
      NewClosure, Link
<1>2. ASSUME Store
      PROVE  UNCHANGED <<currentwhite, gcstate, stage, weak, sweepgc, sweepstrgc>>
  BY <1>2
  DEF Store, SetTable, SetMetafields, SetMetatable, SetUdataMetatable,
      SetBasicMetatable, SetFenv, SetCapture, SetUpval, DebugSetUpvalue, gcVars
<1>3. ASSUME Control, ~StartFullGC
      PROVE  UNCHANGED <<currentwhite, gcstate, stage, weak, sweepgc, sweepstrgc>>
  BY <1>3
  DEF Control, CloseUpvals, Resume, Yield, XMove, FinalizerError, gcVars
<1>. QED
  BY <1>1, <1>2, <1>3 DEF Program, Load, gcVars

LEMMA BucketStep ==
    ASSUME TypeOK, BucketInRange, [Next]_vars PROVE BucketInRange'
<1>1. CASE Program
  BY <1>1, ProgramFrame, StringTableAssumption DEF StartFullGC, BucketInRange
<1>2. CASE MarkRoot \/ (\E o \in gray : PropagateMark(o))
  BY <1>2 DEF MarkRoot, PropagateMark, BucketInRange
<1>3. CASE RemarkUpvals \/ RemarkWeak \/ RemarkGrayAgain \/ SeparateUdata
  BY <1>3
  DEF RemarkUpvals, RemarkWeak, RemarkGrayAgain, SeparateUdata, AtomicStage,
      BucketInRange
<1>4. CASE ClearWeakAndFlip
  BY <1>4, StringTableAssumption DEF ClearWeakAndFlip, BucketInRange
<1>5. CASE SweepString
  BY <1>5, StringTableAssumption
  DEF SweepString, LastBucket, BucketInRange, TypeOK, GCTypeOK
<1>6. CASE \/ \E o \in sweepgc : SweepObject(o)
           \/ \E u \in tmudata, s \in Slot : CallGCTM(u, s)
           \/ EndCycle
  BY <1>6 DEF SweepObject, CallGCTM, EndCycle, BucketInRange
<1>7. CASE UNCHANGED vars
  BY <1>7 DEF vars, gcVars, BucketInRange
<1>. QED
  BY <1>1, <1>2, <1>3, <1>4, <1>5, <1>6, <1>7 DEF Next, Collector

LEMMA TypeStep ==
    ASSUME TypeOK, BucketInRange, [Next]_vars PROVE TypeOK'
<1>1. CASE Program
  <2>1. ASSUME NEW s \in Slot, NEW v \in Readable \cup {Nil}, Load(s, v)
        PROVE  TypeOK'
    BY <2>1, HLoadType, ReadableIsObject
    DEF Load, TypeOK, GCTypeOK, gcVars
  <2>. QED
    BY <1>1, <2>1, AllocateType, StoreType, ControlType DEF Program
<1>2. CASE Collector
  BY <1>2, MarkPhaseType, SweepPhaseType DEF Collector
<1>3. CASE UNCHANGED vars
  BY <1>3 DEF vars, heapVars, gcVars, TypeOK, HeapTypeOK, GCTypeOK
<1>. QED
  BY <1>1, <1>2, <1>3 DEF Next

(* Type correctness: what lapi.c, lvm.c and lgc.c do to the heap and to    *)
(* the collector's own fields keeps every field within its range; a bucket *)
(* counter never runs past the string table, a thread's stack only ever    *)
(* holds values, and the chain of running coroutines is never empty.       *)
THEOREM TypeCorrect == Spec => []TypeOK
<1>1. Init => TypeOK /\ BucketInRange
  BY TypeInit DEF Init, GCInit, BucketInRange
<1>2. TypeOK /\ BucketInRange /\ [Next]_vars => (TypeOK /\ BucketInRange)'
  BY TypeStep, BucketStep
<1>. QED
  BY <1>1, <1>2, PTL DEF Spec

-----------------------------------------------------------------------------
(* A userdata is not freed before separateudata has looked at it, nor      *)
(* while its finalizer is due: for every heap, every interleaving of the   *)
(* program with the collector and every set of stores.                     *)

Sweeping == gcstate \in {"sweepstring", "sweep"}

(* A userdata that is not allocated has no colour, and one that waits for  *)
(* its finalizer is allocated: the lists and `marked' agree.               *)
UdataAllocated ==
    /\ \A u \in Udata : loc[u] = Nil /\ (u \notin alloc => mark[u] = "none")
    /\ tmudata \subseteq alloc

(* Once marktmu has run, a userdata that is still white was separated in   *)
(* an earlier cycle and its finalizer is not due any more.                 *)
Separated ==
    /\ stage # 0 => gcstate = "propagate"
    /\ stage = 4 => \A u \in Udata : IsWhite(u) => u \in finalized \ tmudata

(* Dead userdata exist during the sweep only, in the part of rootgc that   *)
(* has not been visited, and all of them have FINALIZEDBIT.                *)
DeadFinalized ==
    /\ Sweeping => sweepgc \cap Udata \subseteq alloc \ tmudata
    /\ \A u \in Udata : IsDead(u) => Sweeping /\ u \in sweepgc \cap finalized

(* No userdata waits in a gclist: propagatemark never meets one.           *)
ListedOnly == gray \cup grayagain \cup weak \subseteq Listed

FinalizerInv == UdataAllocated /\ Separated /\ DeadFinalized

-----------------------------------------------------------------------------
(* The gclists.                                                            *)

LEMMA ProgramLists == ASSUME ListedOnly, Program PROVE ListedOnly'
<1>1. ASSUME NEW o, NEW v, BarrierForward(o, v) PROVE gray' \ gray \subseteq Listed
  BY <1>1 DEF BarrierForward
<1>2. ASSUME NEW t \in Table, NEW S, BarrierBack(t, S)
      PROVE  grayagain' \ grayagain \subseteq Listed
  BY <1>2 DEF BarrierBack, Listed
<1>3. ASSUME Allocate PROVE UNCHANGED <<gray, grayagain>>
  BY <1>3
  DEF Allocate, NewTable, NewUdata, NewThread, PushCClosure, NewString,
      NewClosure, Link
<1>4. ASSUME Store
      PROVE  gray' \ gray \subseteq Listed /\ grayagain' \ grayagain \subseteq Listed
  <2>1. ASSUME NEW t, NEW k, NEW v, SetTable(t, k, v) \/ SetMetatable(t, v)
        PROVE  gray' = gray /\ grayagain' \ grayagain \subseteq Listed
    <3>1. (\E S : BarrierBack(t, S)) /\ t \in Table /\ gray' = gray
      BY <2>1, Zenon DEF SetTable, SetMetatable
    <3>. QED
      BY <1>2, <3>1
  <2>2. ASSUME NEW m, NEW fields, SetMetafields(m, fields)
        PROVE  gray' = gray /\ grayagain' \ grayagain \subseteq Listed
    BY <2>2 DEF SetMetafields, Listed
  <2>3. ASSUME NEW o, NEW u, NEW v,
               \/ SetUdataMetatable(o, v) \/ SetFenv(o, v) \/ SetCapture(o, v)
               \/ SetUpval(o, u, v) \/ DebugSetUpvalue(o, u, v)
        PROVE  gray' \ gray \subseteq Listed /\ grayagain' = grayagain
    <3>1. (\E x : BarrierForward(x, v)) /\ grayagain' = grayagain
      BY <2>3, Zenon
      DEF SetUdataMetatable, SetFenv, SetCapture, SetUpval, DebugSetUpvalue
    <3>. QED
      BY <1>1, <3>1
  <2>4. ASSUME NEW b, NEW m, SetBasicMetatable(b, m)
        PROVE  UNCHANGED <<gray, grayagain>>
    BY <2>4 DEF SetBasicMetatable, gcVars
  <2>. QED
    BY <1>4, <2>1, <2>2, <2>3, <2>4 DEF Store
<1>5. ASSUME Control
      PROVE  gray' \ gray \subseteq Listed /\ grayagain' \ grayagain \subseteq Listed
  BY <1>5
  DEF Control, CloseUpvals, Resume, Yield, XMove, StartFullGC, FinalizerError,
      gcVars
<1>6. weak' \subseteq weak
  BY ProgramFrame DEF StartFullGC
<1>. QED
  BY <1>3, <1>4, <1>5, <1>6 DEF Program, Load, gcVars, ListedOnly

LEMMA ListsStep == ASSUME ListedOnly, [Next]_vars PROVE ListedOnly'
<1>1. CASE Program
  BY <1>1, ProgramLists
<1>2. CASE MarkRoot \/ RemarkUpvals \/ RemarkWeak \/ RemarkGrayAgain \/ SeparateUdata
  BY <1>2
  DEF MarkRoot, RemarkUpvals, RemarkWeak, RemarkGrayAgain, SeparateUdata,
      ListedOnly
<1>3. ASSUME NEW o \in gray, PropagateMark(o) PROVE ListedOnly'
  BY <1>3 DEF PropagateMark, ListedOnly, Listed
<1>4. CASE \/ ClearWeakAndFlip
           \/ SweepString
           \/ \E o \in sweepgc : SweepObject(o)
           \/ \E u \in tmudata, s \in Slot : CallGCTM(u, s)
           \/ EndCycle
  BY <1>4
  DEF ClearWeakAndFlip, SweepString, SweepObject, CallGCTM, EndCycle, ListedOnly
<1>5. CASE UNCHANGED vars
  BY <1>5 DEF vars, gcVars, ListedOnly
<1>. QED
  BY <1>1, <1>2, <1>3, <1>4, <1>5 DEF Next, Collector

-----------------------------------------------------------------------------
(* Steps of the program.                                                   *)

(* What one does to each userdata: nothing, or it ends up allocated and    *)
(* not dead.                                                               *)
UdataStep ==
    /\ UNCHANGED <<tmudata, finalized>>
    /\ \A u \in Udata :
         /\ loc'[u] = loc[u]
         /\ \/ mark'[u] = mark[u] /\ (u \in alloc' <=> u \in alloc)
            \/ u \in alloc' /\ mark'[u] # otherwhite

LEMMA WhitesDiffer ==
    ASSUME GCTypeOK
    PROVE  /\ otherwhite # currentwhite
           /\ otherwhite \in Whites
           /\ Whites = {currentwhite, otherwhite}
           /\ otherwhite \notin {"gray", "black", "none"}
BY DEF GCTypeOK, otherwhite, Whites

LEMMA PaintedUdata ==
    ASSUME NEW W, NEW u \in Udata
    PROVE  Painted(W)[u] = IF u \in W THEN "black" ELSE mark[u]
BY DEF Painted

LEMMA ReallyMarkedWhite ==
    ASSUME NEW S, NEW o \in ReallyMarked(S) PROVE IsWhite(o)
BY DEF ReallyMarked, White

(* Marking turns nothing dead, and nothing that is not allocated.          *)
LEMMA MarkingStep ==
    ASSUME TypeOK, UdataAllocated, NEW W, \A o \in W : IsWhite(o),
           NEW u \in Udata
    PROVE  \/ Painted(W)[u] = mark[u]
           \/ u \in alloc /\ Painted(W)[u] = "black"
<1>1. IsWhite(u) => u \in alloc
  BY DEF UdataAllocated, IsWhite, Whites
<1>. QED
  BY <1>1, PaintedUdata

LEMMA MakeWhiteStep ==
    ASSUME TypeOK, NEW o \in Object, NEW u \in Object
    PROVE  \/ MakeWhite(o)[u] = mark[u]
           \/ u = o /\ MakeWhite(o)[u] = currentwhite
BY DEF TypeOK, GCTypeOK, MakeWhite

LEMMA BarrierForwardStep ==
    ASSUME TypeOK, UdataAllocated, NEW o \in Object, NEW v,
           BarrierForward(o, v), alloc' = alloc, NEW u \in Udata
    PROVE  \/ mark'[u] = mark[u]
           \/ u \in alloc /\ mark'[u] # otherwhite
<1>1. CASE v # Nil /\ mark[o] = "black" /\ IsWhite(v) /\ gcstate = "propagate"
  <2>1. mark' = Painted(ReallyMarked({v}))
    BY <1>1, Zenon DEF BarrierForward
  <2>. QED
    BY <2>1, MarkingStep, ReallyMarkedWhite, WhitesDiffer DEF TypeOK
<1>2. CASE v # Nil /\ mark[o] = "black" /\ IsWhite(v) /\ gcstate # "propagate"
  <2>1. mark' = MakeWhite(o)
    BY <1>2, Zenon DEF BarrierForward
  <2>2. o = u => u \in alloc
    BY <1>2 DEF UdataAllocated
  <2>. QED
    BY <2>1, <2>2, MakeWhiteStep, WhitesDiffer DEF TypeOK
<1>3. CASE ~(v # Nil /\ mark[o] = "black" /\ IsWhite(v))
  BY <1>3, Zenon DEF BarrierForward
<1>. QED
  BY <1>1, <1>2, <1>3

LEMMA BarrierBackStep ==
    ASSUME TypeOK, NEW t \in Table, NEW S, BarrierBack(t, S), NEW u \in Udata
    PROVE  mark'[u] = mark[u]
BY KindsDisjoint DEF TypeOK, GCTypeOK, BarrierBack

(* A new object, and a string found in the string table.                   *)
LEMMA LinkStep ==
    ASSUME TypeOK, NEW s, NEW o \in Object, NEW e, NEW c, HNew(s, o, e, c), Link(o)
    PROVE  UdataStep
<1>1. ASSUME NEW u \in Udata, u = o
      PROVE  u \in alloc' /\ mark'[u] = currentwhite
  BY <1>1 DEF HNew, Link, MakeWhite, TypeOK, GCTypeOK
<1>2. ASSUME NEW u \in Udata, u # o
      PROVE  mark'[u] = mark[u] /\ (u \in alloc' <=> u \in alloc)
  BY <1>2 DEF HNew, Link, MakeWhite, TypeOK, GCTypeOK
<1>3. UNCHANGED <<tmudata, finalized, loc>>
  BY DEF HNew
<1>. QED
  BY <1>1, <1>2, <1>3, WhitesDiffer DEF UdataStep, TypeOK

LEMMA AllocateStep == ASSUME TypeOK, Allocate PROVE UdataStep
<1>. PICK s \in Slot :
       \/ \E t \in Table : NewTable(s, t)
       \/ \E u \in Udata : NewUdata(s, u)
       \/ \E th \in Thread : NewThread(s, th)
       \/ \E f \in NativeClosure, v \in Accessible : PushCClosure(s, f, v)
       \/ \E str \in Str : NewString(s, str)
       \/ \E f \in Closure, u \in UpVal, p \in Slot : NewClosure(s, f, u, p)
  BY DEF Allocate
<1>1. CASE \/ \E t \in Table : NewTable(s, t)
           \/ \E u \in Udata : NewUdata(s, u)
           \/ \E th \in Thread : NewThread(s, th)
           \/ \E f \in NativeClosure, v \in Accessible : PushCClosure(s, f, v)
  BY <1>1, LinkStep, RootsAssumption
  DEF NewTable, NewUdata, NewThread, PushCClosure
<1>2. ASSUME NEW str \in Str, NewString(s, str) PROVE UdataStep
  <2>1. CASE str \notin alloc
    BY <1>2, <2>1, LinkStep DEF NewString
  <2>2. CASE str \in alloc
    <3>1. UNCHANGED <<alloc, loc, tmudata, finalized>>
      BY <1>2, <2>2 DEF NewString, HLoad
    <3>2. ASSUME NEW u \in Udata PROVE mark'[u] = mark[u]
      BY <1>2, <2>2, KindsDisjoint
      DEF NewString, Resurrected, MakeWhite, TypeOK, GCTypeOK
    <3>. QED
      BY <3>1, <3>2 DEF UdataStep
  <2>. QED
    BY <2>1, <2>2
<1>3. ASSUME NEW f \in Closure, NEW v \in UpVal, NEW p \in Slot,
             NewClosure(s, f, v, p)
      PROVE  UdataStep
  <2>1. ASSUME NEW u \in Udata
        PROVE  mark'[u] = mark[u] /\ loc'[u] = loc[u] /\ (u \in alloc' <=> u \in alloc)
    BY <1>3, KindsDisjoint
    DEF NewClosure, HNewClosure, TypeOK, HeapTypeOK, GCTypeOK
  <2>. QED
    BY <1>3, <2>1 DEF NewClosure, HNewClosure, UdataStep
<1>. QED
  BY <1>1, <1>2, <1>3

LEMMA StoreStep == ASSUME TypeOK, UdataAllocated, Store PROVE UdataStep
<1>1. Accessible \subseteq Object
  BY AccessibleIsObject DEF TypeOK
<1>2. ASSUME NEW t, NEW k, NEW v, SetTable(t, k, v) PROVE UdataStep
  <2>1. UNCHANGED <<alloc, loc, tmudata, finalized>>
    BY <1>2 DEF SetTable, HSetTable
  <2>2. ASSUME NEW u \in Udata PROVE mark'[u] = mark[u]
    BY <1>2, BarrierBackStep, Zenon DEF SetTable
  <2>. QED
    BY <2>1, <2>2 DEF UdataStep
<1>3. ASSUME NEW m, NEW fields, SetMetafields(m, fields) PROVE UdataStep
  <2>1. UNCHANGED <<alloc, loc, tmudata, finalized>>
    BY <1>3 DEF SetMetafields, HSetMetafields
  <2>2. ASSUME NEW u \in Udata PROVE mark'[u] = mark[u]
    BY <1>3, KindsDisjoint DEF SetMetafields, TypeOK, GCTypeOK
  <2>. QED
    BY <2>1, <2>2 DEF UdataStep
<1>4. ASSUME NEW t, NEW m, SetMetatable(t, m) PROVE UdataStep
  <2>1. UNCHANGED <<alloc, loc, tmudata, finalized>>
    BY <1>4 DEF SetMetatable, HSetMetatable
  <2>2. ASSUME NEW u \in Udata PROVE mark'[u] = mark[u]
    BY <1>4, BarrierBackStep, Zenon DEF SetMetatable
  <2>. QED
    BY <2>1, <2>2 DEF UdataStep
<1>5. ASSUME NEW o \in Object, NEW v, BarrierForward(o, v),
             UNCHANGED <<alloc, loc, tmudata, finalized>>
      PROVE  UdataStep
  BY <1>5, BarrierForwardStep DEF UdataStep
<1>6. ASSUME NEW o \in Object, NEW m, SetUdataMetatable(o, m) \/ SetFenv(o, m)
      PROVE  UdataStep
  <2>1. BarrierForward(o, m)
    BY <1>6, Zenon DEF SetUdataMetatable, SetFenv
  <2>2. UNCHANGED <<alloc, loc, tmudata, finalized>>
    BY <1>6 DEF SetUdataMetatable, SetFenv, HSetMetatable, HSetFenv
  <2>. QED
    BY <1>5, <2>1, <2>2
<1>7. ASSUME NEW b, NEW m, SetBasicMetatable(b, m) PROVE UdataStep
  BY <1>7 DEF SetBasicMetatable, HSetBasicMetatable, gcVars, UdataStep
<1>8. ASSUME NEW f \in Object, NEW v, SetCapture(f, v) PROVE UdataStep
  <2>1. BarrierForward(f, v)
    BY <1>8, Zenon DEF SetCapture
  <2>2. UNCHANGED <<alloc, loc, tmudata, finalized>>
    BY <1>8 DEF SetCapture, HSetCapture
  <2>. QED
    BY <1>5, <2>1, <2>2
<1>9. ASSUME NEW f \in Object, NEW x \in Object, NEW v,
             SetUpval(f, x, v) \/ DebugSetUpvalue(f, x, v)
      PROVE  UdataStep
  <2>1. BarrierForward(f, v) \/ BarrierForward(x, v)
    BY <1>9, Zenon DEF SetUpval, DebugSetUpvalue
  <2>2. UNCHANGED <<alloc, loc, tmudata, finalized>>
    BY <1>9 DEF SetUpval, DebugSetUpvalue, HSetUpval
  <2>. QED
    BY <1>5, <2>1, <2>2
<1>10. \A f \in Object : upv[f] \subseteq Object
  BY DEF TypeOK, HeapTypeOK
<1>. QED
  BY <1>1, <1>2, <1>3, <1>4, <1>6, <1>7, <1>8, <1>9, <1>10 DEF Store

LEMMA CloseUpvalsStep ==
    ASSUME TypeOK, UdataAllocated, NEW s \in Slot, CloseUpvals(s)
    PROVE  UdataStep
<1>. DEFINE C == OpenAbove(L, s)
            D == {u \in C : IsDead(u)}
            G == {u \in C : mark[u] = "gray"}
            W == IF gcstate = "propagate" THEN ClosingMarks(G) ELSE {}
<1>1. /\ HCloseUpvals(s, D)
      /\ mark' = [o \in Object |->
                    IF o \in D THEN "none"
                    ELSE IF o \notin G THEN Painted(W)[o]
                    ELSE IF gcstate = "propagate" THEN "black"
                    ELSE currentwhite]
  BY DEF CloseUpvals
<1>2. C \cap Udata = {}
  BY KindsDisjoint DEF OpenAbove
<1>3. \A o \in W : IsWhite(o)
  BY ReallyMarkedWhite DEF ClosingMarks
<1>4. ASSUME NEW u \in Udata
      PROVE  mark'[u] = Painted(W)[u] /\ loc'[u] = loc[u]
  BY <1>1, <1>2 DEF HCloseUpvals
<1>5. UNCHANGED <<tmudata, finalized>> /\ alloc' = alloc \ D
  BY <1>1 DEF HCloseUpvals
<1>. HIDE DEF W
<1>. QED
  BY <1>2, <1>3, <1>4, <1>5, MarkingStep, WhitesDiffer DEF UdataStep, TypeOK

LEMMA ControlStep ==
    ASSUME TypeOK, UdataAllocated, Control, ~StartFullGC PROVE UdataStep
<1>1. ASSUME NEW s \in Slot, CloseUpvals(s) PROVE UdataStep
  BY <1>1, CloseUpvalsStep
<1>2. ASSUME UNCHANGED <<alloc, loc, mark, tmudata, finalized>> PROVE UdataStep
  BY <1>2 DEF UdataStep
<1>3. ASSUME NEW th, NEW s, NEW v,
             Resume(th) \/ Yield \/ XMove(th, s, v) \/ FinalizerError
      PROVE  UNCHANGED <<alloc, loc, mark, tmudata, finalized>>
  BY <1>3
  DEF Resume, Yield, XMove, FinalizerError, HResume, HYield, HXMove, heapVars,
      gcVars
<1>. QED
  BY <1>1, <1>2, <1>3 DEF Control

(* The step that luaC_fullgc takes before it collects.                     *)
LEMMA FullGCStep ==
    ASSUME TypeOK, FinalizerInv, stage = 0, StartFullGC PROVE FinalizerInv'
<1>1. UNCHANGED <<alloc, loc, tmudata, finalized, mark, currentwhite, stage>>
  BY DEF StartFullGC, heapVars
<1>2. UdataAllocated' /\ Separated'
  BY <1>1 DEF FinalizerInv, UdataAllocated, Separated
<1>3. DeadFinalized'
  <2>1. CASE gcstate \in {"pause", "propagate"}
    <3>1. /\ gcstate' = "sweepstring"
          /\ sweepgc' \subseteq alloc \ tmudata
      BY <2>1 DEF StartFullGC
    <3>2. \A u \in Udata : ~IsDead(u)
      BY <2>1 DEF FinalizerInv, DeadFinalized, Sweeping
    <3>. QED
      BY <1>1, <3>1, <3>2 DEF DeadFinalized, Sweeping, IsDead, otherwhite
  <2>2. CASE gcstate \notin {"pause", "propagate"}
    <3>1. UNCHANGED <<gcstate, sweepgc>>
      BY <2>2 DEF StartFullGC
    <3>. QED
      BY <1>1, <3>1
      DEF FinalizerInv, DeadFinalized, Sweeping, IsDead, otherwhite
  <2>. QED
    BY <2>1, <2>2
<1>. QED
  BY <1>2, <1>3 DEF FinalizerInv

LEMMA ProgramStep ==
    ASSUME TypeOK, FinalizerInv, Program PROVE FinalizerInv'
<1>1. stage = 0
  BY DEF Program, Running
<1>2. CASE StartFullGC
  BY <1>1, <1>2, FullGCStep
<1>3. CASE ~StartFullGC
  <2>1. UdataStep
    <3>1. ASSUME NEW s, NEW v, Load(s, v) PROVE UdataStep
      BY <3>1 DEF Load, HLoad, gcVars, UdataStep
    <3>. QED
      BY <1>3, <3>1, AllocateStep, StoreStep, ControlStep
      DEF Program, FinalizerInv
  <2>2. UNCHANGED <<currentwhite, gcstate, stage, sweepgc>>
    BY <1>3, ProgramFrame
  <2>3. UdataAllocated'
    BY <2>1 DEF FinalizerInv, UdataAllocated, UdataStep, TypeOK, HeapTypeOK
  <2>4. Separated'
    BY <1>1, <2>2 DEF Separated
  <2>5. DeadFinalized'
    <3>1. otherwhite' = otherwhite
      BY <2>2 DEF otherwhite
    <3>2. ASSUME NEW u \in Udata, IsDead(u)'
          PROVE  Sweeping' /\ u \in (sweepgc \cap finalized)'
      BY <2>1, <2>2, <3>1, <3>2
      DEF FinalizerInv, DeadFinalized, Sweeping, IsDead, UdataStep
    <3>3. Sweeping' => (sweepgc \cap Udata \subseteq alloc \ tmudata)'
      <4>1. sweepgc \cap Udata \subseteq alloc => sweepgc \cap Udata \subseteq alloc'
        BY <2>1 DEF UdataStep
      <4>. QED
        BY <2>1, <2>2, <4>1
        DEF FinalizerInv, DeadFinalized, Sweeping, UdataStep
    <3>. QED
      BY <3>2, <3>3 DEF DeadFinalized
  <2>. QED
    BY <2>3, <2>4, <2>5 DEF FinalizerInv
<1>. QED
  BY <1>2, <1>3

-----------------------------------------------------------------------------
(* Steps of the collector.                                                 *)

(* A step that marks userdata, or leaves their colours alone.              *)
MarksUdata ==
    /\ UNCHANGED <<alloc, loc, currentwhite>>
    /\ \A u \in Udata : \/ mark'[u] = mark[u]
                        \/ u \in alloc /\ mark'[u] = "black"

LEMMA MarksUdataStep ==
    ASSUME TypeOK, FinalizerInv, MarksUdata, tmudata' = tmudata,
           ~Sweeping, ~Sweeping'
    PROVE  UdataAllocated' /\ DeadFinalized'
<1>1. otherwhite' = otherwhite
  BY DEF MarksUdata, otherwhite
<1>2. UdataAllocated'
  BY DEF FinalizerInv, UdataAllocated, MarksUdata
<1>3. ASSUME NEW u \in Udata PROVE ~IsDead(u)'
  <2>1. mark[u] # otherwhite /\ "black" # otherwhite
    BY WhitesDiffer DEF FinalizerInv, DeadFinalized, IsDead, TypeOK
  <2>. QED
    BY <1>1, <2>1 DEF IsDead, MarksUdata
<1>. QED
  BY <1>2, <1>3 DEF DeadFinalized

(* One white object or more is marked before the userdata are separated.   *)
LEMMA MarkPhaseStep ==
    ASSUME TypeOK, ListedOnly, FinalizerInv,
           \/ MarkRoot
           \/ \E o \in gray : PropagateMark(o)
           \/ RemarkUpvals \/ RemarkWeak \/ RemarkGrayAgain
    PROVE  FinalizerInv'
<1>1. ~Sweeping /\ ~Sweeping' /\ gcstate' = "propagate"
  BY DEF MarkRoot, PropagateMark, RemarkUpvals, RemarkWeak, RemarkGrayAgain,
         AtomicStage, Sweeping
<1>2. UNCHANGED <<alloc, loc, currentwhite, tmudata, finalized>>
  BY DEF MarkRoot, PropagateMark, RemarkUpvals, RemarkWeak, RemarkGrayAgain,
         AtomicStage, heapVars
<1>3. ASSUME NEW S, NEW u \in Udata
      PROVE  \/ Painted(ReallyMarked(S))[u] = mark[u]
             \/ u \in alloc /\ Painted(ReallyMarked(S))[u] = "black"
  BY MarkingStep, ReallyMarkedWhite DEF FinalizerInv
<1>4. MarksUdata
  <2>1. CASE MarkRoot
    <3>1. mark' = Painted(ReallyMarked(MarkRootSet))
      BY <2>1, Zenon DEF MarkRoot
    <3>. QED
      BY <1>2, <1>3, <3>1 DEF MarksUdata
  <2>2. ASSUME NEW o \in gray, PropagateMark(o) PROVE MarksUdata
    <3>1. PICK x : mark' = [Painted(ReallyMarked(Traversed(o))) EXCEPT ![o] = x]
                   /\ x \in {"gray", "black"}
      BY <2>2, Zenon DEF PropagateMark
    <3>2. o \notin Udata
      BY KindsDisjoint DEF ListedOnly, Listed
    <3>3. ASSUME NEW u \in Udata
          PROVE  mark'[u] = Painted(ReallyMarked(Traversed(o)))[u]
      BY <3>1, <3>2
    <3>. QED
      BY <1>2, <1>3, <3>3 DEF MarksUdata
  <2>3. CASE RemarkUpvals
    <3>1. PICK S : mark' = Painted(ReallyMarked(S))
      BY <2>3, Zenon DEF RemarkUpvals
    <3>. QED
      BY <1>2, <1>3, <3>1 DEF MarksUdata
  <2>4. CASE RemarkWeak
    <3>1. mark' = Painted(ReallyMarked({L} \cup MarkMt))
      BY <2>4, Zenon DEF RemarkWeak
    <3>. QED
      BY <1>2, <1>3, <3>1 DEF MarksUdata
  <2>5. CASE RemarkGrayAgain
    BY <1>2, <2>5 DEF RemarkGrayAgain, MarksUdata
  <2>. QED
    BY <2>1, <2>2, <2>3, <2>4, <2>5
<1>5. Separated'
  <2>1. stage' = 4 => stage = 4
    BY DEF MarkRoot, PropagateMark, RemarkUpvals, RemarkWeak, RemarkGrayAgain,
           AtomicStage
  <2>2. ASSUME NEW u \in Udata, IsWhite(u)' PROVE IsWhite(u)
    BY <1>4, <2>2 DEF MarksUdata, IsWhite, Whites
  <2>. QED
    BY <1>1, <1>2, <2>1, <2>2 DEF FinalizerInv, Separated
<1>. QED
  BY <1>1, <1>2, <1>4, <1>5, MarksUdataStep DEF FinalizerInv

(* separateudata and marktmu: from here on every white userdata has been   *)
(* separated before.                                                       *)
LEMMA SeparateStep ==
    ASSUME TypeOK, FinalizerInv, SeparateUdata PROVE FinalizerInv'
<1>1. /\ UNCHANGED <<alloc, loc, currentwhite, gcstate>>
      /\ gcstate = "propagate"
      /\ finalized' = finalized \cup ToSeparate
      /\ tmudata' \subseteq tmudata \cup ToSeparate
      /\ mark' = Painted(MarkTmu)
  BY DEF SeparateUdata, AtomicStage, HSeparate
<1>2. tmudata' \subseteq alloc /\ tmudata' \subseteq MarkTmu
  BY <1>1 DEF FinalizerInv, UdataAllocated, ToSeparate, White, MarkTmu
<1>3. ASSUME NEW u \in Udata
      PROVE  /\ u \in MarkTmu => u \in alloc
             /\ mark'[u] = IF u \in MarkTmu THEN "black" ELSE mark[u]
  <2>1. u \in MarkTmu => u \in tmudata' \/ IsWhite(u)
    BY ReallyMarkedWhite DEF MarkTmu
  <2>2. IsWhite(u) => u \in alloc
    BY DEF FinalizerInv, UdataAllocated, IsWhite, Whites
  <2>. QED
    BY <1>1, <1>2, <2>1, <2>2, PaintedUdata
<1>4. UdataAllocated'
  BY <1>1, <1>2, <1>3 DEF FinalizerInv, UdataAllocated
<1>5. Separated'
  <2>1. ASSUME NEW u \in Udata, IsWhite(u)'
        PROVE  u \in (finalized \ tmudata)'
    <3>1. u \notin MarkTmu /\ IsWhite(u)
      BY <1>3, <2>1 DEF IsWhite, Whites
    <3>2. u \in alloc
      BY <3>1 DEF FinalizerInv, UdataAllocated, IsWhite, Whites
    <3>. QED
      BY <1>1, <1>2, <3>1, <3>2 DEF ToSeparate, White
  <2>. QED
    BY <1>1, <2>1 DEF Separated
<1>6. DeadFinalized'
  <2>1. otherwhite' = otherwhite /\ "black" # otherwhite /\ ~Sweeping /\ ~Sweeping'
    BY <1>1, WhitesDiffer DEF otherwhite, Sweeping, TypeOK
  <2>2. \A u \in Udata : ~IsDead(u)
    BY <2>1 DEF FinalizerInv, DeadFinalized
  <2>. QED
    BY <1>3, <2>1, <2>2 DEF DeadFinalized, IsDead
<1>. QED
  BY <1>4, <1>5, <1>6 DEF FinalizerInv

(* What was the current white is dead now: the userdata that have it are   *)
(* separated, and all of them wait for the sweep.                          *)
LEMMA FlipStep ==
    ASSUME TypeOK, FinalizerInv, ClearWeakAndFlip PROVE FinalizerInv'
<1>1. /\ UNCHANGED <<alloc, loc, tmudata, finalized>>
      /\ currentwhite' = otherwhite
      /\ stage = 4 /\ stage' = 0 /\ gcstate' = "sweepstring"
      /\ sweepgc' = {o \in alloc \ (Str \cup tmudata) : ~Open(o)}
  BY DEF ClearWeakAndFlip
<1>2. ASSUME NEW u \in Udata PROVE mark'[u] = mark[u]
  <2>1. StringsMarked \subseteq Str
    BY Zenon DEF StringsMarked
  <2>2. u \notin White(StringsMarked)
    BY <2>1, KindsDisjoint DEF White
  <2>3. mark' = [o \in Object |-> IF o \in White(StringsMarked) THEN "gray"
                                  ELSE mark[o]]
    BY DEF ClearWeakAndFlip
  <2>. QED
    BY <2>2, <2>3
<1>3. UdataAllocated' /\ Separated'
  BY <1>1, <1>2 DEF FinalizerInv, UdataAllocated, Separated
<1>4. ASSUME NEW u \in Udata, IsDead(u)'
      PROVE  Sweeping' /\ u \in (sweepgc \cap finalized)'
  <2>1. mark[u] \in Whites
    BY <1>1, <1>2, <1>4 DEF IsDead, otherwhite, Whites
  <2>2. u \in alloc /\ ~Open(u) /\ u \in finalized \ tmudata
    BY <1>1, <2>1
    DEF FinalizerInv, UdataAllocated, Separated, Open, IsWhite, Whites
  <2>3. u \notin Str
    BY KindsDisjoint
  <2>. QED
    BY <1>1, <2>2, <2>3 DEF Sweeping
<1>5. DeadFinalized'
  BY <1>1, <1>4 DEF DeadFinalized
<1>. QED
  BY <1>3, <1>5 DEF FinalizerInv

(* The sweep of strings, or of one object of rootgc with its upvalues.     *)
LEMMA SweepUdata ==
    ASSUME TypeOK, FinalizerInv, NEW S, Sweep(S), NEW u \in Udata
    PROVE  /\ loc'[u] = Nil
           /\ u \in alloc' <=> u \in alloc /\ ~(u \in S /\ IsDead(u))
           /\ mark'[u] = IF u \notin S THEN mark[u]
                         ELSE IF IsDead(u) THEN "none" ELSE currentwhite
           /\ u \in alloc' /\ u \in finalized => u \in finalized'
<1>1. u \notin FixedStr
  BY RootsAssumption, KindsDisjoint
<1>2. Doomed(u) <=> IsDead(u)
  BY <1>1 DEF Doomed
<1>. QED
  BY <1>2 DEF Sweep, HFree, FinalizerInv, UdataAllocated

LEMMA SweepStringStep ==
    ASSUME TypeOK, FinalizerInv, SweepString PROVE FinalizerInv'
<1>. DEFINE S == {o \in Str \cap alloc : Bucket[o] = sweepstrgc}
<1>1. /\ Sweep(S)
      /\ UNCHANGED <<currentwhite, stage, sweepgc, tmudata>>
      /\ Sweeping /\ Sweeping' /\ stage = 0
  BY DEF SweepString, Sweep, HFree, Sweeping, FinalizerInv, Separated
<1>2. ASSUME NEW u \in Udata
      PROVE  /\ loc'[u] = Nil
             /\ u \in alloc' <=> u \in alloc
             /\ mark'[u] = mark[u]
             /\ u \in alloc /\ u \in finalized => u \in finalized'
  <2>1. u \notin S
    BY KindsDisjoint
  <2>. QED
    BY <1>1, <2>1, SweepUdata
<1>3. UdataAllocated' /\ Separated'
  BY <1>1, <1>2 DEF FinalizerInv, UdataAllocated, Separated, TypeOK, HeapTypeOK
<1>4. DeadFinalized'
  BY <1>1, <1>2
  DEF FinalizerInv, DeadFinalized, IsDead, otherwhite
<1>. QED
  BY <1>3, <1>4 DEF FinalizerInv

LEMMA SweepObjectStep ==
    ASSUME TypeOK, FinalizerInv, NEW o \in sweepgc, SweepObject(o)
    PROVE  FinalizerInv'
<1>. DEFINE S == {o} \cup {u \in UpVal : Open(u) /\ loc[u][1] = o}
<1>1. /\ Sweep(S)
      /\ UNCHANGED <<currentwhite, stage, tmudata>>
      /\ sweepgc' = sweepgc \ {o}
      /\ gcstate' = IF sweepgc' = {} THEN "finalize" ELSE gcstate
      /\ Sweeping /\ gcstate = "sweep" /\ stage = 0
  BY DEF SweepObject, Sweep, HFree, Sweeping, FinalizerInv, Separated
<1>2. ASSUME NEW u \in Udata PROVE u \in S <=> u = o
  BY KindsDisjoint
<1>. HIDE DEF S
<1>3. ASSUME NEW u \in Udata, u # o
      PROVE  /\ loc'[u] = Nil
             /\ u \in alloc' <=> u \in alloc
             /\ mark'[u] = mark[u]
             /\ u \in alloc /\ u \in finalized => u \in finalized'
  BY <1>1, <1>2, <1>3, SweepUdata
<1>4. ASSUME NEW u \in Udata, u = o
      PROVE  /\ loc'[u] = Nil
             /\ u \in alloc \ tmudata
             /\ \/ u \notin alloc' /\ mark'[u] = "none"
                \/ u \in alloc' /\ mark'[u] = currentwhite
  <2>1. u \in alloc \ tmudata
    BY <1>1, <1>4 DEF FinalizerInv, DeadFinalized
  <2>. QED
    BY <1>1, <1>2, <1>4, <2>1, SweepUdata
<1>5. UdataAllocated'
  BY <1>1, <1>3, <1>4 DEF FinalizerInv, UdataAllocated, TypeOK, HeapTypeOK
<1>6. Separated'
  BY <1>1 DEF Separated
<1>7. ASSUME NEW u \in Udata, IsDead(u)'
      PROVE  Sweeping' /\ u \in (sweepgc \cap finalized)'
  <2>1. otherwhite' = otherwhite /\ otherwhite \notin {currentwhite, "none"}
    BY <1>1, WhitesDiffer DEF otherwhite, TypeOK
  <2>2. u # o
    BY <1>4, <1>7, <2>1 DEF IsDead
  <2>3. IsDead(u)
    BY <1>3, <1>7, <2>1, <2>2 DEF IsDead
  <2>4. u \in sweepgc \cap finalized /\ u \in alloc
    BY <1>1, <2>3 DEF FinalizerInv, DeadFinalized
  <2>. QED
    BY <1>1, <1>3, <2>2, <2>4 DEF Sweeping
<1>8. (sweepgc \cap Udata)' \subseteq (alloc \ tmudata)'
  BY <1>1, <1>3 DEF FinalizerInv, DeadFinalized
<1>. QED
  BY <1>5, <1>6, <1>7, <1>8 DEF FinalizerInv, DeadFinalized

LEMMA FinalizeStep ==
    ASSUME TypeOK, FinalizerInv,
           \/ \E u \in tmudata, s \in Slot : CallGCTM(u, s)
           \/ EndCycle
    PROVE  FinalizerInv'
<1>1. ASSUME NEW x \in tmudata, NEW s \in Slot, CallGCTM(x, s)
      PROVE  FinalizerInv'
  <2>1. /\ UNCHANGED <<alloc, loc, finalized, currentwhite, gcstate, stage, sweepgc>>
        /\ tmudata' \subseteq tmudata
        /\ gcstate = "finalize" /\ stage = 0
        /\ mark' = MakeWhite(x)
    BY <1>1 DEF CallGCTM, HCallGC, FinalizerInv, Separated
  <2>2. x \in Udata \cap alloc
    BY DEF FinalizerInv, UdataAllocated, TypeOK, HeapTypeOK
  <2>3. ASSUME NEW u \in Udata
        PROVE  mark'[u] = mark[u] \/ (u \in alloc /\ mark'[u] = currentwhite)
    BY <2>1, <2>2, MakeWhiteStep
  <2>4. UdataAllocated' /\ Separated'
    BY <2>1, <2>3 DEF FinalizerInv, UdataAllocated, Separated
  <2>5. otherwhite' = otherwhite /\ otherwhite # currentwhite
    BY <2>1, WhitesDiffer DEF otherwhite, TypeOK
  <2>6. DeadFinalized'
    BY <2>1, <2>3, <2>5 DEF FinalizerInv, DeadFinalized, Sweeping, IsDead
  <2>. QED
    BY <2>4, <2>6 DEF FinalizerInv
<1>2. CASE EndCycle
  <2>1. /\ UNCHANGED <<alloc, loc, mark, tmudata, finalized, currentwhite, stage>>
        /\ ~Sweeping /\ ~Sweeping' /\ stage = 0
    BY <1>2 DEF EndCycle, heapVars, Sweeping, FinalizerInv, Separated
  <2>. QED
    BY <2>1
    DEF FinalizerInv, UdataAllocated, Separated, DeadFinalized, IsDead, otherwhite
<1>. QED
  BY <1>1, <1>2

-----------------------------------------------------------------------------

LEMMA FinalizerInit == Init => ListedOnly /\ FinalizerInv
<1>. SUFFICES ASSUME Init PROVE ListedOnly /\ FinalizerInv
  OBVIOUS
<1>1. ASSUME NEW u \in Udata
      PROVE  u \notin alloc /\ loc[u] = Nil /\ mark[u] = "none"
  BY RootsAssumption, KindsDisjoint DEF Init, HeapInit, GCInit
<1>2. /\ tmudata = {} /\ stage = 0 /\ gcstate = "pause"
      /\ gray = {} /\ grayagain = {} /\ weak = {}
      /\ currentwhite = "white0"
  BY DEF Init, HeapInit, GCInit
<1>. QED
  BY <1>1, <1>2
  DEF FinalizerInv, UdataAllocated, Separated, DeadFinalized, ListedOnly,
      Sweeping, IsDead, otherwhite

LEMMA FinalizerStep ==
    ASSUME TypeOK, ListedOnly, FinalizerInv, [Next]_vars PROVE FinalizerInv'
<1>1. CASE Program
  BY <1>1, ProgramStep
<1>2. CASE \/ MarkRoot
           \/ \E o \in gray : PropagateMark(o)
           \/ RemarkUpvals \/ RemarkWeak \/ RemarkGrayAgain
  BY <1>2, MarkPhaseStep
<1>3. CASE SeparateUdata
  BY <1>3, SeparateStep
<1>4. CASE ClearWeakAndFlip
  BY <1>4, FlipStep
<1>5. CASE SweepString
  BY <1>5, SweepStringStep
<1>6. CASE \E o \in sweepgc : SweepObject(o)
  BY <1>6, SweepObjectStep
<1>7. CASE (\E u \in tmudata, s \in Slot : CallGCTM(u, s)) \/ EndCycle
  BY <1>7, FinalizeStep
<1>8. CASE UNCHANGED vars
  BY <1>8
  DEF vars, heapVars, gcVars, FinalizerInv, UdataAllocated, Separated,
      DeadFinalized, Sweeping, IsDead, IsWhite, otherwhite
<1>. QED
  BY <1>1, <1>2, <1>3, <1>4, <1>5, <1>6, <1>7, <1>8 DEF Next, Collector

(* Of the userdata, a step of the system frees dead ones only.             *)
LEMMA FreedUdata ==
    ASSUME TypeOK, ListedOnly, FinalizerInv, [Next]_vars,
           NEW u \in (alloc \ alloc') \cap Udata
    PROVE  u \in finalized /\ u \notin tmudata
<1>1. CASE Program
  <2>1. CASE StartFullGC
    BY <2>1 DEF StartFullGC, heapVars
  <2>2. ASSUME NEW s, NEW v, Load(s, v) PROVE FALSE
    BY <2>2 DEF Load, HLoad
  <2>3. UdataStep => FALSE
    BY DEF UdataStep
  <2>. QED
    BY <1>1, <2>1, <2>2, <2>3, AllocateStep, StoreStep, ControlStep
    DEF Program, FinalizerInv
<1>2. CASE SweepString
  <2>. DEFINE S == {o \in Str \cap alloc : Bucket[o] = sweepstrgc}
  <2>1. Sweep(S) /\ u \notin S
    BY <1>2, KindsDisjoint DEF SweepString
  <2>. QED
    BY <2>1, SweepUdata
<1>3. ASSUME NEW o \in sweepgc, SweepObject(o)
      PROVE  u \in finalized /\ u \notin tmudata
  <2>. DEFINE S == {o} \cup {x \in UpVal : Open(x) /\ loc[x][1] = o}
  <2>1. Sweep(S) /\ Sweeping
    BY <1>3 DEF SweepObject, Sweeping
  <2>. HIDE DEF S
  <2>2. IsDead(u)
    BY <2>1, SweepUdata
  <2>. QED
    BY <2>1, <2>2 DEF FinalizerInv, DeadFinalized
<1>4. CASE \/ MarkRoot
           \/ \E o \in gray : PropagateMark(o)
           \/ RemarkUpvals \/ RemarkWeak \/ RemarkGrayAgain
           \/ SeparateUdata \/ ClearWeakAndFlip
           \/ \E x \in tmudata, s \in Slot : CallGCTM(x, s)
           \/ EndCycle \/ UNCHANGED vars
  <2>1. alloc' = alloc
    BY <1>4
    DEF MarkRoot, PropagateMark, RemarkUpvals, RemarkWeak, RemarkGrayAgain,
        SeparateUdata, HSeparate, ClearWeakAndFlip, CallGCTM, HCallGC, EndCycle,
        heapVars, vars
  <2>. QED
    BY <2>1
<1>. QED
  BY <1>1, <1>2, <1>3, <1>4 DEF Next, Collector

(* A userdata is freed only after luaC_separateudata has looked at it, and *)
(* never while its __gc metamethod is still due: whatever order the        *)
(* program, the marking, separateudata and the sweep take, and even when   *)
(* luaC_fullgc throws a half-done mark phase away.                         *)
THEOREM FreedAfterFinalizer == Spec => FinalizerBeforeFree
<1>1. Init => ListedOnly /\ FinalizerInv
  BY FinalizerInit
<1>2. TypeOK /\ ListedOnly /\ FinalizerInv /\ [Next]_vars
        => (ListedOnly /\ FinalizerInv)'
  BY ListsStep, FinalizerStep
<1>3. TypeOK /\ ListedOnly /\ FinalizerInv /\ [Next]_vars
        => [\A u \in (alloc \ alloc') \cap Udata :
              u \in finalized /\ u \notin tmudata]_vars
  BY FreedUdata
<1>. QED
  BY <1>1, <1>2, <1>3, TypeCorrect, PTL DEF Spec, FinalizerBeforeFree

=============================================================================
