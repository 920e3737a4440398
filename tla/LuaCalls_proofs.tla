--------------------------- MODULE LuaCalls_proofs ---------------------------
(***************************************************************************)
(* Errors, protected calls and coroutines of LuaCalls unwind the C stack   *)
(* to the right place, whatever the limits and the number of threads.      *)
(*                                                                         *)
(* The inductive invariant measures the C stack from its bottom: F[i] is   *)
(* the number of CallInfos that the thread of cstack[i] has because of     *)
(* its activations up to i, G[i] the number of C calls counted up to i, by *)
(* whatever thread, and H[i] whether hooks were allowed there.  The thread *)
(* on top has the frames, the count and the flag of the top; one that      *)
(* waits in resume() has those of the place where it called it; and what   *)
(* luaD_pcall keeps to restore is what was measured below it.              *)
(***************************************************************************)
EXTENDS LuaCalls, SequenceTheorems, TLAPS

Frame == CFunction \cup {"lua"}

Status == {"ok", "yield", "throw", "errerr"}

Mode == {"run", "error", "throw", "errerr"}

LuaState ==
    [ci : Seq(Frame), size_ci : Nat, nCcalls : Nat, baseCcalls : Nat, status : Status,
     errfunc : Nat, allowhook : BOOLEAN, errorJmp : Nat, fn : BOOLEAN]

CFun  == [k : {"cfun"}, t : Thread, f : CFunction, st : {"start", "done"}]
Exec  == [k : {"exec"}, t : Thread, n : Nat \ {0}]
Parse == [k : {"parse"}, t : Thread, level : Nat]
Gctm  == [k : {"gctm"}, t : Thread, oldah : BOOLEAN]
Plain == [k : {"call", "hook", "errormsg"}, t : Thread]
Try   == [k : {"try"}, t : Thread, kind : {"pcall", "resume", "close"}, previous : Nat,
          old_ci : Nat, oldnCcalls : Nat, old_allowhooks : BOOLEAN, old_errfunc : Nat]

Activation == CFun \cup Exec \cup Parse \cup Gctm \cup Plain \cup Try

-----------------------------------------------------------------------------
(* The inductive invariant.                                                *)

IsTry(a) == a.k = "try"

IsResume(a) == a.k = "try" /\ a.kind = "resume"

NoHooks(a) == a.k \in {"hook", "gctm"}

FramesOf(a) == IF a.k = "exec" THEN a.n ELSE IF a.k = "cfun" THEN 1 ELSE 0

CCallsOf(a) ==
    IF a.k = "call" \/ IsResume(a) THEN 1 ELSE IF a.k = "parse" THEN a.level ELSE 0

(* What is below an activation.                                            *)
Stacked(C, i) ==
    /\ C[i].k = "cfun" => i > 1 /\ C[i - 1].k \in {"exec", "call"}
    /\ C[i].k = "exec" => i > 1 /\ (C[i - 1].k = "call" \/ IsResume(C[i - 1]))
    /\ IsTry(C[i]) =>
          /\ C[i].kind = "pcall" => i = 1 \/ C[i - 1].k = "cfun"
          /\ C[i].kind = "close" => i = 1
          /\ C[i].kind = "resume" =>
                /\ i > 1 /\ C[i - 1].k = "cfun" /\ C[i - 1].t # C[i].t
                /\ C[i].t # MainThread /\ C[i].previous = 0
    /\ i = 1 => IsTry(C[i]) /\ C[i].t = MainThread

(* Every thread is a contiguous part of the stack that starts with a try.  *)
Base(C, m, i) ==
    /\ m = 1 \/ IsResume(C[m])
    /\ \A j \in m..i : C[j].t = C[i].t
    /\ \A j \in (m + 1)..i : ~IsResume(C[j])

Based(C, i) == \E m \in 1..i : Base(C, m, i)

(* p is the place of the innermost try of t up to i, 0 if there is none.   *)
Innermost(C, t, p, i) ==
    /\ p \in 0..i
    /\ p # 0 => IsTry(C[p]) /\ C[p].t = t
    /\ \A j \in (p + 1)..i : ~(IsTry(C[j]) /\ C[j].t = t)

Linked(C, i) == IsTry(C[i]) => Innermost(C, C[i].t, C[i].previous, i - 1)

LevelAt(C, F, G, H, i) ==
    /\ F[i] = IF IsResume(C[i]) THEN 0 ELSE F[i - 1] + FramesOf(C[i])
    /\ G[i] = G[i - 1] + CCallsOf(C[i])
    /\ NoHooks(C[i]) => ~H[i]
    /\ C[i].k = "hook" => H[i - 1]
    /\ C[i].k = "gctm" => H[i - 1] = C[i].oldah
    /\ ~NoHooks(C[i]) /\ ~IsResume(C[i]) => H[i] = H[i - 1]
    /\ IsTry(C[i]) /\ C[i].kind = "pcall" =>
          /\ C[i].old_ci = F[i - 1]
          /\ C[i].oldnCcalls = G[i - 1]
          /\ C[i].old_allowhooks = H[i - 1]

Rises(C, F, G, i, j) ==
    /\ G[i] <= G[j]
    /\ (\A m \in (i + 1)..j : ~IsResume(C[m])) => F[i] <= F[j]

Placed(C, F, G, H, i) ==
    /\ Stacked(C, i) /\ Based(C, i) /\ Linked(C, i)
    /\ LevelAt(C, F, G, H, i)
    /\ \A j \in 0..i : Rises(C, F, G, j, i)

Measured(C, F, G, H) ==
    /\ F \in [0..Len(C) -> Nat] /\ G \in [0..Len(C) -> Nat] /\ H \in [0..Len(C) -> BOOLEAN]
    /\ F[0] = 0 /\ G[0] = 0
    /\ \A i \in 1..Len(C) : Placed(C, F, G, H, i)

(* A thread with frames, a count of calls and a flag as measured at i.     *)
At(l, i, F, G, H) == Len(l.ci) = F[i] /\ l.nCcalls = G[i] /\ l.allowhook = H[i]

TopThread(C) == IF Len(C) = 0 THEN MainThread ELSE C[Len(C)].t

(* A coroutine between lua_yield and lua_resume's return, or the other way.*)
Switching(l, C, M) == M = "run" /\ l.status = "yield" /\ Len(C) > 0 /\ IsResume(C[Len(C)])

(* Above j, a coroutine runs that the thread below has resumed.            *)
Waiting(T, C, F, G, H, j) ==
    At(T[C[j - 1].t], j - 1, F, G, H) /\ T[C[j].t].baseCcalls = G[j]

(* How the thread on top fits the stack.                                   *)
Fits(l, C, M, F, G, H) ==
    IF Switching(l, C, M) THEN l.nCcalls = G[Len(C)] /\ l.allowhook = H[Len(C)]
    ELSE At(l, Len(C), F, G, H)

Counted(T, C, M, F, G, H) ==
    /\ Fits(T[TopThread(C)], C, M, F, G, H)
    /\ \A j \in 1..Len(C) : IsResume(C[j]) => Waiting(T, C, F, G, H, j)
    /\ T[MainThread].baseCcalls = 0

Jumps(T, C) == \A t \in Thread : Innermost(C, t, T[t].errorJmp, Len(C))

Alive(T, C, M) ==
    /\ \A t \in Thread :
          /\ T[t].errorJmp # 0 =>
                \/ T[t].status = "ok" /\ (TopThread(C) = t \/ T[t].ci # <<>>)
                \/ TopThread(C) = t /\ Switching(T[t], C, M)
          /\ T[t].status = "yield" => Len(T[t].ci) >= 2
    /\ T[MainThread].status = "ok"
    /\ M # "run" => Len(C) > 0

Shape(T, C, M, F, G, H) ==
    /\ Measured(C, F, G, H)
    /\ Counted(T, C, M, F, G, H) /\ Jumps(T, C) /\ Alive(T, C, M)

Good(T, C, M) ==
    /\ T \in [Thread -> LuaState] /\ C \in Seq(Activation) /\ M \in Mode
    /\ \E F, G, H : Shape(T, C, M, F, G, H)

CallsInv == Good(th, cstack, mode)

-----------------------------------------------------------------------------
(* Facts about stacks.                                                     *)

LEMMA ActivationFacts ==
    ASSUME NEW a \in Activation
    PROVE  /\ a.t \in Thread
           /\ FramesOf(a) \in Nat /\ CCallsOf(a) \in Nat
           /\ a.k = "cfun" => a \in CFun
           /\ a.k = "exec" => a \in Exec
           /\ a.k = "parse" => a \in Parse
           /\ a.k = "gctm" => a \in Gctm
           /\ IsTry(a) => a \in Try
           /\ IsTry(a) => FramesOf(a) = 0
BY DEF Activation, CFun, Exec, Parse, Gctm, Plain, Try, FramesOf, CCallsOf, IsTry, IsResume

LEMMA AppendFacts ==
    ASSUME NEW C \in Seq(Activation), NEW a \in Activation
    PROVE  /\ Append(C, a) \in Seq(Activation)
           /\ Len(C) \in Nat /\ Len(Append(C, a)) = Len(C) + 1
           /\ Append(C, a)[Len(C) + 1] = a
           /\ \A i \in 1..Len(C) : Append(C, a)[i] = C[i] /\ C[i] \in Activation
OBVIOUS

LEMMA CutFacts ==
    ASSUME NEW S, NEW C \in Seq(S), NEW k \in 0..Len(C)
    PROVE  /\ SubSeq(C, 1, k) \in Seq(S)
           /\ Len(C) \in Nat /\ Len(SubSeq(C, 1, k)) = k
           /\ \A i \in 1..k : SubSeq(C, 1, k)[i] = C[i] /\ C[i] \in S
<1>1. \A i \in 1..k : C[i] \in S
  OBVIOUS
<1>. QED
  BY <1>1, SubSeqProperties

(* What holds at a place depends on what is below it only.                 *)
Agree(C, F, G, H, D, F2, G2, H2, i) ==
    /\ \A j \in 1..i : D[j] = C[j]
    /\ \A j \in 0..i : F2[j] = F[j] /\ G2[j] = G[j] /\ H2[j] = H[j]

LEMMA SameBelow ==
    ASSUME NEW C, NEW F, NEW G, NEW H, NEW D, NEW F2, NEW G2, NEW H2,
           NEW i \in Nat \ {0}, Agree(C, F, G, H, D, F2, G2, H2, i), Placed(C, F, G, H, i)
    PROVE  Placed(D, F2, G2, H2, i)
<1>0. /\ \A j \in 1..i : D[j] = C[j]
      /\ \A j \in 0..i : F2[j] = F[j] /\ G2[j] = G[j] /\ H2[j] = H[j]
  BY DEF Agree
<1>1. D[i] = C[i] /\ (i > 1 => D[i - 1] = C[i - 1])
  BY <1>0
<1>2. Stacked(C, i) => Stacked(D, i)
  BY <1>1 DEF Stacked
<1>3. Based(C, i) => Based(D, i)
  <2>1. ASSUME NEW m \in 1..i, Base(C, m, i) PROVE Base(D, m, i)
    BY <1>0, <2>1 DEF Base
  <2>. QED
    BY <2>1 DEF Based
<1>4. Linked(C, i) => Linked(D, i)
  BY <1>0, <1>1 DEF Linked, Innermost
<1>5. LevelAt(C, F, G, H, i) => LevelAt(D, F2, G2, H2, i)
  <2>1. i \in 0..i /\ i - 1 \in 0..i
    BY <1>0
  <2>. QED
    BY <1>0, <1>1, <2>1 DEF LevelAt
<1>6. ASSUME NEW j \in 0..i, Rises(C, F, G, j, i) PROVE Rises(D, F2, G2, j, i)
  <2>1. i \in 0..i
    BY <1>0
  <2>2. \A m \in (j + 1)..i : D[m] = C[m]
    BY <1>0
  <2>. QED
    BY <1>0, <1>6, <2>1, <2>2 DEF Rises
<1>. QED
  BY <1>2, <1>3, <1>4, <1>5, <1>6 DEF Placed

(* The thread on top has a handler, and does not wait for another one.     *)
TopReady(T, C, M, n, t, e) ==
    /\ t \in Thread /\ TopThread(C) = t /\ T[t] \in LuaState
    /\ e \in 1..n /\ IsTry(C[e]) /\ C[e].t = t
    /\ \A j \in e..n : C[j].t = t
    /\ \A j \in (e + 1)..n : ~IsTry(C[j])
    /\ T[t].status = "ok" \/ Switching(T[t], C, M)
    /\ \A j \in 1..n : IsResume(C[j]) =>
          j > 1 /\ C[j - 1].t \in Thread /\ C[j - 1].t # t

LEMMA TopFacts ==
    ASSUME NEW T \in [Thread -> LuaState], NEW C \in Seq(Activation), NEW M,
           NEW F, NEW G, NEW H, Shape(T, C, M, F, G, H),
           NEW n \in Nat \ {0}, n = Len(C), NEW t, t = C[n].t, NEW e, e = T[t].errorJmp
    PROVE  TopReady(T, C, M, n, t, e)
<1>1. \A i \in 1..n : C[i] \in Activation /\ C[i].t \in Thread
  BY ActivationFacts
<1>0. /\ \A i \in 1..n : Stacked(C, i) /\ Based(C, i) /\ Linked(C, i)
      /\ Counted(T, C, M, F, G, H) /\ Jumps(T, C) /\ Alive(T, C, M)
  BY DEF Shape, Measured, Placed
<1>2. t \in Thread /\ TopThread(C) = t /\ T[t] \in LuaState /\ e \in Nat
  BY <1>1 DEF TopThread, LuaState
<1>3. PICK m \in 1..n : Base(C, m, n)
  BY <1>0 DEF Based
<1>4. ASSUME NEW i \in 1..n, NEW b \in 1..i, Base(C, b, i)
      PROVE  IsTry(C[b])
  <2>1. b \in 1..n
    OBVIOUS
  <2>. QED
    BY <1>0, <1>4, <2>1 DEF Stacked, Base, IsResume, IsTry
<1>5. Innermost(C, t, e, n)
  BY <1>0, <1>2 DEF Jumps
<1>6. e \in m..n /\ C[e].t = t
  BY <1>1, <1>2, <1>3, <1>4, <1>5 DEF Innermost, Base
<1>7. \A j \in e..n : C[j].t = t
  BY <1>1, <1>3, <1>6 DEF Base
<1>8. IsTry(C[e]) /\ \A j \in (e + 1)..n : ~IsTry(C[j])
  <2>1. e # 0 /\ e \in Nat
    BY <1>6
  <2>2. IsTry(C[e])
    BY <2>1, <1>5 DEF Innermost
  <2>3. \A j \in (e + 1)..n : C[j].t = t
    BY <1>7, <2>1
  <2>. QED
    BY <2>2, <2>3, <1>5 DEF Innermost
<1>9. T[t].status = "ok" \/ Switching(T[t], C, M)
  BY <1>0, <1>2, <1>6 DEF Alive
<1>10. ASSUME NEW j \in 1..n, IsResume(C[j])
       PROVE  j > 1 /\ C[j - 1].t \in Thread /\ C[j - 1].t # t
  <2>1. j > 1 /\ C[j - 1].t \in Thread
    BY <1>0, <1>1, <1>10 DEF Stacked, IsResume, IsTry
  <2>2. ASSUME C[j - 1].t = t PROVE FALSE
    <3>1. j <= m
      BY <1>1, <1>3, <1>10 DEF Base
    <3>2. IsResume(C[m]) /\ m > 1 /\ C[m].t = t
      BY <1>1, <1>3, <2>1, <3>1 DEF Base
    <3>3. C[m].previous = 0 /\ t # MainThread
      BY <3>2, <1>0, <1>1 DEF Stacked, IsResume, IsTry
    <3>4. \A i \in 1..(m - 1) : ~(IsTry(C[i]) /\ C[i].t = t)
      BY <3>2, <3>3, <1>0 DEF Linked, Innermost, IsResume, IsTry
    <3>5. PICK b \in 1..(j - 1) : Base(C, b, j - 1)
      BY <1>0, <2>1 DEF Based
    <3>6. C[b].t = t /\ b \in 1..(m - 1)
      BY <1>1, <2>1, <2>2, <3>1, <3>5 DEF Base
    <3>7. IsTry(C[b])
      BY <1>4, <2>1, <3>5
    <3>. QED
      BY <3>4, <3>6, <3>7
  <2>. QED
    BY <2>1, <2>2
<1>11. \A j \in 1..n : IsResume(C[j]) =>
           j > 1 /\ C[j - 1].t \in Thread /\ C[j - 1].t # t
  BY <1>10
<1>12. e \in 1..n
  BY <1>6
<1>. QED
  BY <1>2, <1>6, <1>7, <1>8, <1>9, <1>11, <1>12 DEF TopReady

(* One more activation.                                                    *)
MoreFrames(F, n, a) ==
    [i \in 0..(n + 1) |-> IF i <= n THEN F[i]
                          ELSE IF IsResume(a) THEN 0 ELSE F[n] + FramesOf(a)]

MoreCalls(G, n, a) == [i \in 0..(n + 1) |-> IF i <= n THEN G[i] ELSE G[n] + CCallsOf(a)]

MoreHooks(H, n, h) == [i \in 0..(n + 1) |-> IF i <= n THEN H[i] ELSE h]

(* What an activation at n + 1 keeps, h being the flag above it.           *)
Keeps(a, F, G, H, n, h) ==
    /\ NoHooks(a) => ~h
    /\ a.k = "hook" => H[n]
    /\ a.k = "gctm" => H[n] = a.oldah
    /\ ~NoHooks(a) /\ ~IsResume(a) => h = H[n]
    /\ IsTry(a) /\ a.kind = "pcall" =>
          a.old_ci = F[n] /\ a.oldnCcalls = G[n] /\ a.old_allowhooks = H[n]

LEMMA MeasureMore ==
    ASSUME NEW C \in Seq(Activation), NEW F, NEW G, NEW H, Measured(C, F, G, H),
           NEW n \in Nat, n = Len(C), NEW a \in Activation,
           Stacked(Append(C, a), n + 1), Linked(Append(C, a), n + 1),
           IsResume(a) \/ n = 0 \/ a.t = C[n].t,
           NEW h \in BOOLEAN, Keeps(a, F, G, H, n, h)
    PROVE  Measured(Append(C, a), MoreFrames(F, n, a), MoreCalls(G, n, a), MoreHooks(H, n, h))
<1>. DEFINE D == Append(C, a)
            F2 == MoreFrames(F, n, a)
            G2 == MoreCalls(G, n, a)
            H2 == MoreHooks(H, n, h)
<1>1. /\ D \in Seq(Activation) /\ Len(D) = n + 1 /\ D[n + 1] = a
      /\ \A i \in 1..n : D[i] = C[i]
  BY AppendFacts
<1>2. FramesOf(a) \in Nat /\ CCallsOf(a) \in Nat
  BY ActivationFacts
<1>3. /\ \A i \in 0..n : F2[i] = F[i] /\ G2[i] = G[i] /\ H2[i] = H[i]
      /\ F2[n + 1] = (IF IsResume(a) THEN 0 ELSE F[n] + FramesOf(a))
      /\ G2[n + 1] = G[n] + CCallsOf(a) /\ H2[n + 1] = h
  BY DEF MoreFrames, MoreCalls, MoreHooks
<1>d. Stacked(D, n + 1) /\ Linked(D, n + 1)
  OBVIOUS
<1>4. F \in [0..n -> Nat] /\ G \in [0..n -> Nat] /\ H \in [0..n -> BOOLEAN] /\ F[0] = 0 /\ G[0] = 0
  BY DEF Measured
<1>5. /\ F2 \in [0..(n + 1) -> Nat] /\ G2 \in [0..(n + 1) -> Nat]
      /\ H2 \in [0..(n + 1) -> BOOLEAN]
      /\ F2[0] = 0 /\ G2[0] = 0
  BY <1>2, <1>4 DEF MoreFrames, MoreCalls, MoreHooks
<1>. HIDE DEF D, F2, G2, H2
<1>6. ASSUME NEW i \in 1..n PROVE Placed(D, F2, G2, H2, i)
  <2>1. Placed(C, F, G, H, i)
    BY DEF Measured
  <2>2. Agree(C, F, G, H, D, F2, G2, H2, i)
    BY <1>1, <1>3 DEF Agree
  <2>3. i \in Nat \ {0}
    OBVIOUS
  <2>. QED
    BY <2>1, <2>2, <2>3, SameBelow
<1>7. Based(D, n + 1)
  <2>1. CASE IsResume(a) \/ n = 0
    <3>1. Base(D, n + 1, n + 1)
      BY <1>1, <2>1 DEF Base
    <3>. QED
      BY <3>1 DEF Based
  <2>2. CASE n > 0 /\ a.t = C[n].t /\ ~IsResume(a)
    <3>0. n \in 1..n
      BY <2>2
    <3>1. PICK m \in 1..n : Base(D, m, n)
      BY <1>6, <3>0 DEF Placed, Based
    <3>2. Base(D, m, n + 1)
      BY <1>1, <2>2, <3>1 DEF Base
    <3>. QED
      BY <3>2 DEF Based
  <2>. QED
    BY <2>1, <2>2
<1>8. LevelAt(D, F2, G2, H2, n + 1)
  <2>1. F2[n] = F[n] /\ G2[n] = G[n] /\ H2[n] = H[n] /\ (n + 1) - 1 = n
    BY <1>3
  <2>. QED
    BY <1>1, <1>3, <2>1 DEF LevelAt, Keeps
<1>9. ASSUME NEW j \in 0..(n + 1) PROVE Rises(D, F2, G2, j, n + 1)
  <2>1. CASE j = n + 1
    BY <2>1, <1>5 DEF Rises
  <2>2. CASE j \in 0..n
    <3>1. Rises(D, F2, G2, j, n)
      <4>1. CASE n = 0
        BY <4>1, <2>2, <1>5 DEF Rises
      <4>2. CASE n \in 1..n
        BY <4>2, <2>2, <1>6 DEF Placed
      <4>. QED
        BY <4>1, <4>2
    <3>2. /\ F2[j] \in Nat /\ F2[n] \in Nat /\ F2[n + 1] \in Nat
          /\ G2[j] \in Nat /\ G2[n] \in Nat /\ G2[n + 1] \in Nat /\ G2[n + 1] >= G2[n]
          /\ ~IsResume(D[n + 1]) => F2[n + 1] >= F2[n]
      <4>1. n \in 0..n /\ n \in 0..(n + 1) /\ n + 1 \in 0..(n + 1)
        OBVIOUS
      <4>2. F[n] \in Nat /\ G[n] \in Nat
        BY <4>1, <1>4
      <4>3. F2[n] = F[n] /\ G2[n] = G[n]
        BY <4>1, <1>3
      <4>4. G2[n + 1] >= G2[n] /\ (~IsResume(a) => F2[n + 1] >= F2[n])
        <5>1. G2[n + 1] = G[n] + CCallsOf(a) /\ (~IsResume(a) => F2[n + 1] = F[n] + FramesOf(a))
          BY <1>3
        <5>. QED
          BY <4>2, <4>3, <5>1, <1>2
      <4>. QED
        BY <4>1, <4>4, <1>1, <1>5
    <3>3. (\A m \in (j + 1)..(n + 1) : ~IsResume(D[m])) =>
             ~IsResume(D[n + 1]) /\ \A m \in (j + 1)..n : ~IsResume(D[m])
      BY <2>2
    <3>. QED
      BY <3>1, <3>2, <3>3 DEF Rises
  <2>. QED
    BY <2>1, <2>2
<1>10. Placed(D, F2, G2, H2, n + 1)
  BY <1>d, <1>7, <1>8, <1>9 DEF Placed
<1>11. ASSUME NEW i \in 1..(n + 1) PROVE Placed(D, F2, G2, H2, i)
  <2>1. i \in 1..n \/ i = n + 1
    OBVIOUS
  <2>. QED
    BY <1>6, <1>10, <2>1
<1>12. Measured(D, F2, G2, H2)
  BY <1>1, <1>5, <1>11 DEF Measured
<1>. QED
  BY <1>12 DEF D, F2, G2, H2

(* A part of the stack is cut off.                                         *)
LEMMA MeasureLess ==
    ASSUME NEW C \in Seq(Activation), NEW F, NEW G, NEW H, Measured(C, F, G, H),
           NEW k \in 0..Len(C), NEW D, D = SubSeq(C, 1, k)
    PROVE  Measured(D, [i \in 0..k |-> F[i]], [i \in 0..k |-> G[i]], [i \in 0..k |-> H[i]])
<1>. DEFINE F2 == [i \in 0..k |-> F[i]]
            G2 == [i \in 0..k |-> G[i]]
            H2 == [i \in 0..k |-> H[i]]
<1>1. /\ Len(C) \in Nat /\ k \in Nat /\ Len(D) = k
      /\ \A i \in 1..k : D[i] = C[i]
  BY CutFacts
<1>2. F \in [0..Len(C) -> Nat] /\ G \in [0..Len(C) -> Nat] /\ H \in [0..Len(C) -> BOOLEAN]
      /\ F[0] = 0 /\ G[0] = 0
  BY DEF Measured
<1>3. \A i \in 0..k : F2[i] = F[i] /\ G2[i] = G[i] /\ H2[i] = H[i]
  OBVIOUS
<1>4. /\ F2 \in [0..k -> Nat] /\ G2 \in [0..k -> Nat] /\ H2 \in [0..k -> BOOLEAN]
      /\ F2[0] = 0 /\ G2[0] = 0
  <2>1. \A i \in 0..k : F[i] \in Nat /\ G[i] \in Nat /\ H[i] \in BOOLEAN
    <3>1. \A i \in 0..k : i \in 0..Len(C)
      BY <1>1
    <3>. QED
      BY <1>2, <3>1
  <2>2. 0 \in 0..k
    BY <1>1
  <2>. QED
    BY <1>2, <2>1, <2>2
<1>. HIDE DEF F2, G2, H2
<1>5. ASSUME NEW i \in 1..k PROVE Placed(D, F2, G2, H2, i)
  <2>1. Placed(C, F, G, H, i)
    BY <1>1 DEF Measured
  <2>2. Agree(C, F, G, H, D, F2, G2, H2, i)
    BY <1>1, <1>3 DEF Agree
  <2>3. i \in Nat \ {0}
    BY <1>1
  <2>. QED
    BY <2>1, <2>2, <2>3, SameBelow
<1>6. Measured(D, F2, G2, H2)
  BY <1>1, <1>4, <1>5 DEF Measured
<1>. QED
  BY <1>6 DEF F2, G2, H2

(* The thread on top goes on after a change of itself and of the stack.    *)
SameResumes(C, F, G, H, D, F2, G2, H2) ==
    \A j \in 1..Len(D) : IsResume(D[j]) =>
        /\ j \in 1..Len(C) /\ IsResume(C[j]) /\ D[j].t = C[j].t /\ D[j - 1].t = C[j - 1].t
        /\ F2[j - 1] = F[j - 1] /\ G2[j - 1] = G[j - 1] /\ H2[j - 1] = H[j - 1]
        /\ G2[j] = G[j]

Ready(l, t, D, N) ==
    \/ l.status = "ok"
    \/ Switching(l, D, N) /\ Len(l.ci) >= 2 /\ t # MainThread

LEMMA SameThread ==
    ASSUME NEW T \in [Thread -> LuaState], NEW C \in Seq(Activation), NEW M,
           NEW F, NEW G, NEW H, Shape(T, C, M, F, G, H),
           NEW t, t = TopThread(C),
           NEW D \in Seq(Activation), NEW F2, NEW G2, NEW H2, Measured(D, F2, G2, H2),
           TopThread(D) = t, SameResumes(C, F, G, H, D, F2, G2, H2),
           NEW l \in LuaState, NEW N \in Mode, Fits(l, D, N, F2, G2, H2),
           Ready(l, t, D, N),
           l.baseCcalls = T[t].baseCcalls,
            N # "run" => Len(D) > 0,
           NEW T2, T2 = [T EXCEPT ![t] = l], Jumps(T2, D)
    PROVE  Good(T2, D, N)
<1>1. Counted(T, C, M, F, G, H) /\ Alive(T, C, M)
  BY DEF Shape
<1>2. Len(C) \in Nat /\ Len(D) \in Nat /\ (Len(C) = 0 => t = MainThread)
  BY DEF TopThread
<1>3. t \in Thread
  <2>1. CASE Len(C) = 0
    BY <1>2, <2>1, CallsAssumption
  <2>2. CASE Len(C) # 0
    <3>1. C[Len(C)] \in Activation /\ t = C[Len(C)].t
      BY <1>2, <2>2 DEF TopThread
    <3>. QED
      BY <3>1, ActivationFacts
  <2>. QED
    BY <2>1, <2>2
<1>4. T2 \in [Thread -> LuaState] /\ T2[t] = l /\ \A u \in Thread \ {t} : T2[u] = T[u]
  BY <1>3
<1>5. ASSUME NEW j \in 1..Len(D), IsResume(D[j])
      PROVE  Waiting(T2, D, F2, G2, H2, j)
  <2>1. /\ j \in 1..Len(C) /\ IsResume(C[j]) /\ D[j].t = C[j].t /\ D[j - 1].t = C[j - 1].t
        /\ F2[j - 1] = F[j - 1] /\ G2[j - 1] = G[j - 1] /\ H2[j - 1] = H[j - 1]
        /\ G2[j] = G[j]
    BY <1>5 DEF SameResumes
  <2>2. Waiting(T, C, F, G, H, j)
    BY <1>1, <2>1 DEF Counted
  <2>3. TopReady(T, C, M, Len(C), t, T[t].errorJmp)
    <3>1. Len(C) \in Nat \ {0} /\ t = C[Len(C)].t
      BY <1>2, <2>1 DEF TopThread
    <3>. QED
      BY <3>1, TopFacts
  <2>4. C[j - 1].t \in Thread /\ C[j - 1].t # t
    BY <2>1, <2>3 DEF TopReady
  <2>5. D[j].t \in Thread
    <3>1. D[j] \in Activation
      BY <1>2
    <3>. QED
      BY <3>1, ActivationFacts
  <2>6. T2[D[j - 1].t] = T[C[j - 1].t] /\ T2[D[j].t].baseCcalls = T[C[j].t].baseCcalls
    BY <1>4, <2>1, <2>4, <2>5
  <2>. QED
    BY <2>1, <2>2, <2>6 DEF Waiting, At
<1>6. Counted(T2, D, N, F2, G2, H2)
  <2>2. T2[MainThread].baseCcalls = 0
    BY <1>1, <1>4, CallsAssumption DEF Counted
  <2>. QED
    BY <1>4, <1>5, <2>2 DEF Counted
<1>7. Alive(T2, D, N)
  <2>1. ASSUME NEW u \in Thread, T2[u].errorJmp # 0
        PROVE  \/ T2[u].status = "ok" /\ (TopThread(D) = u \/ T2[u].ci # <<>>)
               \/ TopThread(D) = u /\ Switching(T2[u], D, N)
    BY <1>1, <1>4, <2>1 DEF Alive, TopThread, Ready
  <2>2. ASSUME NEW u \in Thread, T2[u].status = "yield" PROVE Len(T2[u].ci) >= 2
    BY <1>1, <1>4, <2>2 DEF Alive, Ready
  <2>3. T2[MainThread].status = "ok"
    BY <1>1, <1>4, CallsAssumption DEF Alive, Ready
  <2>. QED
    BY <2>1, <2>2, <2>3 DEF Alive
<1>8. Shape(T2, D, N, F2, G2, H2)
  BY <1>6, <1>7 DEF Shape
<1>. QED
  BY <1>4, <1>8 DEF Good

-----------------------------------------------------------------------------
(* What the steps do to the stack and to the thread on top.                *)

(* Where the thread on top is.                                             *)
TopAt(T, C, M, F, G, H, n, t) ==
    /\ TopThread(C) = t
    /\ T[t].nCcalls = G[n] /\ T[t].allowhook = H[n]
    /\ ~Switching(T[t], C, M) => Len(T[t].ci) = F[n]

LEMMA TopMeasure ==
    ASSUME NEW T, NEW C, NEW M, NEW F, NEW G, NEW H, Shape(T, C, M, F, G, H),
           NEW n, n = Len(C), NEW t, t = TopThread(C)
    PROVE  TopAt(T, C, M, F, G, H, n, t)
BY DEF Shape, Counted, Fits, At, TopAt

(* An activation that is no handler, with its frames and its calls.        *)
LEMMA PushKeeps ==
    ASSUME NEW T, NEW C, NEW M, Good(T, C, M),
           NEW n, n = Len(C), n # 0, NEW t, t = C[n].t,
           NEW a \in Activation, ~IsTry(a), a.t = t,
           a.k = "cfun" => C[n].k \in {"exec", "call"},
           a.k = "exec" => C[n].k = "call" \/ IsResume(C[n]),
           a.k = "hook" => T[t].allowhook,
           a.k = "gctm" => T[t].allowhook = a.oldah,
           NEW l \in LuaState, l.status = "ok", NEW N \in Mode,
           Len(l.ci) = (IF IsResume(C[n]) THEN 0 ELSE Len(T[t].ci)) + FramesOf(a),
           l.nCcalls = T[t].nCcalls + CCallsOf(a),
           l.baseCcalls = T[t].baseCcalls, l.errorJmp = T[t].errorJmp,
           l.allowhook = IF NoHooks(a) THEN FALSE ELSE T[t].allowhook
    PROVE  Good([T EXCEPT ![t] = l], Append(C, a), N)
<1>1. PICK F, G, H : Shape(T, C, M, F, G, H)
  BY DEF Good
<1>2. /\ T \in [Thread -> LuaState] /\ C \in Seq(Activation) /\ M \in Mode
      /\ n \in Nat \ {0}
  BY DEF Good
<1>. DEFINE D == Append(C, a)
            T2 == [T EXCEPT ![t] = l]
            F2 == MoreFrames(F, n, a)
            G2 == MoreCalls(G, n, a)
            H2 == MoreHooks(H, n, l.allowhook)
<1>3. /\ D \in Seq(Activation) /\ Len(D) = n + 1 /\ D[n + 1] = a
      /\ \A i \in 1..n : D[i] = C[i]
  BY <1>2, AppendFacts
<1>4. TopReady(T, C, M, n, t, T[t].errorJmp)
  BY <1>1, <1>2, TopFacts
<1>5. TopAt(T, C, M, F, G, H, n, t)
  BY <1>1, <1>4, TopMeasure DEF TopReady
<1>6. ~IsResume(a) /\ l.allowhook \in BOOLEAN
  BY DEF IsResume, IsTry, LuaState
<1>7. Measured(C, F, G, H) /\ Jumps(T, C)
  BY <1>1 DEF Shape
<1>8. F[n] = IF IsResume(C[n]) THEN 0 ELSE Len(T[t].ci)
  <2>1. LevelAt(C, F, G, H, n)
    BY <1>2, <1>7 DEF Measured, Placed
  <2>2. CASE IsResume(C[n])
    BY <2>1, <2>2 DEF LevelAt
  <2>3. CASE ~IsResume(C[n])
    BY <1>5, <2>3 DEF TopAt, Switching
  <2>. QED
    BY <2>2, <2>3
<1>9. Stacked(D, n + 1) /\ Linked(D, n + 1)
  BY <1>2, <1>3, <1>6 DEF Stacked, Linked, IsTry
<1>10. Keeps(a, F, G, H, n, l.allowhook)
  BY <1>5 DEF TopAt, Keeps
<1>m. Measured(D, F2, G2, H2)
  BY <1>2, <1>6, <1>7, <1>9, <1>10, MeasureMore
<1>11. D = Append(C, a) /\ T2 = [T EXCEPT ![t] = l]
  OBVIOUS
<1>12. /\ F2[n + 1] = F[n] + FramesOf(a) /\ G2[n + 1] = G[n] + CCallsOf(a)
       /\ H2[n + 1] = l.allowhook
       /\ \A i \in 0..n : F2[i] = F[i] /\ G2[i] = G[i] /\ H2[i] = H[i]
  <2>1. n + 1 \in 0..(n + 1) /\ ~(n + 1 <= n) /\ \A i \in 0..n : i \in 0..(n + 1) /\ i <= n
    BY <1>2
  <2>. QED
    BY <1>6, <2>1 DEF MoreFrames, MoreCalls, MoreHooks
<1>. HIDE DEF D, T2, F2, G2, H2
<1>13. T2[t] = l /\ \A u \in Thread \ {t} : T2[u] = T[u]
  BY <1>2, <1>4, <1>11 DEF TopReady
<1>14. At(l, Len(D), F2, G2, H2)
  <2>1. Len(l.ci) = F2[n + 1]
    BY <1>8, <1>12
  <2>2. l.nCcalls = G2[n + 1] /\ l.allowhook = H2[n + 1]
    BY <1>5, <1>12 DEF TopAt
  <2>. QED
    BY <1>3, <2>1, <2>2 DEF At
<1>r. Ready(l, t, D, N)
  BY DEF Ready
<1>f. Fits(l, D, N, F2, G2, H2)
  BY <1>14 DEF Fits, Switching
<1>15. TopThread(D) = t
  BY <1>2, <1>3 DEF TopThread
<1>16. SameResumes(C, F, G, H, D, F2, G2, H2)
  <2>1. ASSUME NEW j \in 1..Len(D), IsResume(D[j]) PROVE j \in 2..n
    <3>1. j # n + 1
      BY <1>3, <1>6, <2>1
    <3>2. j \in 1..n
      BY <1>2, <1>3, <3>1
    <3>. QED
      BY <1>3, <1>4, <2>1, <3>2 DEF TopReady
  <2>2. ASSUME NEW j \in 2..n
        PROVE  /\ j \in 1..n /\ D[j] = C[j] /\ D[j - 1] = C[j - 1]
               /\ F2[j - 1] = F[j - 1] /\ G2[j - 1] = G[j - 1] /\ H2[j - 1] = H[j - 1]
               /\ G2[j] = G[j]
    BY <1>2, <1>3, <1>12
  <2>. QED
    BY <2>1, <2>2 DEF SameResumes
<1>17. Jumps(T2, D)
  <2>1. ASSUME NEW u \in Thread PROVE Innermost(D, u, T2[u].errorJmp, n + 1)
    <3>1. Innermost(C, u, T[u].errorJmp, n) /\ T2[u].errorJmp = T[u].errorJmp
      BY <1>7, <1>13 DEF Jumps
    <3>. QED
      BY <1>2, <1>3, <3>1 DEF Innermost
  <2>. QED
    BY <1>3, <2>1 DEF Jumps
<1>18. Good(T2, D, N)
  <2>1. Len(D) > 0
    BY <1>2, <1>3
  <2>. QED
    BY <1>1, <1>2, <1>3, <1>4, <1>m, <1>f, <1>r, <1>11, <1>15, <1>16, <1>17, <2>1, SameThread
       DEF TopReady
<1>. QED
  BY <1>11, <1>18

(* The thread on top goes back to where it was at k.                       *)
LEMMA CutKeeps ==
    ASSUME NEW T, NEW C, NEW M, Good(T, C, M), NEW F, NEW G, NEW H, Shape(T, C, M, F, G, H),
           NEW n, n = Len(C), NEW t, t = TopThread(C), NEW k \in 0..n,
           NEW D, D = SubSeq(C, 1, k), TopThread(D) = t,
           \A j \in (k + 1)..n : IsTry(C[j]) => C[j].t = t,
           NEW l \in LuaState, NEW N \in Mode, Fits(l, D, N, F, G, H),
           Ready(l, t, D, N),
           l.baseCcalls = T[t].baseCcalls, Innermost(C, t, l.errorJmp, k),
            N # "run" => k > 0
    PROVE  Good([T EXCEPT ![t] = l], D, N)
<1>1. /\ T \in [Thread -> LuaState] /\ C \in Seq(Activation) /\ M \in Mode /\ n \in Nat
  BY DEF Good
<1>2. /\ D \in Seq(Activation) /\ Len(D) = k /\ k \in Nat
      /\ \A i \in 1..k : D[i] = C[i]
  BY <1>1, CutFacts
<1>. DEFINE T2 == [T EXCEPT ![t] = l]
            F2 == [i \in 0..k |-> F[i]]
            G2 == [i \in 0..k |-> G[i]]
            H2 == [i \in 0..k |-> H[i]]
<1>3. Measured(C, F, G, H) /\ Jumps(T, C)
  BY DEF Shape
<1>4. Measured(D, F2, G2, H2)
  BY <1>1, <1>3, MeasureLess
<1>5. \A i \in 0..k : F2[i] = F[i] /\ G2[i] = G[i] /\ H2[i] = H[i]
  OBVIOUS
<1>6. T2 = [T EXCEPT ![t] = l]
  OBVIOUS
<1>. HIDE DEF T2, F2, G2, H2
<1>7. Fits(l, D, N, F2, G2, H2)
  BY <1>1, <1>2, <1>5 DEF Fits, At
<1>8. ASSUME NEW j \in 1..k, IsResume(C[j]) PROVE j > 1
  <2>1. Stacked(C, j)
    BY <1>1, <1>2, <1>3 DEF Measured, Placed
  <2>. QED
    BY <2>1, <1>8 DEF Stacked, IsResume, IsTry
<1>9. SameResumes(C, F, G, H, D, F2, G2, H2)
  <2>1. ASSUME NEW j \in 1..k, IsResume(D[j])
        PROVE  /\ j \in 1..n /\ D[j] = C[j] /\ D[j - 1] = C[j - 1]
               /\ F2[j - 1] = F[j - 1] /\ G2[j - 1] = G[j - 1] /\ H2[j - 1] = H[j - 1]
               /\ G2[j] = G[j]
    <3>1. j > 1 /\ j \in 0..k /\ j - 1 \in 0..k /\ j - 1 \in 1..k
      BY <1>2, <1>8, <2>1
    <3>. QED
      BY <1>1, <1>2, <1>5, <3>1
  <2>. QED
    BY <1>2, <2>1 DEF SameResumes
<1>10. Jumps(T2, D)
  <2>1. ASSUME NEW u \in Thread PROVE Innermost(D, u, T2[u].errorJmp, k)
    <3>1. Innermost(C, u, T2[u].errorJmp, k)
      <4>1. CASE u = t
        BY <1>1, <1>6, <4>1
      <4>2. CASE u # t
        <5>1. Innermost(C, u, T[u].errorJmp, n) /\ T2[u].errorJmp = T[u].errorJmp
          BY <1>1, <1>3, <1>6, <4>2 DEF Jumps
        <5>2. T[u].errorJmp \in 0..k
          BY <1>1, <1>2, <4>2, <5>1 DEF Innermost
        <5>. QED
          BY <1>1, <1>2, <5>1, <5>2 DEF Innermost
      <4>. QED
        BY <4>1, <4>2
    <3>. QED
      BY <1>2, <3>1 DEF Innermost
  <2>. QED
    BY <1>2, <2>1 DEF Jumps
<1>11. Good(T2, D, N)
  BY <1>1, <1>2, <1>4, <1>6, <1>7, <1>9, <1>10, SameThread
<1>. QED
  BY <1>6, <1>11

(* The activation on top, that is no handler, ends.                        *)
LEMMA PopKeeps ==
    ASSUME NEW T, NEW C, NEW M, Good(T, C, M),
           NEW n, n = Len(C), n # 0, NEW t, t = C[n].t, ~IsTry(C[n]),
           NEW l \in LuaState, l.status = "ok",
           Len(l.ci) + FramesOf(C[n]) = Len(T[t].ci),
           l.nCcalls + CCallsOf(C[n]) = T[t].nCcalls,
           l.baseCcalls = T[t].baseCcalls, l.errorJmp = T[t].errorJmp,
           C[n].k = "hook" => l.allowhook,
           C[n].k = "gctm" => l.allowhook = C[n].oldah,
           ~NoHooks(C[n]) => l.allowhook = T[t].allowhook
    PROVE  Good([T EXCEPT ![t] = l], SubSeq(C, 1, n - 1), "run")
<1>1. PICK F, G, H : Shape(T, C, M, F, G, H)
  BY DEF Good
<1>2. /\ T \in [Thread -> LuaState] /\ C \in Seq(Activation) /\ n \in Nat \ {0}
  BY DEF Good
<1>3. TopReady(T, C, M, n, t, T[t].errorJmp)
  BY <1>1, <1>2, TopFacts
<1>4. TopAt(T, C, M, F, G, H, n, t)
  BY <1>1, <1>3, TopMeasure DEF TopReady
<1>5. ~IsResume(C[n]) /\ n \in 1..n
  BY <1>2 DEF IsResume, IsTry
<1>6. Placed(C, F, G, H, n) /\ Measured(C, F, G, H) /\ Jumps(T, C)
  BY <1>1, <1>5 DEF Shape, Measured
<1>7. n - 1 \in 1..n /\ C[n - 1].t = t
  <2>1. n # 1
    BY <1>2, <1>5, <1>6 DEF Placed, Stacked
  <2>2. PICK m \in 1..n : Base(C, m, n)
    BY <1>6 DEF Placed, Based
  <2>3. m # n
    BY <2>1, <2>2, <1>5 DEF Base
  <2>. QED
    BY <1>2, <2>1, <2>2, <2>3 DEF Base
<1>8. At(l, n - 1, F, G, H)
  <2>1. /\ F[n] = F[n - 1] + FramesOf(C[n]) /\ G[n] = G[n - 1] + CCallsOf(C[n])
        /\ F[n - 1] \in Nat /\ G[n - 1] \in Nat /\ H[n - 1] \in BOOLEAN
        /\ FramesOf(C[n]) \in Nat /\ CCallsOf(C[n]) \in Nat
    <3>1. C[n] \in Activation /\ n - 1 \in 0..n
      BY <1>2
    <3>2. FramesOf(C[n]) \in Nat /\ CCallsOf(C[n]) \in Nat
      BY <3>1, ActivationFacts
    <3>3. F[n - 1] \in Nat /\ G[n - 1] \in Nat /\ H[n - 1] \in BOOLEAN
      BY <1>6, <3>1 DEF Measured
    <3>. QED
      BY <1>5, <1>6, <3>2, <3>3 DEF Placed, LevelAt
  <2>2. Len(T[t].ci) = F[n] /\ T[t].nCcalls = G[n] /\ T[t].allowhook = H[n]
    BY <1>4, <1>5 DEF TopAt, Switching
  <2>3. Len(l.ci) \in Nat /\ l.nCcalls \in Nat /\ l.allowhook \in BOOLEAN
    BY DEF LuaState
  <2>4. Len(l.ci) = F[n - 1] /\ l.nCcalls = G[n - 1]
    BY <2>1, <2>2, <2>3
  <2>5. l.allowhook = H[n - 1]
    BY <1>5, <1>6, <2>1, <2>2, <2>3 DEF Placed, LevelAt, NoHooks
  <2>. QED
    BY <2>4, <2>5 DEF At
<1>9. /\ TopThread(SubSeq(C, 1, n - 1)) = t
      /\ Fits(l, SubSeq(C, 1, n - 1), "run", F, G, H)
  BY <1>2, <1>7, <1>8, CutFacts DEF TopThread, Fits, Switching
<1>13. Ready(l, t, SubSeq(C, 1, n - 1), "run")
  BY DEF Ready
<1>10. Innermost(C, t, l.errorJmp, n - 1)
  <2>1. Innermost(C, t, T[t].errorJmp, n) /\ T[t].errorJmp # n
    BY <1>3, <1>6 DEF Jumps, TopReady
  <2>. QED
    BY <1>2, <2>1 DEF Innermost
<1>11. \A j \in ((n - 1) + 1)..n : ~IsTry(C[j])
  BY <1>2
<1>12. /\ n - 1 \in 0..n /\ "run" \in Mode /\ t = TopThread(C)
  BY <1>2, <1>3 DEF Mode, TopReady
<1>. QED
  BY <1>1, <1>9, <1>10, <1>11, <1>12, <1>13, CutKeeps

LEMMA ExceptFacts ==
    ASSUME NEW C \in Seq(Activation), NEW n \in Nat \ {0}, n = Len(C), NEW b \in Activation
    PROVE  /\ [C EXCEPT ![n] = b] = Append(SubSeq(C, 1, n - 1), b)
           /\ [C EXCEPT ![n] = b] \in Seq(Activation)
           /\ Len([C EXCEPT ![n] = b]) = n
           /\ [C EXCEPT ![n] = b][n] = b
           /\ \A i \in 1..(n - 1) : [C EXCEPT ![n] = b][i] = C[i]
<1>. DEFINE D == [C EXCEPT ![n] = b]
            E == Append(SubSeq(C, 1, n - 1), b)
<1>1. n \in 1..Len(C) /\ n - 1 \in 0..Len(C)
  OBVIOUS
<1>2. /\ D \in Seq(Activation) /\ Len(D) = n
      /\ \A i \in 1..n : D[i] = IF i = n THEN b ELSE C[i]
  BY <1>1, ExceptSeq
<1>3. /\ SubSeq(C, 1, n - 1) \in Seq(Activation) /\ Len(SubSeq(C, 1, n - 1)) = n - 1
      /\ \A i \in 1..(n - 1) : SubSeq(C, 1, n - 1)[i] = C[i]
  BY <1>1, CutFacts
<1>4. /\ E \in Seq(Activation) /\ Len(E) = n
      /\ \A i \in 1..n : E[i] = IF i = n THEN b ELSE C[i]
  BY <1>3, AppendFacts
<1>5. D = E
  BY <1>2, <1>4, SeqEqual
<1>. QED
  BY <1>2, <1>5

(* The activation on top changes, and the thread with it.                  *)
LEMMA TopKeeps ==
    ASSUME NEW T, NEW C, NEW M, Good(T, C, M),
           NEW n, n = Len(C), n # 0, NEW t, t = C[n].t, T[t].status = "ok",
           NEW b \in Activation, b.k = C[n].k, b.t = t, IsTry(b) => b = C[n],
           b.k = "gctm" => b = C[n],
           NEW l \in LuaState, l.status = "ok", NEW N \in Mode,
           Len(l.ci) + FramesOf(C[n]) = Len(T[t].ci) + FramesOf(b),
           l.nCcalls + CCallsOf(C[n]) = T[t].nCcalls + CCallsOf(b),
           l.baseCcalls = T[t].baseCcalls, l.errorJmp = T[t].errorJmp,
           l.allowhook = T[t].allowhook
    PROVE  Good([T EXCEPT ![t] = l], [C EXCEPT ![n] = b], N)
<1>1. PICK F, G, H : Shape(T, C, M, F, G, H)
  BY DEF Good
<1>2. /\ T \in [Thread -> LuaState] /\ C \in Seq(Activation) /\ M \in Mode
      /\ n \in Nat \ {0} /\ n \in 1..n /\ n - 1 \in 0..n
  BY DEF Good
<1>. DEFINE D == [C EXCEPT ![n] = b]
            T2 == [T EXCEPT ![t] = l]
            B == SubSeq(C, 1, n - 1)
            F1 == [i \in 0..(n - 1) |-> F[i]]
            G1 == [i \in 0..(n - 1) |-> G[i]]
            H1 == [i \in 0..(n - 1) |-> H[i]]
            F2 == MoreFrames(F1, n - 1, b)
            G2 == MoreCalls(G1, n - 1, b)
            H2 == MoreHooks(H1, n - 1, l.allowhook)
<1>3. /\ D = Append(B, b) /\ D \in Seq(Activation) /\ Len(D) = n /\ D[n] = b
      /\ \A i \in 1..(n - 1) : D[i] = C[i]
  BY <1>2, ExceptFacts
<1>4. /\ B \in Seq(Activation) /\ Len(B) = n - 1
      /\ \A i \in 1..(n - 1) : B[i] = C[i]
  BY <1>2, CutFacts
<1>5. TopReady(T, C, M, n, t, T[t].errorJmp)
  BY <1>1, <1>2, TopFacts
<1>6. TopAt(T, C, M, F, G, H, n, t)
  BY <1>1, <1>5, TopMeasure DEF TopReady
<1>7. Measured(C, F, G, H) /\ Jumps(T, C) /\ Placed(C, F, G, H, n)
  BY <1>1, <1>2 DEF Shape, Measured
<1>8. Measured(B, F1, G1, H1)
  BY <1>2, <1>7, MeasureLess
<1>9. \A i \in 0..(n - 1) : F1[i] = F[i] /\ G1[i] = G[i] /\ H1[i] = H[i]
  OBVIOUS
<1>10. /\ F2[n] = (IF IsResume(b) THEN 0 ELSE F[n - 1] + FramesOf(b))
       /\ G2[n] = G[n - 1] + CCallsOf(b)
       /\ H2[n] = l.allowhook
       /\ \A i \in 0..(n - 1) : F2[i] = F[i] /\ G2[i] = G[i] /\ H2[i] = H[i]
  <2>1. n \in 0..((n - 1) + 1) /\ ~(n <= n - 1) /\ n - 1 \in 0..(n - 1)
        /\ \A i \in 0..(n - 1) : i \in 0..((n - 1) + 1) /\ i <= n - 1
    BY <1>2
  <2>. QED
    BY <1>9, <2>1 DEF MoreFrames, MoreCalls, MoreHooks
<1>11. T2 = [T EXCEPT ![t] = l] /\ T2[t] = l /\ \A u \in Thread \ {t} : T2[u] = T[u]
  BY <1>2, <1>5 DEF TopReady
<1>. HIDE DEF D, T2, B, F1, G1, H1, F2, G2, H2
<1>12. Stacked(D, n)
  BY <1>2, <1>3, <1>7 DEF Placed, Stacked, IsTry
<1>13. Linked(D, n)
  <2>1. CASE IsTry(b)
    <3>1. Innermost(C, C[n].t, C[n].previous, n - 1)
      BY <1>7, <2>1 DEF Placed, Linked
    <3>2. D[n] = C[n] /\ C[n].previous \in 0..(n - 1)
      BY <1>3, <2>1, <3>1 DEF Innermost
    <3>3. Innermost(D, C[n].t, C[n].previous, n - 1)
      <4>1. \A j \in 1..(n - 1) : D[j] = C[j]
        BY <1>3
      <4>2. C[n].previous # 0 => C[n].previous \in 1..(n - 1)
        BY <1>2, <3>2
      <4>3. \A j \in (C[n].previous + 1)..(n - 1) : j \in 1..(n - 1)
        BY <1>2, <3>2
      <4>. QED
        BY <3>1, <4>1, <4>2, <4>3 DEF Innermost
    <3>. QED
      BY <3>2, <3>3 DEF Linked
  <2>2. CASE ~IsTry(b)
    BY <1>3, <2>2 DEF Linked
  <2>. QED
    BY <2>1, <2>2
<1>14. IsResume(b) \/ n - 1 = 0 \/ b.t = B[n - 1].t
  <2>1. PICK m \in 1..n : Base(C, m, n)
    BY <1>7 DEF Placed, Based
  <2>2. CASE m = n
    BY <1>2, <2>1, <2>2, <1>7 DEF Base, Placed, Stacked, IsResume, IsTry
  <2>3. CASE m # n
    BY <1>2, <1>4, <2>1, <2>3 DEF Base
  <2>. QED
    BY <2>2, <2>3
<1>15. Keeps(b, F1, G1, H1, n - 1, l.allowhook)
  <2>1. LevelAt(C, F, G, H, n) /\ l.allowhook = H[n]
    BY <1>6, <1>7 DEF Placed, TopAt
  <2>2. F1[n - 1] = F[n - 1] /\ G1[n - 1] = G[n - 1] /\ H1[n - 1] = H[n - 1]
    BY <1>2, <1>9
  <2>3. NoHooks(b) <=> NoHooks(C[n])
    BY DEF NoHooks
  <2>4. IsTry(b) \/ b.k = "gctm" => b = C[n]
    OBVIOUS
  <2>. QED
    BY <2>1, <2>2, <2>3, <2>4 DEF LevelAt, Keeps, IsResume, IsTry
<1>16. Measured(D, F2, G2, H2)
  <2>1. n - 1 \in Nat /\ (n - 1) + 1 = n /\ l.allowhook \in BOOLEAN
    BY <1>2 DEF LuaState
  <2>. QED
    BY <1>3, <1>4, <1>8, <1>12, <1>13, <1>14, <1>15, <2>1, MeasureMore DEF F2, G2, H2
<1>17. IsResume(b) <=> IsResume(C[n])
  BY DEF IsResume, IsTry
<1>18. Fits(l, D, N, F2, G2, H2) /\ Ready(l, t, D, N)
  <2>1. ~Switching(l, D, N) /\ ~Switching(T[t], C, M)
    BY DEF Switching
  <2>2. Len(T[t].ci) = F[n] /\ T[t].nCcalls = G[n] /\ T[t].allowhook = H[n]
    BY <1>6, <2>1 DEF TopAt
  <2>3. /\ F[n - 1] \in Nat /\ G[n - 1] \in Nat
        /\ FramesOf(C[n]) \in Nat /\ CCallsOf(C[n]) \in Nat
        /\ FramesOf(b) \in Nat /\ CCallsOf(b) \in Nat
    <3>1. C[n] \in Activation
      BY <1>2
    <3>2. F[n - 1] \in Nat /\ G[n - 1] \in Nat
      BY <1>2, <1>7 DEF Measured
    <3>. QED
      BY <3>1, <3>2, ActivationFacts
  <2>4. /\ Len(l.ci) \in Nat /\ l.nCcalls \in Nat
        /\ Len(T[t].ci) \in Nat /\ T[t].nCcalls \in Nat
    BY <1>5 DEF LuaState, TopReady
  <2>5. l.nCcalls = G2[n]
    <3>1. G[n] = G[n - 1] + CCallsOf(C[n])
      BY <1>7 DEF Placed, LevelAt
    <3>2. l.nCcalls = G[n - 1] + CCallsOf(b)
      <4>. DEFINE x == l.nCcalls  y == T[t].nCcalls  g == G[n - 1]
                  p == CCallsOf(C[n])  q == CCallsOf(b)
      <4>1. x + p = y + q /\ y = g + p
        BY <2>2, <3>1
      <4>2. x \in Nat /\ y \in Nat /\ g \in Nat /\ p \in Nat /\ q \in Nat
        BY <2>3, <2>4
      <4>. HIDE DEF x, y, g, p, q
      <4>3. x = g + q
        BY <4>1, <4>2
      <4>. QED
        BY <4>3 DEF x, g, q
    <3>. QED
      BY <1>10, <3>2
  <2>6. Len(l.ci) = F2[n]
    <3>1. CASE IsResume(b)
      <4>1. F[n] = 0 /\ b = C[n]
        BY <1>7, <1>17, <3>1 DEF Placed, LevelAt, IsResume, IsTry
      <4>. QED
        BY <1>10, <2>2, <2>3, <2>4, <3>1, <4>1
    <3>2. CASE ~IsResume(b)
      <4>1. F[n] = F[n - 1] + FramesOf(C[n])
        BY <1>7, <1>17, <3>2 DEF Placed, LevelAt
      <4>2. Len(l.ci) = F[n - 1] + FramesOf(b)
        <5>. DEFINE x == Len(l.ci)  y == Len(T[t].ci)  f == F[n - 1]
                    p == FramesOf(C[n])  q == FramesOf(b)
        <5>1. x + p = y + q /\ y = f + p
          BY <2>2, <4>1
        <5>2. x \in Nat /\ y \in Nat /\ f \in Nat /\ p \in Nat /\ q \in Nat
          BY <2>3, <2>4
        <5>. HIDE DEF x, y, f, p, q
        <5>3. x = f + q
          BY <5>1, <5>2
        <5>. QED
          BY <5>3 DEF x, f, q
      <4>. QED
        BY <1>10, <3>2, <4>2
    <3>. QED
      BY <3>1, <3>2
  <2>7. At(l, Len(D), F2, G2, H2)
    BY <1>3, <1>10, <2>5, <2>6 DEF At
  <2>. QED
    BY <2>1, <2>7 DEF Fits, Ready
<1>19. SameResumes(C, F, G, H, D, F2, G2, H2)
  <2>1. ASSUME NEW j \in 1..n, IsResume(D[j])
        PROVE  /\ j \in 1..n /\ IsResume(C[j]) /\ D[j].t = C[j].t /\ D[j - 1] = C[j - 1]
               /\ F2[j - 1] = F[j - 1] /\ G2[j - 1] = G[j - 1] /\ H2[j - 1] = H[j - 1]
               /\ G2[j] = G[j]
    <3>1. IsResume(C[j]) /\ D[j].t = C[j].t
      BY <1>2, <1>3, <1>17, <2>1
    <3>2. j > 1 /\ j - 1 \in 1..(n - 1) /\ j - 1 \in 0..(n - 1)
      BY <1>2, <1>5, <3>1 DEF TopReady
    <3>3. G2[j] = G[j]
      <4>1. CASE j = n
        <5>1. G[n] = G[n - 1] + CCallsOf(C[n]) /\ b = C[n]
          BY <1>7, <1>17, <3>1, <4>1 DEF Placed, LevelAt, IsResume, IsTry
        <5>. QED
          BY <1>10, <4>1, <5>1
      <4>2. CASE j # n
        BY <1>2, <1>10, <4>2
      <4>. QED
        BY <4>1, <4>2
    <3>. QED
      BY <1>3, <1>10, <3>1, <3>2, <3>3
  <2>. QED
    BY <1>2, <1>3, <2>1 DEF SameResumes
<1>20. Jumps(T2, D)
  <2>1. \A j \in 1..n : /\ IsTry(D[j]) <=> IsTry(C[j])
                        /\ D[j].t = C[j].t
    BY <1>2, <1>3 DEF IsTry
  <2>2. ASSUME NEW u \in Thread PROVE Innermost(D, u, T2[u].errorJmp, n)
    <3>1. Innermost(C, u, T[u].errorJmp, n) /\ T2[u].errorJmp = T[u].errorJmp
      BY <1>2, <1>7, <1>11 DEF Jumps
    <3>. QED
      BY <1>2, <2>1, <3>1 DEF Innermost
  <2>. QED
    BY <1>3, <2>2 DEF Jumps
<1>21. Good(T2, D, N)
  <2>1. TopThread(D) = t /\ Len(D) > 0 /\ t = TopThread(C)
    BY <1>2, <1>3, <1>5 DEF TopThread, TopReady
  <2>. QED
    BY <1>1, <1>2, <1>3, <1>11, <1>16, <1>18, <1>19, <1>20, <2>1, SameThread
<1>. QED
  BY <1>21 DEF T2, D

(* A thread with an activation has a handler.                              *)
LEMMA HandlerBelow ==
    ASSUME NEW T, NEW C, NEW M, NEW F, NEW G, NEW H, Shape(T, C, M, F, G, H),
           C \in Seq(Activation), NEW i \in 1..Len(C)
    PROVE  C[i].t \in Thread /\ T[C[i].t].errorJmp # 0
<1>1. Placed(C, F, G, H, i) /\ Jumps(T, C)
  BY DEF Shape, Measured
<1>2. PICK m \in 1..i : Base(C, m, i)
  BY <1>1 DEF Placed, Based
<1>3. m \in 1..Len(C) /\ C[m].t = C[i].t
  BY <1>2 DEF Base
<1>4. Stacked(C, m)
  BY <1>3 DEF Shape, Measured, Placed
<1>5. IsTry(C[m])
  BY <1>2, <1>4 DEF Base, Stacked, IsResume, IsTry
<1>6. C[i].t \in Thread
  <2>1. C[i] \in Activation
    OBVIOUS
  <2>. QED
    BY <2>1, ActivationFacts
<1>7. Innermost(C, C[i].t, T[C[i].t].errorJmp, Len(C))
  BY <1>1, <1>6 DEF Jumps
<1>. QED
  BY <1>3, <1>5, <1>6, <1>7 DEF Innermost

(* luaD_pcall begins.                                                      *)
LEMMA TryKeeps ==
    ASSUME NEW T, NEW C, NEW M, Good(T, C, M),
           NEW n, n = Len(C), NEW t, t = TopThread(C), n = 0 \/ C[n].k = "cfun",
           NEW a \in Try, a.kind = "pcall", a.t = t, a.previous = T[t].errorJmp,
           a.old_ci = Len(T[t].ci), a.oldnCcalls = T[t].nCcalls,
           a.old_allowhooks = T[t].allowhook,
           NEW l \in LuaState, l.status = "ok", NEW N \in Mode,
           Len(l.ci) = Len(T[t].ci), l.nCcalls = T[t].nCcalls,
           l.baseCcalls = T[t].baseCcalls, l.errorJmp = n + 1, l.allowhook = T[t].allowhook
    PROVE  Good([T EXCEPT ![t] = l], Append(C, a), N)
<1>1. PICK F, G, H : Shape(T, C, M, F, G, H)
  BY DEF Good
<1>2. /\ T \in [Thread -> LuaState] /\ C \in Seq(Activation) /\ M \in Mode
      /\ n \in Nat /\ a \in Activation
  BY DEF Good, Activation
<1>3. a.k = "try" /\ IsTry(a) /\ ~IsResume(a) /\ ~NoHooks(a) /\ l.allowhook \in BOOLEAN
  BY DEF Try, IsTry, IsResume, NoHooks, LuaState
<1>. DEFINE D == Append(C, a)
            T2 == [T EXCEPT ![t] = l]
            F2 == MoreFrames(F, n, a)
            G2 == MoreCalls(G, n, a)
            H2 == MoreHooks(H, n, l.allowhook)
<1>4. /\ D \in Seq(Activation) /\ Len(D) = n + 1 /\ D[n + 1] = a
      /\ \A i \in 1..n : D[i] = C[i]
  BY <1>2, AppendFacts
<1>5. TopAt(T, C, M, F, G, H, n, t)
  BY <1>1, TopMeasure
<1>6. /\ T[t].nCcalls = G[n] /\ T[t].allowhook = H[n] /\ Len(T[t].ci) = F[n]
  BY <1>5 DEF TopAt, Switching, IsResume
<1>7. Measured(C, F, G, H) /\ Jumps(T, C)
  BY <1>1 DEF Shape
<1>8. t \in Thread
  <2>1. CASE n = 0
    BY <2>1, CallsAssumption DEF TopThread
  <2>2. CASE n # 0
    <3>1. n \in 1..Len(C) /\ t = C[n].t
      BY <1>2, <2>2 DEF TopThread
    <3>. QED
      BY <3>1, <1>1, <1>2, HandlerBelow
  <2>. QED
    BY <2>1, <2>2
<1>9. Innermost(C, t, T[t].errorJmp, n)
  BY <1>7, <1>8 DEF Jumps
<1>10. Stacked(D, n + 1)
  BY <1>2, <1>3, <1>4 DEF Stacked, TopThread
<1>11. Linked(D, n + 1)
  <2>1. Innermost(D, t, T[t].errorJmp, n)
    BY <1>2, <1>4, <1>9 DEF Innermost
  <2>. QED
    BY <1>2, <1>4, <2>1 DEF Linked
<1>12. Keeps(a, F, G, H, n, l.allowhook)
  BY <1>3, <1>6 DEF Keeps, NoHooks
<1>13. IsResume(a) \/ n = 0 \/ a.t = C[n].t
  BY DEF TopThread
<1>14. Measured(D, F2, G2, H2)
  BY <1>2, <1>3, <1>7, <1>10, <1>11, <1>12, <1>13, MeasureMore
<1>15. D = Append(C, a) /\ T2 = [T EXCEPT ![t] = l]
  OBVIOUS
<1>16. /\ F2[n + 1] = F[n] + FramesOf(a) /\ G2[n + 1] = G[n] + CCallsOf(a)
       /\ H2[n + 1] = l.allowhook
       /\ \A i \in 0..n : F2[i] = F[i] /\ G2[i] = G[i] /\ H2[i] = H[i]
  <2>1. n + 1 \in 0..(n + 1) /\ ~(n + 1 <= n) /\ \A i \in 0..n : i \in 0..(n + 1) /\ i <= n
    BY <1>2
  <2>. QED
    BY <1>3, <2>1 DEF MoreFrames, MoreCalls, MoreHooks
<1>17. FramesOf(a) = 0 /\ CCallsOf(a) = 0
  BY <1>3 DEF FramesOf, CCallsOf
<1>. HIDE DEF D, T2, F2, G2, H2
<1>18. T2[t] = l /\ \A u \in Thread \ {t} : T2[u] = T[u]
  BY <1>2, <1>8, <1>15
<1>19. At(l, n + 1, F2, G2, H2)
  <2>1. F[n] \in Nat /\ G[n] \in Nat
    <3>1. n \in 0..n
      BY <1>2
    <3>. QED
      BY <1>7, <3>1 DEF Measured
  <2>2. F2[n + 1] = F[n] /\ G2[n + 1] = G[n]
    BY <1>16, <1>17, <2>1
  <2>. QED
    BY <1>6, <1>16, <2>2 DEF At
<1>20. Fits(l, D, N, F2, G2, H2) /\ Ready(l, t, D, N) /\ TopThread(D) = t
  BY <1>2, <1>4, <1>19 DEF Fits, Switching, Ready, TopThread
<1>21. SameResumes(C, F, G, H, D, F2, G2, H2)
  <2>1. ASSUME NEW j \in 1..Len(D), IsResume(D[j]) PROVE j \in 2..n
    <3>1. j # n + 1
      BY <1>3, <1>4, <2>1
    <3>2. j \in 1..n /\ IsResume(C[j])
      BY <1>2, <1>4, <2>1, <3>1
    <3>3. Stacked(C, j)
      BY <1>7, <3>2 DEF Measured, Placed
    <3>. QED
      BY <1>2, <3>2, <3>3 DEF Stacked, IsResume, IsTry
  <2>2. ASSUME NEW j \in 2..n
        PROVE  /\ j \in 1..n /\ D[j] = C[j] /\ D[j - 1] = C[j - 1]
               /\ F2[j - 1] = F[j - 1] /\ G2[j - 1] = G[j - 1] /\ H2[j - 1] = H[j - 1]
               /\ G2[j] = G[j]
    BY <1>2, <1>4, <1>16
  <2>. QED
    BY <2>1, <2>2 DEF SameResumes
<1>22. Jumps(T2, D)
  <2>1. ASSUME NEW u \in Thread PROVE Innermost(D, u, T2[u].errorJmp, n + 1)
    <3>1. CASE u = t
      BY <1>2, <1>3, <1>4, <1>18, <3>1 DEF Innermost
    <3>2. CASE u # t
      <4>1. Innermost(C, u, T[u].errorJmp, n) /\ T2[u].errorJmp = T[u].errorJmp
        BY <1>7, <1>18, <3>2 DEF Jumps
      <4>. QED
        BY <1>2, <1>4, <3>2, <4>1 DEF Innermost
    <3>. QED
      BY <3>1, <3>2
  <2>. QED
    BY <1>4, <2>1 DEF Jumps
<1>23. Good(T2, D, N)
  <2>1. Len(D) > 0
    BY <1>2, <1>4
  <2>. QED
    BY <1>1, <1>2, <1>4, <1>14, <1>15, <1>20, <1>21, <1>22, <2>1, SameThread
<1>. QED
  BY <1>15, <1>23

(* lua_close starts to call finalizers, or starts over.                    *)
LEMMA CloseKeeps ==
    ASSUME NEW T, NEW C, NEW M, Good(T, C, M),
           \A j \in 1..Len(C) : C[j].t = MainThread,
           NEW a \in Try, a.kind = "close", a.t = MainThread, a.previous = 0,
           NEW l \in LuaState, l.status = "ok", l.ci = <<>>, l.nCcalls = 0,
           l.baseCcalls = 0, l.errorJmp = 1, NEW N \in Mode
    PROVE  Good([T EXCEPT ![MainThread] = l], <<a>>, N)
<1>1. PICK F, G, H : Shape(T, C, M, F, G, H)
  BY DEF Good
<1>2. /\ T \in [Thread -> LuaState] /\ C \in Seq(Activation) /\ M \in Mode
      /\ a \in Activation /\ Len(C) \in Nat
  BY DEF Good, Activation
<1>3. a.k = "try" /\ IsTry(a) /\ ~IsResume(a) /\ ~NoHooks(a) /\ l.allowhook \in BOOLEAN
  BY DEF Try, IsTry, IsResume, NoHooks, LuaState
<1>. DEFINE E == <<>>
            D == Append(E, a)
            T2 == [T EXCEPT ![MainThread] = l]
            F1 == [i \in 0..0 |-> 0]
            H1 == [i \in 0..0 |-> l.allowhook]
            F2 == MoreFrames(F1, 0, a)
            G2 == MoreCalls(F1, 0, a)
            H2 == MoreHooks(H1, 0, l.allowhook)
<1>4. E \in Seq(Activation) /\ Len(E) = 0
  OBVIOUS
<1>5. Measured(E, F1, F1, H1)
  <2>1. 0 \in 0..0 /\ F1 \in [0..0 -> Nat] /\ H1 \in [0..0 -> BOOLEAN] /\ F1[0] = 0
    BY <1>3
  <2>. HIDE DEF F1, H1, E
  <2>2. \A i \in 1..Len(E) : Placed(E, F1, F1, H1, i)
    BY <1>4
  <2>. QED
    BY <1>4, <2>1, <2>2 DEF Measured
<1>6. D \in Seq(Activation) /\ Len(D) = 1 /\ D[1] = a /\ D = <<a>>
  BY <1>2
<1>7. Stacked(D, 0 + 1) /\ Linked(D, 0 + 1)
  BY <1>3, <1>6 DEF Stacked, Linked, Innermost
<1>8. Keeps(a, F1, F1, H1, 0, l.allowhook)
  BY <1>3 DEF Keeps, NoHooks
<1>9. FramesOf(a) = 0 /\ CCallsOf(a) = 0
  BY <1>3 DEF FramesOf, CCallsOf
<1>10. F2[1] = 0 /\ G2[1] = 0 /\ H2[1] = l.allowhook
  BY <1>3, <1>9 DEF MoreFrames, MoreCalls, MoreHooks
<1>11. T2 = [T EXCEPT ![MainThread] = l]
  OBVIOUS
<1>. HIDE DEF F1, H1, E
<1>12. Measured(D, F2, G2, H2)
  <2>1. IsResume(a) \/ 0 = 0 \/ a.t = E[0].t
    OBVIOUS
  <2>2. 0 \in Nat
    OBVIOUS
  <2>. QED
    BY <1>2, <1>3, <1>4, <1>5, <1>7, <1>8, <2>1, <2>2, MeasureMore
<1>. HIDE DEF D, T2, F2, G2, H2
<1>13. Counted(T, C, M, F, G, H) /\ Jumps(T, C)
  BY <1>1 DEF Shape
<1>14. MainThread = TopThread(C) /\ MainThread = TopThread(D)
  BY <1>2, <1>6, CallsAssumption DEF TopThread
<1>15. l.baseCcalls = T[MainThread].baseCcalls
  BY <1>13 DEF Counted
<1>16. Fits(l, D, N, F2, G2, H2) /\ Ready(l, MainThread, D, N)
  BY <1>6, <1>10 DEF Fits, Switching, At, Ready
<1>17. SameResumes(C, F, G, H, D, F2, G2, H2)
  BY <1>3, <1>6 DEF SameResumes
<1>18. Jumps(T2, D)
  <2>1. ASSUME NEW u \in Thread PROVE Innermost(D, u, T2[u].errorJmp, 1)
    <3>1. CASE u = MainThread
      BY <1>2, <1>3, <1>6, <1>11, <3>1 DEF Innermost
    <3>2. CASE u # MainThread
      <4>1. Innermost(C, u, T[u].errorJmp, Len(C)) /\ T2[u] = T[u]
        BY <1>2, <1>11, <1>13, <3>2 DEF Jumps
      <4>2. T[u].errorJmp = 0
        BY <1>2, <3>2, <4>1 DEF Innermost
      <4>. QED
        BY <1>6, <3>2, <4>1, <4>2 DEF Innermost
    <3>. QED
      BY <3>1, <3>2
  <2>. QED
    BY <1>6, <2>1 DEF Jumps
<1>19. Good(T2, D, N)
  <2>1. N # "run" => Len(D) > 0
    BY <1>6
  <2>. QED
    BY <1>1, <1>2, <1>6, <1>11, <1>12, <1>14, <1>15, <1>16, <1>17, <1>18, <2>1, SameThread
<1>. QED
  BY <1>6, <1>11, <1>19

(* Fields that no activation keeps.                                        *)
Alike(l, m) ==
    /\ l.ci = m.ci /\ l.nCcalls = m.nCcalls /\ l.baseCcalls = m.baseCcalls
    /\ l.status = m.status /\ l.allowhook = m.allowhook /\ l.errorJmp = m.errorJmp

LEMMA AlikeKeeps ==
    ASSUME NEW T, NEW C, NEW M, Good(T, C, M),
           NEW x \in Thread, NEW l \in LuaState, Alike(l, T[x])
    PROVE  Good([T EXCEPT ![x] = l], C, M)
<1>1. PICK F, G, H : Shape(T, C, M, F, G, H)
  BY DEF Good
<1>2. /\ T \in [Thread -> LuaState] /\ C \in Seq(Activation) /\ M \in Mode
  BY DEF Good
<1>. DEFINE T2 == [T EXCEPT ![x] = l]
<1>3. T2 \in [Thread -> LuaState] /\ \A u \in Thread : Alike(T2[u], T[u])
  BY <1>2 DEF Alike
<1>. HIDE DEF T2
<1>4. TopThread(C) \in Thread
  <2>1. CASE Len(C) = 0
    BY <2>1, CallsAssumption DEF TopThread
  <2>2. CASE Len(C) # 0
    <3>1. Len(C) \in 1..Len(C)
      BY <1>2, <2>2
    <3>. QED
      BY <1>1, <1>2, <2>2, <3>1, HandlerBelow DEF TopThread
  <2>. QED
    BY <2>1, <2>2
<1>5. Counted(T2, C, M, F, G, H)
  <2>1. Counted(T, C, M, F, G, H)
    BY <1>1 DEF Shape
  <2>2. Fits(T2[TopThread(C)], C, M, F, G, H)
    BY <1>3, <1>4, <2>1 DEF Counted, Fits, At, Switching, Alike
  <2>3. ASSUME NEW j \in 1..Len(C), IsResume(C[j]) PROVE Waiting(T2, C, F, G, H, j)
    <3>1. Waiting(T, C, F, G, H, j) /\ Stacked(C, j)
      BY <1>1, <2>1, <2>3 DEF Counted, Shape, Measured, Placed
    <3>2. C[j].t \in Thread
      BY <1>1, <1>2, HandlerBelow
    <3>3. C[j - 1].t \in Thread
      <4>1. j - 1 \in 1..Len(C)
        BY <1>2, <2>3, <3>1 DEF Stacked, IsResume, IsTry
      <4>. QED
        BY <1>1, <1>2, <4>1, HandlerBelow
    <3>. QED
      BY <1>3, <3>1, <3>2, <3>3 DEF Waiting, At, Alike
  <2>4. T2[MainThread].baseCcalls = 0
    BY <1>3, <2>1, CallsAssumption DEF Counted, Alike
  <2>. QED
    BY <2>2, <2>3, <2>4 DEF Counted
<1>6. Jumps(T2, C)
  <2>1. Jumps(T, C) /\ \A u \in Thread : T2[u].errorJmp = T[u].errorJmp
    BY <1>1, <1>3 DEF Shape, Alike
  <2>. QED
    BY <2>1 DEF Jumps
<1>7. Alive(T2, C, M)
  <2>1. Alive(T, C, M)
    BY <1>1 DEF Shape
  <2>2. \A u \in Thread : /\ T2[u].errorJmp = T[u].errorJmp /\ T2[u].status = T[u].status
                          /\ T2[u].ci = T[u].ci
                          /\ Switching(T2[u], C, M) <=> Switching(T[u], C, M)
    BY <1>3 DEF Alike, Switching
  <2>. QED
    BY <2>1, <2>2, CallsAssumption DEF Alive
<1>8. Shape(T2, C, M, F, G, H)
  BY <1>1, <1>5, <1>6, <1>7 DEF Shape
<1>. QED
  BY <1>2, <1>3, <1>8 DEF Good, T2

(* A thread that is not on the stack changes.                              *)
LEMMA OtherKeeps ==
    ASSUME NEW T, NEW C, NEW M, Good(T, C, M),
           NEW x \in Thread, x # MainThread, T[x].errorJmp = 0,
           NEW l \in LuaState, l.errorJmp = 0, l.status = "yield" => Len(l.ci) >= 2
    PROVE  Good([T EXCEPT ![x] = l], C, M)
<1>1. PICK F, G, H : Shape(T, C, M, F, G, H)
  BY DEF Good
<1>2. /\ T \in [Thread -> LuaState] /\ C \in Seq(Activation) /\ M \in Mode
  BY DEF Good
<1>. DEFINE T2 == [T EXCEPT ![x] = l]
<1>3. /\ T2 \in [Thread -> LuaState] /\ T2[x] = l
      /\ \A u \in Thread \ {x} : T2[u] = T[u]
  BY <1>2
<1>. HIDE DEF T2
<1>4. \A j \in 1..Len(C) : C[j].t \in Thread \ {x}
  BY <1>1, <1>2, HandlerBelow
<1>5. TopThread(C) \in Thread \ {x}
  BY <1>2, <1>4, CallsAssumption DEF TopThread
<1>6. Counted(T2, C, M, F, G, H)
  <2>1. Counted(T, C, M, F, G, H)
    BY <1>1 DEF Shape
  <2>2. ASSUME NEW j \in 1..Len(C), IsResume(C[j]) PROVE Waiting(T2, C, F, G, H, j)
    <3>1. Waiting(T, C, F, G, H, j) /\ Stacked(C, j)
      BY <1>1, <2>1, <2>2 DEF Counted, Shape, Measured, Placed
    <3>2. j - 1 \in 1..Len(C)
      BY <1>2, <2>2, <3>1 DEF Stacked, IsResume, IsTry
    <3>3. T2[C[j].t] = T[C[j].t] /\ T2[C[j - 1].t] = T[C[j - 1].t]
      BY <1>3, <1>4, <3>2
    <3>. QED
      BY <3>1, <3>3 DEF Waiting
  <2>3. T2[MainThread].baseCcalls = 0
    BY <1>3, <2>1, CallsAssumption DEF Counted
  <2>. QED
    BY <1>3, <1>5, <2>1, <2>2, <2>3 DEF Counted
<1>7. Jumps(T2, C)
  <2>1. Jumps(T, C) /\ \A u \in Thread : T2[u].errorJmp = T[u].errorJmp
    BY <1>1, <1>3 DEF Shape
  <2>. QED
    BY <2>1 DEF Jumps
<1>8. Alive(T2, C, M)
  <2>1. Alive(T, C, M)
    BY <1>1 DEF Shape
  <2>. QED
    BY <2>1, <1>3, CallsAssumption DEF Alive
<1>9. Shape(T2, C, M, F, G, H)
  BY <1>1, <1>6, <1>7, <1>8 DEF Shape
<1>. QED
  BY <1>2, <1>3, <1>9 DEF Good, T2

(* lua_resume begins.                                                      *)
LEMMA ResumeKeeps ==
    ASSUME NEW T, NEW C, NEW M, Good(T, C, M),
           NEW n, n = Len(C), n # 0, NEW u, u = C[n].t, C[n].k = "cfun",
           NEW c \in Thread, c # MainThread, c # u, T[c].errorJmp = 0,
           T[c].status = "yield" \/ (T[c].status = "ok" /\ T[c].ci = <<>>),
           NEW a \in Try, a.kind = "resume", a.t = c, a.previous = 0,
           NEW l \in LuaState, l.status = T[c].status, l.ci = T[c].ci,
           l.nCcalls = T[u].nCcalls + 1, l.baseCcalls = l.nCcalls, l.errorJmp = n + 1
    PROVE  Good([T EXCEPT ![c] = l], Append(C, a), "run")
<1>1. PICK F, G, H : Shape(T, C, M, F, G, H)
  BY DEF Good
<1>2. /\ T \in [Thread -> LuaState] /\ C \in Seq(Activation) /\ M \in Mode
      /\ n \in Nat \ {0} /\ n \in 1..n /\ a \in Activation
  BY DEF Good, Activation
<1>3. a.k = "try" /\ IsTry(a) /\ IsResume(a) /\ ~NoHooks(a) /\ l.allowhook \in BOOLEAN
  BY DEF Try, IsTry, IsResume, NoHooks, LuaState
<1>. DEFINE D == Append(C, a)
            T2 == [T EXCEPT ![c] = l]
            F2 == MoreFrames(F, n, a)
            G2 == MoreCalls(G, n, a)
            H2 == MoreHooks(H, n, l.allowhook)
<1>4. /\ D \in Seq(Activation) /\ Len(D) = n + 1 /\ D[n + 1] = a
      /\ \A i \in 1..n : D[i] = C[i]
  BY <1>2, AppendFacts
<1>5. TopReady(T, C, M, n, u, T[u].errorJmp)
  BY <1>1, <1>2, TopFacts
<1>6. TopAt(T, C, M, F, G, H, n, u)
  BY <1>1, <1>5, TopMeasure DEF TopReady
<1>7. At(T[u], n, F, G, H)
  BY <1>6 DEF TopAt, At, Switching, IsResume
<1>8. Measured(C, F, G, H) /\ Counted(T, C, M, F, G, H) /\ Jumps(T, C) /\ Alive(T, C, M)
  BY <1>1 DEF Shape
<1>9. Innermost(C, c, 0, n)
  BY <1>8 DEF Jumps
<1>10. Stacked(D, n + 1)
  BY <1>2, <1>3, <1>4 DEF Stacked
<1>11. Linked(D, n + 1)
  <2>1. Innermost(D, c, 0, n)
    BY <1>2, <1>4, <1>9 DEF Innermost
  <2>. QED
    BY <1>2, <1>4, <2>1 DEF Linked
<1>12. Keeps(a, F, G, H, n, l.allowhook)
  BY <1>3 DEF Keeps, NoHooks
<1>13. Measured(D, F2, G2, H2)
  BY <1>2, <1>3, <1>8, <1>10, <1>11, <1>12, MeasureMore
<1>14. T2 = [T EXCEPT ![c] = l]
  OBVIOUS
<1>15. /\ F2[n + 1] = 0 /\ G2[n + 1] = G[n] + 1 /\ H2[n + 1] = l.allowhook
       /\ \A i \in 0..n : F2[i] = F[i] /\ G2[i] = G[i] /\ H2[i] = H[i]
  <2>1. n + 1 \in 0..(n + 1) /\ ~(n + 1 <= n) /\ \A i \in 0..n : i \in 0..(n + 1) /\ i <= n
    BY <1>2
  <2>. QED
    BY <1>3, <2>1 DEF MoreFrames, MoreCalls, MoreHooks, CCallsOf
<1>. HIDE DEF D, T2, F2, G2, H2
<1>16. /\ T2 \in [Thread -> LuaState] /\ T2[c] = l
       /\ \A x \in Thread \ {c} : T2[x] = T[x]
  BY <1>2, <1>14
<1>17. \A j \in 1..n : C[j].t \in Thread \ {c}
  BY <1>1, <1>2, HandlerBelow
<1>18. l.nCcalls = G2[n + 1] /\ l.allowhook = H2[n + 1]
  BY <1>7, <1>15 DEF At
<1>19. Fits(l, D, "run", F2, G2, H2) /\ TopThread(D) = c
  <2>1. Len(D) > 0 /\ D[Len(D)] = a
    BY <1>2, <1>4
  <2>2. l.status = "yield" => Switching(l, D, "run")
    BY <1>3, <2>1 DEF Switching
  <2>3. l.status # "yield" => ~Switching(l, D, "run") /\ Len(l.ci) = 0
    BY DEF Switching
  <2>. QED
    BY <1>4, <1>15, <1>18, <2>1, <2>2, <2>3 DEF Fits, At, TopThread
<1>20. Counted(T2, D, "run", F2, G2, H2)
  <2>1. ASSUME NEW j \in 1..(n + 1), IsResume(D[j]) PROVE Waiting(T2, D, F2, G2, H2, j)
    <3>1. CASE j = n + 1
      <4>1. D[j - 1] = C[n] /\ D[j] = a /\ j - 1 = n /\ n \in 0..n
        BY <1>2, <1>4, <3>1
      <4>2. T2[C[n].t] = T[u] /\ T2[a.t] = l
        BY <1>2, <1>16, <1>17
      <4>3. At(T[u], n, F2, G2, H2)
        BY <1>7, <1>15, <4>1 DEF At
      <4>. QED
        BY <1>18, <3>1, <4>1, <4>2, <4>3 DEF Waiting
    <3>2. CASE j \in 1..n
      <4>1. Waiting(T, C, F, G, H, j) /\ j > 1
        BY <1>4, <1>5, <1>8, <2>1, <3>2 DEF Counted, TopReady
      <4>2. /\ j - 1 \in 1..n /\ D[j - 1] = C[j - 1] /\ D[j] = C[j]
            /\ j \in 0..n /\ j - 1 \in 0..n
        BY <1>2, <1>4, <3>2, <4>1
      <4>3. T2[C[j].t] = T[C[j].t] /\ T2[C[j - 1].t] = T[C[j - 1].t]
        BY <1>16, <1>17, <3>2, <4>2
      <4>. QED
        BY <1>15, <4>1, <4>2, <4>3 DEF Waiting, At
    <3>. QED
      BY <2>1, <3>1, <3>2
  <2>2. T2[MainThread].baseCcalls = 0
    BY <1>8, <1>16, CallsAssumption DEF Counted
  <2>. QED
    BY <1>4, <1>16, <1>19, <2>1, <2>2 DEF Counted
<1>21. Jumps(T2, D)
  <2>1. ASSUME NEW x \in Thread PROVE Innermost(D, x, T2[x].errorJmp, n + 1)
    <3>1. CASE x = c
      BY <1>2, <1>3, <1>4, <1>16, <3>1 DEF Innermost
    <3>2. CASE x # c
      <4>1. Innermost(C, x, T[x].errorJmp, n) /\ T2[x].errorJmp = T[x].errorJmp
        BY <1>8, <1>16, <3>2 DEF Jumps
      <4>. QED
        BY <1>2, <1>4, <3>2, <4>1 DEF Innermost
    <3>. QED
      BY <3>1, <3>2
  <2>. QED
    BY <1>4, <2>1 DEF Jumps
<1>22. Alive(T2, D, "run")
  <2>1. ASSUME NEW x \in Thread, T2[x].errorJmp # 0
        PROVE  \/ T2[x].status = "ok" /\ (TopThread(D) = x \/ T2[x].ci # <<>>)
               \/ TopThread(D) = x /\ Switching(T2[x], D, "run")
    <3>1. CASE x = c
      <4>1. Len(D) > 0 /\ D[Len(D)] = a
        BY <1>2, <1>4
      <4>. QED
        BY <1>3, <1>16, <1>19, <3>1, <4>1 DEF Switching
    <3>2. CASE x = u
      <4>1. T[u].status = "ok"
        BY <1>5 DEF TopReady, Switching, IsResume
      <4>2. Len(T[u].ci) # 0
        <5>1. F[n] = F[n - 1] + FramesOf(C[n]) /\ FramesOf(C[n]) = 1
          BY <1>2, <1>8 DEF Measured, Placed, LevelAt, IsResume, FramesOf
        <5>2. F[n - 1] \in Nat
          <6>1. n - 1 \in 0..n
            BY <1>2
          <6>. QED
            BY <1>2, <1>8, <6>1 DEF Measured
        <5>. QED
          BY <1>7, <5>1, <5>2 DEF At
      <4>3. T2[u] = T[u]
        BY <1>16, <3>2
      <4>. QED
        BY <3>2, <4>1, <4>2, <4>3
    <3>3. CASE x # c /\ x # u
      BY <1>5, <1>8, <1>16, <2>1, <3>3 DEF Alive, TopReady
    <3>. QED
      BY <3>1, <3>2, <3>3
  <2>2. ASSUME NEW x \in Thread, T2[x].status = "yield" PROVE Len(T2[x].ci) >= 2
    BY <1>8, <1>16, <2>2 DEF Alive
  <2>3. T2[MainThread].status = "ok" /\ Len(D) > 0
    BY <1>2, <1>4, <1>8, <1>16, CallsAssumption DEF Alive
  <2>. QED
    BY <2>1, <2>2, <2>3 DEF Alive
<1>23. Shape(T2, D, "run", F2, G2, H2)
  BY <1>13, <1>20, <1>21, <1>22 DEF Shape
<1>24. "run" \in Mode
  BY DEF Mode
<1>. QED
  BY <1>4, <1>14, <1>16, <1>23, <1>24 DEF Good, D

(* A coroutine yields, returns or dies: lua_resume is through.             *)
LEMMA CutResume ==
    ASSUME NEW T, NEW C, NEW M, Good(T, C, M),
           NEW n, n = Len(C), n # 0, NEW c, c = C[n].t,
           NEW e, e = T[c].errorJmp, IsResume(C[e]),
           NEW l \in LuaState, l.errorJmp = 0, l.status = "yield" => Len(l.ci) >= 2,
           NEW N \in Mode
    PROVE  Good([T EXCEPT ![c] = l], SubSeq(C, 1, e - 1), N)
<1>1. PICK F, G, H : Shape(T, C, M, F, G, H)
  BY DEF Good
<1>2. /\ T \in [Thread -> LuaState] /\ C \in Seq(Activation) /\ M \in Mode
      /\ n \in Nat \ {0}
  BY DEF Good
<1>3. TopReady(T, C, M, n, c, e)
  BY <1>1, <1>2, TopFacts
<1>4. Measured(C, F, G, H) /\ Counted(T, C, M, F, G, H) /\ Jumps(T, C) /\ Alive(T, C, M)
  BY <1>1 DEF Shape
<1>5. /\ e \in 1..n /\ C[e].t = c /\ c \in Thread /\ \A j \in e..n : C[j].t = c
      /\ TopThread(C) = c
  BY <1>3 DEF TopReady
<1>6. Stacked(C, e) /\ Linked(C, e)
  BY <1>2, <1>4, <1>5 DEF Measured, Placed
<1>7. /\ e > 1 /\ C[e - 1].k = "cfun" /\ c # MainThread /\ C[e].previous = 0
      /\ IsTry(C[e])
  BY <1>5, <1>6 DEF Stacked, IsResume, IsTry
<1>8. \A j \in 1..(e - 1) : ~(IsTry(C[j]) /\ C[j].t = c)
  <2>1. Innermost(C, c, 0, e - 1)
    BY <1>5, <1>6, <1>7 DEF Linked
  <2>. QED
    BY <2>1 DEF Innermost
<1>9. \A j \in 1..(e - 1) : C[j].t \in Thread \ {c}
  <2>1. ASSUME NEW j \in 1..(e - 1), C[j].t = c PROVE FALSE
    <3>0. j \in 1..n
      BY <1>5
    <3>1. PICK m \in 1..j : Base(C, m, j)
      BY <1>2, <1>4, <3>0 DEF Measured, Placed, Based
    <3>2. m \in 1..n /\ m \in 1..(e - 1) /\ C[m].t = c
      BY <1>5, <2>1, <3>1 DEF Base
    <3>3. Stacked(C, m)
      BY <1>2, <1>4, <3>2 DEF Measured, Placed
    <3>4. IsTry(C[m])
      BY <3>1, <3>3 DEF Base, Stacked, IsResume, IsTry
    <3>. QED
      BY <1>8, <3>2, <3>4
  <2>2. ASSUME NEW j \in 1..(e - 1) PROVE C[j].t \in Thread
    <3>1. j \in 1..Len(C)
      BY <1>5
    <3>. QED
      BY <1>1, <1>2, <3>1, HandlerBelow
  <2>. QED
    BY <2>1, <2>2
<1>10. PICK k \in Nat : k \in 1..n /\ k \in 0..n /\ k < e /\ k + 1 = e /\ k = e - 1
  <2>1. PICK m \in Nat, d \in Nat : m = n /\ d = e
    BY <1>2, <1>5
  <2>2. d \in 1..m /\ d > 1
    BY <1>5, <1>7, <2>1
  <2>3. d - 1 \in Nat /\ d - 1 \in 1..m /\ d - 1 \in 0..m
    BY <2>2
  <2>. QED
    BY <2>1, <2>3
<1>. DEFINE D == SubSeq(C, 1, k)
            T2 == [T EXCEPT ![c] = l]
            F2 == [i \in 0..k |-> F[i]]
            G2 == [i \in 0..k |-> G[i]]
            H2 == [i \in 0..k |-> H[i]]
<1>11. /\ D \in Seq(Activation) /\ Len(D) = k
       /\ \A i \in 1..k : D[i] = C[i]
  BY <1>2, <1>10, CutFacts
<1>12. Measured(D, F2, G2, H2)
  <2>1. k \in 0..Len(C)
    BY <1>10
  <2>. QED
    BY <1>2, <1>4, <2>1, MeasureLess
<1>13. \A i \in 0..k : F2[i] = F[i] /\ G2[i] = G[i] /\ H2[i] = H[i]
  OBVIOUS
<1>14. /\ T2 \in [Thread -> LuaState] /\ T2[c] = l
       /\ \A x \in Thread \ {c} : T2[x] = T[x]
  BY <1>2, <1>5
<1>15. D = SubSeq(C, 1, e - 1) /\ T2 = [T EXCEPT ![c] = l]
  BY <1>10
<1>. HIDE DEF D, T2, F2, G2, H2
<1>16. k \in Nat /\ \A j \in 1..k : C[j].t \in Thread \ {c}
  BY <1>9, <1>10
<1>17. Counted(T2, D, N, F2, G2, H2)
  <2>1. D[k] = C[k] /\ k \in 1..k /\ D[k].k = "cfun" /\ k \in 0..k
    <3>1. k \in 1..k /\ k \in 0..k
      BY <1>10
    <3>. QED
      BY <1>7, <1>10, <1>11, <3>1
  <2>2. TopThread(D) = C[k].t /\ T2[C[k].t] = T[C[k].t]
    <3>1. k # 0
      BY <2>1
    <3>. QED
      BY <1>11, <1>14, <1>16, <2>1, <3>1 DEF TopThread
  <2>3. Waiting(T, C, F, G, H, e)
    BY <1>2, <1>4, <1>5 DEF Counted
  <2>4. At(T[C[k].t], k, F2, G2, H2)
    BY <1>10, <1>13, <2>1, <2>3 DEF Waiting, At
  <2>5. Fits(T2[TopThread(D)], D, N, F2, G2, H2)
    BY <1>11, <2>1, <2>2, <2>4 DEF Fits, Switching, IsResume
  <2>6. ASSUME NEW j \in 1..k, IsResume(D[j]) PROVE Waiting(T2, D, F2, G2, H2, j)
    <3>1. j \in 1..n /\ IsResume(C[j])
      BY <1>10, <1>11, <2>6
    <3>2. Waiting(T, C, F, G, H, j) /\ j > 1
      BY <1>2, <1>3, <1>4, <3>1 DEF Counted, TopReady
    <3>3. /\ j - 1 \in 1..k /\ D[j - 1] = C[j - 1] /\ D[j] = C[j]
          /\ j \in 0..k /\ j - 1 \in 0..k
      BY <1>11, <1>16, <2>6, <3>2
    <3>4. T2[C[j].t] = T[C[j].t] /\ T2[C[j - 1].t] = T[C[j - 1].t]
      BY <1>14, <1>16, <2>6, <3>3
    <3>. QED
      BY <1>13, <3>2, <3>3, <3>4 DEF Waiting, At
  <2>7. T2[MainThread].baseCcalls = 0
    BY <1>4, <1>7, <1>14, CallsAssumption DEF Counted
  <2>. QED
    BY <1>11, <2>5, <2>6, <2>7 DEF Counted
<1>18. Jumps(T2, D)
  <2>1. ASSUME NEW x \in Thread PROVE Innermost(D, x, T2[x].errorJmp, k)
    <3>1. CASE x = c
      <4>1. T2[x].errorJmp = 0
        BY <1>14, <3>1
      <4>2. \A j \in 1..k : D[j].t # x
        BY <1>11, <1>16, <3>1
      <4>3. \A j \in (0 + 1)..k : ~(IsTry(D[j]) /\ D[j].t = x)
        BY <4>2
      <4>. QED
        BY <1>16, <4>1, <4>3 DEF Innermost
    <3>2. CASE x # c
      <4>1. Innermost(C, x, T[x].errorJmp, n) /\ T2[x].errorJmp = T[x].errorJmp
        BY <1>2, <1>4, <1>14, <3>2 DEF Jumps
      <4>2. T[x].errorJmp \in 0..k
        BY <1>2, <1>5, <1>10, <3>2, <4>1 DEF Innermost
      <4>3. /\ T[x].errorJmp # 0 => T[x].errorJmp \in 1..k
            /\ \A j \in (T[x].errorJmp + 1)..k : j \in 1..k /\ j \in (T[x].errorJmp + 1)..n
        <5>1. n \in Nat /\ k \in Nat /\ k \in 0..n
          BY <1>2, <1>10
        <5>. QED
          BY <4>2, <5>1
      <4>. QED
        BY <1>11, <4>1, <4>2, <4>3 DEF Innermost
    <3>. QED
      BY <3>1, <3>2
  <2>. QED
    BY <1>11, <2>1 DEF Jumps
<1>19. Alive(T2, D, N)
  <2>1. ASSUME NEW x \in Thread, T2[x].errorJmp # 0
        PROVE  T2[x].status = "ok" /\ T2[x].ci # <<>>
    BY <1>4, <1>5, <1>14, <2>1 DEF Alive
  <2>2. ASSUME NEW x \in Thread, T2[x].status = "yield" PROVE Len(T2[x].ci) >= 2
    BY <1>4, <1>14, <2>2 DEF Alive
  <2>3. T2[MainThread].status = "ok" /\ Len(D) > 0
    <3>1. k > 0
      BY <1>10
    <3>. QED
      BY <1>4, <1>7, <1>11, <1>14, <3>1, CallsAssumption DEF Alive
  <2>. QED
    BY <2>1, <2>2, <2>3 DEF Alive
<1>20. Shape(T2, D, N, F2, G2, H2)
  BY <1>12, <1>17, <1>18, <1>19 DEF Shape
<1>21. Good(T2, D, N)
  BY <1>11, <1>14, <1>20 DEF Good
<1>. QED
  BY <1>15, <1>21

(* luaD_pcall is about to end, normally or by an error.                    *)
PcallFacts(T, C, n, t, e) ==
    /\ T[t].status = "ok"
    /\ e \in 1..n /\ C[e] \in Try /\ C[e].t = t /\ C[e].previous \in 0..(e - 1)
    /\ e = 1 \/ (C[e - 1].k = "cfun" /\ C[e - 1].t = t)
    /\ C[e].old_ci <= Len(T[t].ci)
    /\ e = n => /\ C[e].old_ci = Len(T[t].ci)
                /\ C[e].oldnCcalls = T[t].nCcalls
                /\ C[e].old_allowhooks = T[t].allowhook

LEMMA EndOfPcall ==
    ASSUME NEW T, NEW C, NEW M, Good(T, C, M),
           NEW n, n = Len(C), n # 0, NEW t, t = C[n].t,
           NEW e, e = T[t].errorJmp, C[e].kind = "pcall"
    PROVE  PcallFacts(T, C, n, t, e)
<1>1. PICK F, G, H : Shape(T, C, M, F, G, H)
  BY DEF Good
<1>2. /\ T \in [Thread -> LuaState] /\ C \in Seq(Activation) /\ n \in Nat \ {0}
  BY DEF Good
<1>3. TopReady(T, C, M, n, t, e)
  BY <1>1, <1>2, TopFacts
<1>4. TopAt(T, C, M, F, G, H, n, t)
  BY <1>1, <1>3, TopMeasure DEF TopReady
<1>5. /\ e \in 1..n /\ IsTry(C[e]) /\ C[e].t = t /\ \A j \in e..n : C[j].t = t
      /\ \A j \in (e + 1)..n : ~IsTry(C[j])
  BY <1>3 DEF TopReady
<1>6. C[e] \in Try /\ ~IsResume(C[e]) /\ C[e].k = "try"
  <2>1. C[e] \in Activation
    BY <1>2, <1>5
  <2>. QED
    BY <1>5, <2>1, ActivationFacts DEF IsResume, IsTry
<1>7. Measured(C, F, G, H) /\ Placed(C, F, G, H, e) /\ Placed(C, F, G, H, n)
  BY <1>1, <1>2, <1>5 DEF Shape, Measured
<1>8. ~Switching(T[t], C, M) /\ T[t].status = "ok"
  <2>1. \A j \in e..n : ~IsResume(C[j])
    BY <1>2, <1>5, <1>6 DEF IsResume, IsTry
  <2>2. n \in e..n
    BY <1>2, <1>5
  <2>. QED
    BY <1>3, <2>1, <2>2 DEF TopReady, Switching
<1>9. T[t].nCcalls = G[n] /\ T[t].allowhook = H[n] /\ Len(T[t].ci) = F[n]
  BY <1>4, <1>8 DEF TopAt
<1>10. C[e].previous \in 0..(e - 1)
  BY <1>5, <1>7 DEF Placed, Linked, Innermost
<1>11. e = 1 \/ (C[e - 1].k = "cfun" /\ C[e - 1].t = t)
  <2>1. CASE e # 1
    <3>1. PICK m \in 1..e : Base(C, m, e)
      BY <1>7 DEF Placed, Based
    <3>2. m # e
      BY <1>6, <2>1, <3>1 DEF Base
    <3>3. e - 1 \in m..e
      <4>1. PICK d \in Nat : d = e
        BY <1>2, <1>5
      <4>2. m \in 1..d /\ m # d
        BY <3>1, <3>2, <4>1
      <4>3. d - 1 \in m..d
        BY <4>2
      <4>. QED
        BY <4>1, <4>3
    <3>4. C[e - 1].t = t
      BY <1>5, <3>1, <3>3 DEF Base
    <3>. QED
      BY <1>5, <1>7, <2>1, <3>4 DEF Placed, Stacked
  <2>. QED
    BY <2>1
<1>12. LevelAt(C, F, G, H, e) /\ C[e].old_ci = F[e - 1] /\ C[e].oldnCcalls = G[e - 1]
       /\ C[e].old_allowhooks = H[e - 1]
  BY <1>5, <1>7 DEF Placed, LevelAt
<1>13. F[e - 1] <= F[n]
  <2>1. e - 1 \in 0..n /\ \A j \in ((e - 1) + 1)..n : j \in e..n
    BY <1>2, <1>5
  <2>2. Rises(C, F, G, e - 1, n)
    BY <1>7, <2>1 DEF Placed
  <2>3. \A j \in ((e - 1) + 1)..n : ~IsResume(C[j])
    <3>1. \A j \in e..n : ~IsResume(C[j])
      BY <1>2, <1>5, <1>6 DEF IsResume, IsTry
    <3>. QED
      BY <2>1, <3>1
  <2>. QED
    BY <2>2, <2>3 DEF Rises
<1>14. ASSUME e = n
       PROVE  F[n] = F[n - 1] /\ G[n] = G[n - 1] /\ H[n] = H[n - 1]
  <2>1. n \in 0..n /\ n - 1 \in 0..n
    BY <1>2
  <2>2. F[n - 1] \in Nat /\ G[n - 1] \in Nat
    BY <1>2, <1>7, <2>1 DEF Measured
  <2>3. FramesOf(C[n]) = 0 /\ CCallsOf(C[n]) = 0 /\ ~NoHooks(C[n]) /\ ~IsResume(C[n])
    BY <1>6, <1>14 DEF FramesOf, CCallsOf, NoHooks
  <2>4. F[n] = F[n - 1] + FramesOf(C[n]) /\ G[n] = G[n - 1] + CCallsOf(C[n]) /\ H[n] = H[n - 1]
    BY <1>7, <2>3 DEF Placed, LevelAt
  <2>. QED
    BY <2>2, <2>3, <2>4
<1>15. ASSUME e = n
       PROVE  /\ C[e].old_ci = Len(T[t].ci) /\ C[e].oldnCcalls = T[t].nCcalls
              /\ C[e].old_allowhooks = T[t].allowhook
  BY <1>9, <1>12, <1>14, <1>15
<1>16. C[e].old_ci <= Len(T[t].ci)
  BY <1>9, <1>12, <1>13
<1>. QED
  BY <1>5, <1>6, <1>8, <1>10, <1>11, <1>15, <1>16 DEF PcallFacts

LEMMA CutPcall ==
    ASSUME NEW T, NEW C, NEW M, Good(T, C, M),
           NEW n, n = Len(C), n # 0, NEW t, t = C[n].t,
           NEW e, e = T[t].errorJmp, C[e].kind = "pcall",
           NEW l \in LuaState, l.status = "ok", l.baseCcalls = T[t].baseCcalls,
           Len(l.ci) = C[e].old_ci, l.nCcalls = C[e].oldnCcalls,
           l.allowhook = C[e].old_allowhooks, l.errorJmp = C[e].previous
    PROVE  Good([T EXCEPT ![t] = l], SubSeq(C, 1, e - 1), "run")
<1>1. PICK F, G, H : Shape(T, C, M, F, G, H)
  BY DEF Good
<1>2. /\ T \in [Thread -> LuaState] /\ C \in Seq(Activation) /\ n \in Nat \ {0}
  BY DEF Good
<1>3. TopReady(T, C, M, n, t, e)
  BY <1>1, <1>2, TopFacts
<1>4. PcallFacts(T, C, n, t, e)
  BY EndOfPcall
<1>5. e \in 1..n /\ Placed(C, F, G, H, e)
  BY <1>1, <1>2, <1>4 DEF PcallFacts, Shape, Measured
<1>6. IsTry(C[e]) /\ C[e].t = t /\ \A j \in e..n : C[j].t = t
  BY <1>3 DEF TopReady
<1>7. At(l, e - 1, F, G, H)
  BY <1>5, <1>6 DEF Placed, LevelAt, At
<1>. DEFINE D == SubSeq(C, 1, e - 1)
<1>8. e - 1 \in 0..n
  BY <1>2, <1>5
<1>9. Len(D) = e - 1 /\ \A i \in 1..(e - 1) : D[i] = C[i]
  <2>1. PICK k \in 0..Len(C) : k = e - 1
    BY <1>8
  <2>2. Len(SubSeq(C, 1, k)) = k /\ \A i \in 1..k : SubSeq(C, 1, k)[i] = C[i]
    BY <1>2, CutFacts
  <2>. QED
    BY <2>1, <2>2
<1>. HIDE DEF D
<1>10. TopThread(D) = t
  <2>1. CASE e = 1
    BY <1>5, <1>6, <1>9, <2>1 DEF TopThread, Placed, Stacked
  <2>2. CASE e # 1
    <3>1. e - 1 # 0 /\ e - 1 \in 1..(e - 1)
      BY <1>5, <2>2
    <3>. QED
      BY <1>4, <1>9, <2>2, <3>1 DEF TopThread, PcallFacts
  <2>. QED
    BY <2>1, <2>2
<1>11. Fits(l, D, "run", F, G, H) /\ Ready(l, t, D, "run")
  BY <1>7, <1>9 DEF Fits, Switching, Ready
<1>12. \A j \in ((e - 1) + 1)..n : IsTry(C[j]) => C[j].t = t
  <2>1. (e - 1) + 1 = e
    BY <1>2, <1>5
  <2>. QED
    BY <1>6, <2>1
<1>13. Innermost(C, t, l.errorJmp, e - 1)
  BY <1>5, <1>6 DEF Placed, Linked
<1>14. "run" \in Mode /\ t = TopThread(C) /\ D = SubSeq(C, 1, e - 1)
  BY <1>3 DEF Mode, TopReady, D
<1>15. Good([T EXCEPT ![t] = l], D, "run")
  BY <1>1, <1>8, <1>10, <1>11, <1>12, <1>13, <1>14, CutKeeps
<1>. QED
  BY <1>14, <1>15

(* Where lua_yield lets a coroutine yield.                                 *)
Yields(C, n, c) ==
    /\ n > 2 /\ C[n - 1].k = "exec" /\ C[n - 1].t = c
    /\ IsResume(C[n - 2]) /\ C[n - 2].t = c /\ c # MainThread

LEMMA CallsRise ==
    ASSUME NEW C \in Seq(Activation), NEW F, NEW G, NEW H, Measured(C, F, G, H),
           NEW m \in 0..Len(C), NEW j \in 1..Len(C), m < j, C[j].k = "call",
           NEW i \in j..Len(C)
    PROVE  G[m] < G[i]
<1>1. PICK n \in Nat : n = Len(C)
  OBVIOUS
<1>2. m \in 0..(j - 1) /\ j - 1 \in 0..n /\ j \in 0..n /\ i \in 0..n /\ i \in 1..n /\ j \in 0..i
  BY <1>1
<1>3. G[m] \in Nat /\ G[j - 1] \in Nat /\ G[j] \in Nat /\ G[i] \in Nat
  BY <1>1, <1>2 DEF Measured
<1>4. G[j] = G[j - 1] + 1
  <2>1. CCallsOf(C[j]) = 1
    BY DEF CCallsOf
  <2>. QED
    BY <2>1 DEF Measured, Placed, LevelAt
<1>5. G[m] <= G[j - 1]
  <2>1. CASE j = 1
    BY <1>2, <1>3, <2>1
  <2>2. CASE j # 1
    <3>1. j - 1 \in 1..n
      BY <1>1, <2>2
    <3>2. Rises(C, F, G, m, j - 1)
      BY <1>1, <1>2, <3>1 DEF Measured, Placed
    <3>. QED
      BY <3>2 DEF Rises
  <2>. QED
    BY <2>1, <2>2
<1>6. G[j] <= G[i]
  <2>1. Rises(C, F, G, j, i)
    BY <1>1, <1>2 DEF Measured, Placed
  <2>. QED
    BY <2>1 DEF Rises
<1>. QED
  BY <1>3, <1>4, <1>5, <1>6

LEMMA YieldPlace ==
    ASSUME NEW T, NEW C, NEW M, NEW F, NEW G, NEW H, Good(T, C, M), Shape(T, C, M, F, G, H),
           NEW n, n = Len(C), n # 0, NEW c, c = C[n].t, C[n].k = "cfun",
           T[c].nCcalls <= T[c].baseCcalls
    PROVE  Yields(C, n, c)
<1>2. /\ T \in [Thread -> LuaState] /\ C \in Seq(Activation) /\ n \in Nat \ {0}
      /\ n \in 1..n
  BY DEF Good
<1>3. TopReady(T, C, M, n, c, T[c].errorJmp)
  BY <1>2, TopFacts
<1>4. TopAt(T, C, M, F, G, H, n, c)
  BY <1>3, TopMeasure DEF TopReady
<1>5. Measured(C, F, G, H) /\ Counted(T, C, M, F, G, H) /\ \A i \in 1..n : Placed(C, F, G, H, i)
  BY <1>2 DEF Shape, Measured
<1>6. PICK m \in 1..n : Base(C, m, n)
  BY <1>2, <1>5 DEF Placed, Based
<1>7. C[m].t = c /\ (m = 1 \/ IsResume(C[m])) /\ IsTry(C[m])
  BY <1>2, <1>5, <1>6 DEF Base, Placed, Stacked, IsResume, IsTry
(* What the thread has counted when it was called.                         *)
<1>8. PICK b \in 0..m : G[b] = T[c].baseCcalls
  <2>1. CASE IsResume(C[m])
    <3>1. Waiting(T, C, F, G, H, m) /\ m \in 0..m
      BY <1>2, <1>5, <2>1 DEF Counted
    <3>. QED
      BY <1>7, <3>1 DEF Waiting
  <2>2. CASE m = 1 /\ ~IsResume(C[m])
    <3>1. c = MainThread
      BY <1>5, <1>7, <2>2 DEF Placed, Stacked
    <3>2. G[0] = 0 /\ T[MainThread].baseCcalls = 0 /\ 0 \in 0..m
      BY <1>5 DEF Measured, Counted
    <3>. QED
      BY <3>1, <3>2
  <2>. QED
    BY <1>7, <2>1, <2>2
<1>9. ASSUME NEW j \in 1..n, j > m PROVE C[j].k # "call"
  <2>1. SUFFICES ASSUME C[j].k = "call" PROVE FALSE
    OBVIOUS
  <2>2. b < j /\ b \in 0..n /\ n \in j..n
    BY <1>2, <1>9
  <2>3. G[b] < G[n]
    BY <1>2, <1>5, <2>1, <2>2, CallsRise
  <2>4. G[b] \in Nat /\ G[n] \in Nat
    <3>1. n \in 0..n
      BY <1>2
    <3>. QED
      BY <1>2, <1>5, <2>2, <3>1 DEF Measured
  <2>5. G[n] <= G[b]
    BY <1>4, <1>8 DEF TopAt
  <2>. QED
    BY <2>3, <2>4, <2>5
<1>10. C[m].k = "try"
  BY <1>7 DEF IsTry
<1>11. n > 1 /\ C[n - 1].k \in {"exec", "call"}
  BY <1>2, <1>5 DEF Placed, Stacked
<1>12. n - 1 > m /\ n - 1 \in 1..n
  BY <1>2, <1>6, <1>10, <1>11
<1>13. C[n - 1].k = "exec"
  BY <1>9, <1>11, <1>12
<1>14. (n - 1) - 1 = n - 2 /\ n - 2 >= m /\ n - 2 \in 1..n
  BY <1>2, <1>6, <1>12
<1>15. C[n - 2].k = "call" \/ IsResume(C[n - 2])
  BY <1>5, <1>12, <1>13, <1>14 DEF Placed, Stacked
<1>16. IsResume(C[n - 2])
  <2>1. CASE n - 2 = m
    BY <1>10, <1>15, <2>1
  <2>2. CASE n - 2 # m
    <3>1. n - 2 > m
      BY <1>2, <1>14, <1>6, <2>2
    <3>. QED
      BY <1>9, <1>14, <1>15, <3>1
  <2>. QED
    BY <2>1, <2>2
<1>17. n - 1 \in m..n /\ n - 2 \in m..n
  BY <1>2, <1>6, <1>12, <1>14
<1>18. C[n - 1].t = c /\ C[n - 2].t = c
  BY <1>6, <1>17 DEF Base
<1>19. c # MainThread
  BY <1>5, <1>14, <1>16, <1>18 DEF Placed, Stacked, IsResume, IsTry
<1>20. n > 2
  BY <1>2, <1>14, <1>6
<1>. QED
  BY <1>13, <1>16, <1>18, <1>19, <1>20 DEF Yields

LEMMA YieldKeeps ==
    ASSUME NEW T, NEW C, NEW M, Good(T, C, M),
           NEW n, n = Len(C), n # 0, NEW c, c = C[n].t, C[n].k = "cfun",
           T[c].nCcalls <= T[c].baseCcalls,
           NEW l \in LuaState, l.status = "yield", l.ci = T[c].ci,
           l.nCcalls = T[c].nCcalls, l.baseCcalls = T[c].baseCcalls,
           l.allowhook = T[c].allowhook, l.errorJmp = T[c].errorJmp
    PROVE  Yields(C, n, c) /\ Good([T EXCEPT ![c] = l], SubSeq(C, 1, n - 2), "run")
<1>1. PICK F, G, H : Shape(T, C, M, F, G, H)
  BY DEF Good
<1>2. /\ T \in [Thread -> LuaState] /\ C \in Seq(Activation) /\ n \in Nat \ {0}
      /\ n \in 1..n
  BY DEF Good
<1>3. Yields(C, n, c)
  BY <1>1, YieldPlace
<1>4. TopReady(T, C, M, n, c, T[c].errorJmp)
  BY <1>1, <1>2, TopFacts
<1>5. TopAt(T, C, M, F, G, H, n, c)
  BY <1>1, <1>4, TopMeasure DEF TopReady
<1>6. Measured(C, F, G, H) /\ Jumps(T, C) /\ \A i \in 1..n : Placed(C, F, G, H, i)
  BY <1>1, <1>2 DEF Shape, Measured
<1>7. PICK k \in Nat : k = n - 2
  BY <1>2, <1>3 DEF Yields
<1>8. /\ n - 1 = k + 1 /\ n = k + 2 /\ k \in 1..n /\ k + 1 \in 1..n /\ k \in 0..n
      /\ (k + 1) - 1 = k /\ (k + 2) - 1 = k + 1 /\ k > 0 /\ k + 1 \in 0..n
  BY <1>2, <1>3, <1>7 DEF Yields
<1>9. IsResume(C[k]) /\ C[k + 1].k = "exec" /\ C[k].t = c /\ C[n].k = "cfun"
  BY <1>3, <1>7, <1>8 DEF Yields
<1>10. /\ T[c].nCcalls = G[n] /\ T[c].allowhook = H[n] /\ Len(T[c].ci) = F[n]
  BY <1>5, <1>9 DEF TopAt, Switching, IsResume
<1>11. F[k] \in Nat /\ G[k] \in Nat /\ F[k + 1] \in Nat /\ G[k + 1] \in Nat
  BY <1>2, <1>6, <1>8 DEF Measured
<1>12. FramesOf(C[k + 1]) \in Nat \ {0}
  <2>1. C[k + 1] \in Activation
    <3>1. PICK i \in 1..Len(C) : i = k + 1
      BY <1>8
    <3>. QED
      BY <1>2, <3>1
  <2>2. C[k + 1] \in Exec
    BY <1>9, <2>1, ActivationFacts
  <2>. QED
    BY <2>2 DEF Exec, FramesOf
<1>13. /\ F[k + 1] = F[k] + FramesOf(C[k + 1]) /\ G[k + 1] = G[k] + CCallsOf(C[k + 1])
       /\ H[k + 1] = H[k]
  BY <1>6, <1>8, <1>9 DEF Placed, LevelAt, IsResume, NoHooks
<1>14. /\ F[n] = F[k + 1] + FramesOf(C[n]) /\ G[n] = G[k + 1] + CCallsOf(C[n])
       /\ H[n] = H[k + 1]
  BY <1>2, <1>6, <1>8, <1>9 DEF Placed, LevelAt, IsResume, NoHooks
<1>15. FramesOf(C[n]) = 1 /\ CCallsOf(C[n]) = 0 /\ CCallsOf(C[k + 1]) = 0
  BY <1>9 DEF FramesOf, CCallsOf, IsResume
<1>16. F[n] >= 2 /\ G[n] = G[k] /\ H[n] = H[k]
  BY <1>11, <1>12, <1>13, <1>14, <1>15
<1>. DEFINE D == SubSeq(C, 1, k)
<1>17. Len(D) = k /\ \A i \in 1..k : D[i] = C[i]
  <2>1. k \in 0..Len(C)
    BY <1>8
  <2>. QED
    BY <1>2, <2>1, CutFacts
<1>18. D = SubSeq(C, 1, k)
  OBVIOUS
<1>. HIDE DEF D
<1>19. k \in 1..k
  BY <1>8
<1>20. Switching(l, D, "run") /\ TopThread(D) = c
  BY <1>8, <1>9, <1>17, <1>19 DEF Switching, TopThread
<1>21. Fits(l, D, "run", F, G, H)
  BY <1>10, <1>16, <1>17, <1>20 DEF Fits
<1>22. Ready(l, c, D, "run")
  BY <1>3, <1>10, <1>16, <1>20 DEF Ready, Yields
<1>23. ASSUME NEW j \in (k + 1)..n PROVE ~IsTry(C[j])
  <2>1. j = k + 1 \/ j = n
    BY <1>8
  <2>. QED
    BY <1>9, <2>1 DEF IsTry
<1>24. Innermost(C, c, l.errorJmp, k)
  <2>1. Innermost(C, c, T[c].errorJmp, n) /\ c \in Thread
    BY <1>2, <1>4, <1>6 DEF Jumps, TopReady
  <2>2. T[c].errorJmp \in 0..k
    BY <1>2, <1>8, <1>23, <2>1 DEF Innermost
  <2>3. \A j \in (T[c].errorJmp + 1)..k : j \in (T[c].errorJmp + 1)..n
    BY <1>8, <2>2
  <2>. QED
    BY <2>1, <2>2, <2>3 DEF Innermost
<1>25. "run" \in Mode /\ c = TopThread(C)
  BY <1>4 DEF Mode, TopReady
<1>26. Good([T EXCEPT ![c] = l], D, "run")
  BY <1>1, <1>8, <1>18, <1>20, <1>21, <1>22, <1>23, <1>24, <1>25, CutKeeps
<1>. QED
  BY <1>3, <1>7, <1>18, <1>26

(* What is on top is part of what the thread has.                          *)
LEMMA TopCovered ==
    ASSUME NEW T, NEW C, NEW M, Good(T, C, M),
           NEW n, n = Len(C), n # 0, NEW t, t = C[n].t, T[t].status = "ok"
    PROVE  /\ ~IsResume(C[n]) => FramesOf(C[n]) <= Len(T[t].ci)
           /\ CCallsOf(C[n]) <= T[t].nCcalls
           /\ IsResume(C[n]) => Len(T[t].ci) = 0
<1>1. PICK F, G, H : Shape(T, C, M, F, G, H)
  BY DEF Good
<1>2. /\ C \in Seq(Activation) /\ n \in Nat \ {0} /\ n \in 1..n /\ t = TopThread(C)
      /\ n - 1 \in 0..n /\ C[n] \in Activation
  BY DEF Good, TopThread
<1>3. TopAt(T, C, M, F, G, H, n, t) /\ ~Switching(T[t], C, M)
  BY <1>1, <1>2, TopMeasure DEF Switching
<1>4. Measured(C, F, G, H) /\ LevelAt(C, F, G, H, n)
  BY <1>1, <1>2 DEF Shape, Measured, Placed
<1>5. F[n - 1] \in Nat /\ G[n - 1] \in Nat /\ FramesOf(C[n]) \in Nat /\ CCallsOf(C[n]) \in Nat
  BY <1>2, <1>4, ActivationFacts DEF Measured
<1>6. T[t].nCcalls = G[n - 1] + CCallsOf(C[n])
  BY <1>3, <1>4 DEF TopAt, LevelAt
<1>7. /\ ~IsResume(C[n]) => Len(T[t].ci) = F[n - 1] + FramesOf(C[n])
      /\ IsResume(C[n]) => Len(T[t].ci) = 0
  BY <1>3, <1>4 DEF TopAt, LevelAt
<1>. QED
  BY <1>5, <1>6, <1>7

(* A coroutine that runs has counted its own resumption.                   *)
LEMMA ResumedCounts ==
    ASSUME NEW T, NEW C, NEW M, Good(T, C, M),
           NEW n, n = Len(C), n # 0, NEW t, t = C[n].t,
           NEW e, e = T[t].errorJmp, IsResume(C[e])
    PROVE  e \in 1..n /\ C[e].t = t /\ T[t].nCcalls >= 1 /\ e > 1 /\ C[e - 1].k = "cfun"
<1>1. PICK F, G, H : Shape(T, C, M, F, G, H)
  BY DEF Good
<1>2. /\ T \in [Thread -> LuaState] /\ C \in Seq(Activation) /\ n \in Nat \ {0}
  BY DEF Good
<1>3. TopReady(T, C, M, n, t, e)
  BY <1>1, <1>2, TopFacts
<1>4. e \in 1..n /\ C[e].t = t /\ TopAt(T, C, M, F, G, H, n, t)
  BY <1>1, <1>3, TopMeasure DEF TopReady
<1>5. PICK d \in 1..n : d = e
  BY <1>4
<1>6. d \in 0..n /\ n \in 1..n /\ d - 1 \in 0..n
  BY <1>2
<1>7. Measured(C, F, G, H) /\ Placed(C, F, G, H, d) /\ Placed(C, F, G, H, n)
  BY <1>1, <1>2, <1>6 DEF Shape, Measured
<1>8. G[d] <= G[n] /\ G[d] = G[d - 1] + 1 /\ C[d - 1].k = "cfun" /\ d > 1
  <2>1. CCallsOf(C[d]) = 1 /\ IsTry(C[d])
    BY <1>5 DEF CCallsOf, IsResume, IsTry
  <2>. QED
    BY <1>5, <1>6, <1>7, <2>1 DEF Placed, LevelAt, Rises, Stacked, IsResume, IsTry
<1>9. G[d] \in Nat /\ G[n] \in Nat /\ G[d - 1] \in Nat /\ n \in 0..n
  <2>1. n \in 0..n
    BY <1>2
  <2>. QED
    BY <1>2, <1>6, <1>7, <2>1 DEF Measured
<1>10. G[n] >= 1
  BY <1>8, <1>9
<1>. QED
  BY <1>4, <1>5, <1>8, <1>10 DEF TopAt

LEMMA YieldedFrames ==
    ASSUME NEW T, NEW C, NEW M, Good(T, C, M), NEW c \in Thread, T[c].status = "yield"
    PROVE  Len(T[c].ci) >= 2 /\ c # MainThread
BY DEF Good, Shape, Alive

(* close_state: the handler of the finalizers, at the bottom, ends.        *)
LEMMA CutClose ==
    ASSUME NEW T, NEW C, NEW M, Good(T, C, M),
           NEW n, n = Len(C), n # 0, NEW t, t = C[n].t,
           IsTry(C[n]), C[n].kind = "close", T[t].status = "ok",
           NEW l \in LuaState, l.status = "ok", l.ci = T[t].ci, l.nCcalls = T[t].nCcalls,
           l.baseCcalls = T[t].baseCcalls, l.allowhook = T[t].allowhook, l.errorJmp = 0
    PROVE  n = 1 /\ t = MainThread /\ Good([T EXCEPT ![t] = l], SubSeq(C, 1, n - 1), "run")
<1>1. PICK F, G, H : Shape(T, C, M, F, G, H)
  BY DEF Good
<1>2. /\ C \in Seq(Activation) /\ n \in Nat \ {0} /\ n \in 1..n /\ t = TopThread(C)
      /\ "run" \in Mode
  BY DEF Good, TopThread, Mode
<1>3. Measured(C, F, G, H) /\ LevelAt(C, F, G, H, n) /\ Stacked(C, n)
  BY <1>1, <1>2 DEF Shape, Measured, Placed
<1>4. n = 1 /\ t = MainThread
  BY <1>3 DEF Stacked
<1>5. TopAt(T, C, M, F, G, H, n, t) /\ ~Switching(T[t], C, M)
  BY <1>1, <1>2, TopMeasure DEF Switching
<1>6. /\ ~IsResume(C[n]) /\ ~NoHooks(C[n]) /\ FramesOf(C[n]) = 0 /\ CCallsOf(C[n]) = 0
      /\ C[n].kind # "pcall"
  BY DEF IsTry, IsResume, NoHooks, FramesOf, CCallsOf
<1>7. F[0] = 0 /\ G[0] = 0 /\ F[n] = 0 /\ G[n] = 0 /\ H[n] = H[0]
  BY <1>3, <1>4, <1>6 DEF Measured, LevelAt
<1>8. Len(l.ci) = F[0] /\ l.nCcalls = G[0] /\ l.allowhook = H[0]
  BY <1>5, <1>7 DEF TopAt
<1>. DEFINE D == SubSeq(C, 1, 0)
<1>9. Len(D) = 0 /\ TopThread(D) = t
  BY <1>4 DEF TopThread
<1>. HIDE DEF D
<1>10. Fits(l, D, "run", F, G, H) /\ Ready(l, t, D, "run")
  BY <1>8, <1>9 DEF Fits, At, Switching, Ready
<1>11. Innermost(C, t, l.errorJmp, 0)
  BY DEF Innermost
<1>12. Good([T EXCEPT ![t] = l], D, "run")
  <2>1. \A j \in (0 + 1)..n : IsTry(C[j]) => C[j].t = t
    BY <1>4
  <2>2. 0 \in 0..n
    BY <1>2
  <2>. QED
    BY <1>1, <1>2, <1>9, <1>10, <1>11, <2>1, <2>2, CutKeeps DEF D
<1>. QED
  BY <1>4, <1>12 DEF D

-----------------------------------------------------------------------------
(***************************************************************************)
(* Every step of LuaCalls is a short chain of moves on a state             *)
(* [th, cs, mode]: a call is counted, a function entered, a protected call *)
(* begun, a coroutine left.  A move changes one thread and the top of the  *)
(* C stack.  Each move keeps CallsInv, and so does every step; invariants  *)
(* that build on CallsInv need to look at the moves only.                  *)
(***************************************************************************)
State == [th : [Thread -> LuaState], cs : Seq(Activation), mode : Mode]

OK(s) == s \in State /\ Good(s.th, s.cs, s.mode)

TopOf(s) == s.cs[Len(s.cs)]

Own(s) == s.th[TopThread(s.cs)]

Sets(s, l, D, N) == [th |-> [s.th EXCEPT ![TopThread(s.cs)] = l], cs |-> D, mode |-> N]

(* A function is about to act.                                             *)
Acts(s) == s.cs # <<>> /\ Own(s).status = "ok"

-----------------------------------------------------------------------------
(* The moves.                                                              *)

(* No longjmp is under way.                                                *)
Working(N) == N \in {"run", "error"}

(* Why the mode may become N: code goes on after an error only in a        *)
(* handler, and an error in error handling has a reason.                   *)
Turns(s, N) ==
    /\ Working(s.mode) \/ ~Working(N)
    /\ N = "run" => s.mode = "run" \/ TopOf(s).k = "errormsg"
    /\ N = "errerr" => Own(s).errfunc > 0 \/ Len(Own(s).ci) >= MaxCalls

ModeMove(s, r) ==
    \E N \in Mode : Acts(s) /\ Turns(s, N) /\ r = [s EXCEPT !.mode = N]

SizeMove(s, r) ==
    \E x \in Thread, z \in Nat :
       Len(s.th[x].ci) < z /\ s.mode = "run" /\ r = [s EXCEPT !.th[x].size_ci = z]

(* luaD_call counts a call, and looks at the limits: it reports an         *)
(* overflow when the count gets to the limit, and "error in error          *)
(* handling" when the room for handlers is used up too.                    *)
Counts(n, N) ==
    /\ Working(N) => n < MaxCCalls + ErrorRoom
    /\ N = "run" => n # MaxCCalls
    /\ N = "errerr" => n >= MaxCCalls + ErrorRoom

CallMove(s, r) ==
    \E N \in Mode :
       /\ Acts(s) /\ ~IsResume(TopOf(s)) /\ s.mode = "run"
       /\ Counts(Own(s).nCcalls + 1, N)
       /\ r = Sets(s, [Own(s) EXCEPT !.nCcalls = @ + 1],
                   Append(s.cs, [k |-> "call", t |-> TopThread(s.cs)]), N)

Entry(f, t) ==
    IF f = "lua" THEN [k |-> "exec", t |-> t, n |-> 1]
    ELSE [k |-> "cfun", t |-> t, f |-> f, st |-> "start"]

(* A function gets a CallInfo and is entered.                              *)
EnterMove(s, r) ==
    \E f \in Frame :
       /\ Acts(s) /\ s.mode = "run"
       /\ IF f = "lua" THEN TopOf(s).k = "call" \/ (IsResume(TopOf(s)) /\ Own(s).ci = <<>>)
          ELSE TopOf(s).k \in {"exec", "call"}
       /\ Len(Own(s).ci) + 1 < Own(s).size_ci
       /\ r = Sets(s, [Own(s) EXCEPT !.ci = Append(@, f)],
                   Append(s.cs, Entry(f, TopThread(s.cs))), s.mode)

(* luaV_execute itself runs the Lua function that it calls, and returns    *)
(* from it.                                                                *)
ReenterMove(s, r) ==
    /\ Acts(s) /\ TopOf(s).k = "exec" /\ s.mode = "run"
    /\ \/ /\ Len(Own(s).ci) + 1 < Own(s).size_ci
          /\ r = Sets(s, [Own(s) EXCEPT !.ci = Append(@, "lua")],
                      [s.cs EXCEPT ![Len(s.cs)] = [TopOf(s) EXCEPT !.n = @ + 1]], s.mode)
       \/ /\ TopOf(s).n > 1
          /\ r = Sets(s, [Own(s) EXCEPT !.ci = SubSeq(@, 1, Len(@) - 1)],
                      [s.cs EXCEPT ![Len(s.cs)] = [TopOf(s) EXCEPT !.n = @ - 1]], s.mode)

(* A C function is through with its call.                                  *)
ThroughMove(s, r) ==
    /\ Acts(s) /\ TopOf(s).k = "cfun" /\ s.mode = "run"
    /\ r = [s EXCEPT !.cs = [s.cs EXCEPT ![Len(s.cs)] = [@ EXCEPT !.st = "done"]]]

(* The parser counts its levels.                                           *)
LevelMove(s, r) ==
    \E d \in {1, -1}, N \in {"run", "throw"} :
       /\ Acts(s) /\ TopOf(s).k = "parse" /\ TopOf(s).level + d >= 0 /\ s.mode = "run"
       /\ Working(N) => d = -1 \/ Own(s).nCcalls + d <= MaxCCalls
       /\ r = Sets(s, [Own(s) EXCEPT !.nCcalls = @ + d],
                   [s.cs EXCEPT ![Len(s.cs)] = [TopOf(s) EXCEPT !.level = @ + d]], N)

(* A hook, a finalizer, an error handler or the parser is about to run.    *)
BeginMove(s, r) ==
    \E a \in Activation, h \in BOOLEAN :
       /\ Acts(s) /\ a.t = TopThread(s.cs) /\ (s.mode = "run" \/ a.k = "errormsg")
       /\ \/ a.k = "hook" /\ Own(s).allowhook /\ h = FALSE
          \/ a.k = "gctm" /\ a.oldah = Own(s).allowhook /\ h = FALSE
          \/ a.k = "errormsg" /\ h = Own(s).allowhook
          \/ a.k = "parse" /\ a.level = 0 /\ IsTry(TopOf(s)) /\ h = Own(s).allowhook
       /\ r = Sets(s, [Own(s) EXCEPT !.allowhook = h], Append(s.cs, a), s.mode)

(* What is on top ends normally: a function, a call, the parser, a hook or *)
(* a finalizer.                                                            *)
LeaveMove(s, r) ==
    /\ Acts(s) /\ s.mode = "run"
    /\ \E l \in LuaState :
          /\ \/ /\ TopOf(s).k = "cfun" \/ (TopOf(s).k = "exec" /\ TopOf(s).n = 1)
                /\ l = [Own(s) EXCEPT !.ci = SubSeq(@, 1, Len(@) - 1)]
             \/ TopOf(s).k = "call" /\ l = [Own(s) EXCEPT !.nCcalls = @ - 1]
             \/ TopOf(s).k = "parse" /\ TopOf(s).level = 0 /\ l = Own(s)
             \/ TopOf(s).k = "hook" /\ l = [Own(s) EXCEPT !.allowhook = TRUE]
             \/ TopOf(s).k = "gctm" /\ l = [Own(s) EXCEPT !.allowhook = TopOf(s).oldah]
          /\ r = Sets(s, l, SubSeq(s.cs, 1, Len(s.cs) - 1), "run")

(* What luaD_rawrunprotected keeps.                                        *)
TryOf(kind, t, l) ==
    [k |-> "try", t |-> t, kind |-> kind, previous |-> l.errorJmp,
     old_ci |-> Len(l.ci), oldnCcalls |-> l.nCcalls,
     old_allowhooks |-> l.allowhook, old_errfunc |-> l.errfunc]

(* The error function that luaD_pcall is given.                            *)
HandlerFor(s) ==
    IF s.cs = <<>> THEN 0
    ELSE CASE TopOf(s).f \in {"xpcall", "xpcallnil"} -> Len(Own(s).ci)
           [] TopOf(s).f = "load" -> Own(s).errfunc
           [] OTHER -> 0

(* The C functions that call in protected mode.                            *)
Protecting == {"pcall", "xpcall", "xpcallnil", "load"}

PcallMove(s, r) ==
    /\ Own(s).status = "ok" /\ s.mode = "run"
    /\ s.cs = <<>> \/ (TopOf(s).k = "cfun" /\ TopOf(s).f \in Protecting)
    /\ r = Sets(s, [Own(s) EXCEPT !.errorJmp = Len(s.cs) + 1, !.errfunc = HandlerFor(s)],
                Append(s.cs, TryOf("pcall", TopThread(s.cs), Own(s))), s.mode)

(* luaD_pcall ends, in the same way normally and by an error.              *)
EndPcallMove(s, r) ==
    /\ s.cs # <<>> /\ s.cs[Own(s).errorJmp].kind = "pcall"
    /\ \E z \in Nat :
          LET j == s.cs[Own(s).errorJmp]
          IN /\ j.old_ci < z
             /\ r = Sets(s, [Own(s) EXCEPT !.ci = SubSeq(@, 1, j.old_ci),
                                           !.nCcalls = j.oldnCcalls,
                                           !.allowhook = j.old_allowhooks,
                                           !.errfunc = j.old_errfunc,
                                           !.errorJmp = j.previous, !.size_ci = z],
                         SubSeq(s.cs, 1, Own(s).errorJmp - 1), "run")

(* lua_resume begins: a coroutine that was not started has its function    *)
(* taken.                                                                  *)
ResumeMove(s, r) ==
    \E c \in Thread \ {MainThread} :
       LET n == Own(s).nCcalls
           l == [s.th[c] EXCEPT !.nCcalls = n + 1, !.baseCcalls = n + 1,
                              !.fn = @ /\ s.th[c].status = "yield"]
       IN /\ Acts(s) /\ TopOf(s).k = "cfun" /\ TopOf(s).f \in {"resume", "wrap"}
          /\ s.mode = "run"
          /\ c # TopThread(s.cs) /\ s.th[c].errorJmp = 0 /\ n < MaxCCalls
          /\ s.th[c].status = "yield" \/ (s.th[c].status = "ok" /\ s.th[c].ci = <<>>)
          /\ r = [th |-> [s.th EXCEPT ![c] = [l EXCEPT !.errorJmp = Len(s.cs) + 1]],
                  cs |-> Append(s.cs, TryOf("resume", c, l)), mode |-> "run"]

(* The coroutine goes on after a yield.                                    *)
ContinueMove(s, r) ==
    /\ s.cs # <<>> /\ IsResume(TopOf(s)) /\ Own(s).status = "yield" /\ s.mode = "run"
    /\ r = Sets(s, [Own(s) EXCEPT !.ci = SubSeq(@, 1, Len(@) - 1), !.status = "ok"],
                Append(s.cs, [k |-> "exec", t |-> TopThread(s.cs), n |-> Len(Own(s).ci) - 1]),
                "run")

YieldMove(s, r) ==
    /\ Acts(s) /\ s.mode = "run" /\ TopOf(s).k = "cfun" /\ TopOf(s).f = "yield"
    /\ Own(s).nCcalls <= Own(s).baseCcalls
    /\ r = Sets(s, [Own(s) EXCEPT !.status = "yield"], SubSeq(s.cs, 1, Len(s.cs) - 2), "run")

(* lua_resume ends: the coroutine has yielded or returned, or dies.        *)
EndResumeMove(s, r) ==
    LET e == Own(s).errorJmp
    IN /\ s.cs # <<>> /\ IsResume(s.cs[e])
       /\ \E code \in Status :
             /\ code \in {"throw", "errerr"} \/ (e = Len(s.cs) /\ code = Own(s).status)
             /\ r = Sets(s, [Own(s) EXCEPT !.status = code, !.nCcalls = @ - 1, !.errorJmp = 0],
                         SubSeq(s.cs, 1, e - 1), "run")

(* A coroutine that does not run is replaced by a new one, or lost.        *)
OtherMove(s, r) ==
    \E c \in Thread \ {MainThread} :
       /\ c # TopThread(s.cs) /\ s.th[c].errorJmp = 0 /\ s.mode = "run"
       /\ \E l \in LuaState :
             /\ \/ /\ \/ s.th[c].status \in {"throw", "errerr"}
                      \/ s.th[c].status = "ok" /\ s.th[c].ci = <<>> /\ ~s.th[c].fn
                   /\ l = NewThread(TRUE)
                \/ /\ s.th[c].status = "yield" \/ (s.th[c].status = "ok" /\ s.th[c].ci = <<>>)
                   /\ l = [s.th[c] EXCEPT !.nCcalls = Own(s).nCcalls,
                                          !.fn = @ /\ s.th[c].status = "yield"]
             /\ r = [s EXCEPT !.th = [s.th EXCEPT ![c] = l]]

(* lua_close calls finalizers, for the first time or after an error.       *)
CloseMove(s, r) ==
    \E l \in LuaState, f \in Nat :
       /\ \A j \in 1..Len(s.cs) : s.cs[j].t = MainThread
       /\ s.cs = <<>> \/ (Own(s).errorJmp = 1 /\ s.cs[1].kind = "close")
       /\ f = 0 \/ (s.cs # <<>> /\ f = Own(s).errfunc)
       /\ l = [Own(s) EXCEPT !.ci = <<>>, !.nCcalls = 0, !.baseCcalls = 0,
                             !.errfunc = f, !.errorJmp = 0]
       /\ r = Sets(s, [l EXCEPT !.errorJmp = 1], <<TryOf("close", MainThread, l)>>, "run")

(* close_state.                                                            *)
ClosedMove(s, r) ==
    /\ Acts(s) /\ IsTry(TopOf(s)) /\ TopOf(s).kind = "close" /\ s.mode = "run"
    /\ r = Sets(s, [Own(s) EXCEPT !.errorJmp = 0], SubSeq(s.cs, 1, Len(s.cs) - 1), "run")

Move(s, r) ==
    \/ r = s
    \/ ModeMove(s, r) \/ SizeMove(s, r) \/ CallMove(s, r) \/ EnterMove(s, r)
    \/ ReenterMove(s, r) \/ ThroughMove(s, r) \/ LevelMove(s, r) \/ BeginMove(s, r)
    \/ LeaveMove(s, r) \/ PcallMove(s, r) \/ ResumeMove(s, r)
    \/ ContinueMove(s, r) \/ YieldMove(s, r)
    \/ EndResumeMove(s, r) \/ OtherMove(s, r)

(* A protected call ends, and the C function that made it is through.      *)
EndsPcall(s, r) == \E x : EndPcallMove(s, x) /\ (r = x \/ ThroughMove(x, r))

-----------------------------------------------------------------------------
(* The moves keep the invariant.                                           *)

(* The numbers a thread counts with.                                       *)
LEMMA CountsFacts ==
    ASSUME NEW l \in LuaState
    PROVE  Len(l.ci) \in Nat /\ l.nCcalls \in Nat
BY DEF LuaState

LEMMA OwnFacts ==
    ASSUME NEW s, OK(s)
    PROVE  /\ s.th \in [Thread -> LuaState] /\ s.cs \in Seq(Activation) /\ s.mode \in Mode
           /\ TopThread(s.cs) \in Thread /\ Own(s) \in LuaState
           /\ Len(s.cs) \in Nat
           /\ s.cs # <<>> => /\ Len(s.cs) \in Nat \ {0} /\ Len(s.cs) # 0
                             /\ TopOf(s) \in Activation
                             /\ TopThread(s.cs) = TopOf(s).t
           /\ s.cs = <<>> => Len(s.cs) = 0 /\ TopThread(s.cs) = MainThread
<1>1. s.th \in [Thread -> LuaState] /\ s.cs \in Seq(Activation) /\ s.mode \in Mode
  BY DEF OK, State
<1>2. Len(s.cs) \in Nat /\ (s.cs # <<>> => Len(s.cs) # 0) /\ (s.cs = <<>> => Len(s.cs) = 0)
  BY <1>1
<1>3. s.cs # <<>> => TopOf(s) \in Activation /\ TopOf(s).t \in Thread
  <2>1. ASSUME s.cs # <<>> PROVE TopOf(s) \in Activation
    BY <1>1, <1>2, <2>1 DEF TopOf
  <2>. QED
    BY <2>1, ActivationFacts
<1>. QED
  BY <1>1, <1>2, <1>3, CallsAssumption DEF TopThread, TopOf, Own

LEMMA SetsFacts ==
    ASSUME NEW s, OK(s), NEW l, NEW D, NEW N,
           Good([s.th EXCEPT ![TopThread(s.cs)] = l], D, N)
    PROVE  OK(Sets(s, l, D, N))
BY DEF OK, State, Sets, Good

LEMMA CallMoveKeeps ==
    ASSUME NEW s, OK(s), NEW r, CallMove(s, r)
    PROVE  OK(r)
<1>. DEFINE t == TopThread(s.cs)
            a == [k |-> "call", t |-> t]
            l == [Own(s) EXCEPT !.nCcalls = @ + 1]
<1>1. PICK N \in Mode : Acts(s) /\ ~IsResume(TopOf(s)) /\ r = Sets(s, l, Append(s.cs, a), N)
  BY DEF CallMove
<1>2. a \in Activation /\ a.k = "call" /\ a.t = t
  BY OwnFacts DEF Activation, Plain
<1>3. /\ l \in LuaState /\ l.status = "ok" /\ l.ci = Own(s).ci
      /\ l.nCcalls = Own(s).nCcalls + 1 /\ l.baseCcalls = Own(s).baseCcalls
      /\ l.errorJmp = Own(s).errorJmp /\ l.allowhook = Own(s).allowhook
  <2>1. PICK o \in LuaState : o = Own(s)
    BY OwnFacts
  <2>2. o.nCcalls \in Nat /\ l = [o EXCEPT !.nCcalls = o.nCcalls + 1]
    BY <2>1 DEF LuaState
  <2>3. [o EXCEPT !.nCcalls = o.nCcalls + 1] \in LuaState
    BY <2>2 DEF LuaState
  <2>. QED
    BY <1>1, <2>1, <2>2, <2>3 DEF LuaState, Acts
<1>4. FramesOf(a) = 0 /\ CCallsOf(a) = 1 /\ ~IsTry(a) /\ ~NoHooks(a)
  BY <1>2 DEF FramesOf, CCallsOf, IsTry, IsResume, NoHooks
<1>. HIDE DEF a, l
<1>5. Len(l.ci) = Len(Own(s).ci) + FramesOf(a)
  <2>1. Len(Own(s).ci) \in Nat
    BY OwnFacts DEF LuaState
  <2>. QED
    BY <1>3, <1>4, <2>1
<1>6. Good([s.th EXCEPT ![t] = l], Append(s.cs, a), N)
  BY <1>1, <1>2, <1>3, <1>4, <1>5, OwnFacts, PushKeeps DEF OK, Acts, TopOf, Own
<1>. QED
  BY <1>1, <1>6, SetsFacts

LEMMA ModeMoveKeeps ==
    ASSUME NEW s, OK(s), NEW r, ModeMove(s, r)
    PROVE  OK(r)
<1>1. PICK N \in Mode : Acts(s) /\ r = [s EXCEPT !.mode = N]
  BY DEF ModeMove
<1>. DEFINE n == Len(s.cs)  t == TopThread(s.cs)  b == s.cs[n]
<1>2. /\ n # 0 /\ b \in Activation /\ t = b.t /\ Own(s) \in LuaState
      /\ Own(s).status = "ok" /\ n = Len(s.cs)
  BY <1>1, OwnFacts DEF Acts, TopOf
<1>3. Good([s.th EXCEPT ![t] = Own(s)], [s.cs EXCEPT ![n] = b], N)
  BY <1>2, TopKeeps DEF OK, Own
<1>4. [s.th EXCEPT ![t] = Own(s)] = s.th /\ [s.cs EXCEPT ![n] = b] = s.cs
  BY OwnFacts DEF Own
<1>. QED
  BY <1>1, <1>3, <1>4 DEF OK, State

LEMMA ResizedFacts ==
    ASSUME NEW o \in LuaState, NEW z \in Nat
    PROVE  [o EXCEPT !.size_ci = z] \in LuaState /\ Alike([o EXCEPT !.size_ci = z], o)
BY DEF LuaState, Alike

LEMMA SizeMoveKeeps ==
    ASSUME NEW s, OK(s), NEW r, SizeMove(s, r)
    PROVE  OK(r)
<1>1. PICK x \in Thread, z \in Nat : r = [s EXCEPT !.th[x].size_ci = z]
  BY DEF SizeMove
<1>. DEFINE l == [s.th[x] EXCEPT !.size_ci = z]
<1>2. l \in LuaState /\ Alike(l, s.th[x])
  BY OwnFacts, ResizedFacts
<1>. HIDE DEF l
<1>3. Good([s.th EXCEPT ![x] = l], s.cs, s.mode)
  BY <1>2, AlikeKeeps DEF OK
<1>4. r = [s EXCEPT !.th = [s.th EXCEPT ![x] = l]]
  BY <1>1 DEF l
<1>. QED
  BY <1>3, <1>4 DEF OK, State, Good

LEMMA ThroughMoveKeeps ==
    ASSUME NEW s, OK(s), NEW r, ThroughMove(s, r)
    PROVE  OK(r)
<1>. DEFINE n == Len(s.cs)  t == TopThread(s.cs)  b == [TopOf(s) EXCEPT !.st = "done"]
<1>1. /\ Acts(s) /\ TopOf(s).k = "cfun" /\ r = [s EXCEPT !.cs = [s.cs EXCEPT ![n] = b]]
  BY DEF ThroughMove, TopOf
<1>2. /\ n # 0 /\ TopOf(s) \in Activation /\ t = TopOf(s).t /\ Own(s) \in LuaState
      /\ Own(s).status = "ok" /\ n = Len(s.cs) /\ s.mode \in Mode
  BY <1>1, OwnFacts DEF Acts
<1>3. b \in CFun /\ b.k = "cfun" /\ b.t = t
  <2>1. TopOf(s) \in CFun
    BY <1>1, <1>2, ActivationFacts
  <2>. QED
    BY <1>2, <2>1 DEF CFun
<1>4. /\ b \in Activation /\ ~IsTry(b) /\ FramesOf(b) = FramesOf(TopOf(s))
      /\ CCallsOf(b) = CCallsOf(TopOf(s))
  BY <1>1, <1>3 DEF Activation, IsTry, IsResume, FramesOf, CCallsOf
<1>. HIDE DEF b
<1>5. Good([s.th EXCEPT ![t] = Own(s)], [s.cs EXCEPT ![n] = b], s.mode)
  BY <1>1, <1>2, <1>3, <1>4, TopKeeps DEF OK, Own, TopOf
<1>6. [s.th EXCEPT ![t] = Own(s)] = s.th
  BY OwnFacts DEF Own
<1>. QED
  BY <1>1, <1>5, <1>6 DEF OK, State, Good

LEMMA CallInfoFacts ==
    ASSUME NEW o \in LuaState, NEW f \in Frame
    PROVE  /\ o.ci \in Seq(Frame) /\ Len(o.ci) \in Nat
           /\ [o EXCEPT !.ci = Append(o.ci, f)] \in LuaState
           /\ Len(Append(o.ci, f)) = Len(o.ci) + 1
<1>1. o.ci \in Seq(Frame) /\ Len(o.ci) \in Nat
  BY DEF LuaState
<1>2. PICK c \in Seq(Frame) : c = Append(o.ci, f) /\ Len(c) = Len(o.ci) + 1
  <2>1. PICK d \in Seq(Frame) : d = o.ci
    BY <1>1
  <2>2. Append(d, f) \in Seq(Frame) /\ Len(Append(d, f)) = Len(d) + 1
    OBVIOUS
  <2>. QED
    BY <2>1, <2>2
<1>3. [o EXCEPT !.ci = c] \in LuaState
  BY DEF LuaState
<1>. QED
  BY <1>1, <1>2, <1>3

LEMMA FewerFacts ==
    ASSUME NEW o \in LuaState, NEW k \in 0..Len(o.ci)
    PROVE  /\ [o EXCEPT !.ci = SubSeq(o.ci, 1, k)] \in LuaState
           /\ Len(SubSeq(o.ci, 1, k)) = k
<1>1. o.ci \in Seq(Frame)
  BY DEF LuaState
<1>2. SubSeq(o.ci, 1, k) \in Seq(Frame) /\ Len(SubSeq(o.ci, 1, k)) = k
  BY <1>1, CutFacts
<1>. QED
  BY <1>2 DEF LuaState

LEMMA EnterMoveKeeps ==
    ASSUME NEW s, OK(s), NEW r, EnterMove(s, r)
    PROVE  OK(r)
<1>. DEFINE t == TopThread(s.cs)  n == Len(s.cs)
<1>1. PICK f \in Frame :
         /\ Acts(s)
         /\ IF f = "lua" THEN TopOf(s).k = "call" \/ (IsResume(TopOf(s)) /\ Own(s).ci = <<>>)
            ELSE TopOf(s).k \in {"exec", "call"}
         /\ r = Sets(s, [Own(s) EXCEPT !.ci = Append(@, f)],
                     Append(s.cs, Entry(f, t)), s.mode)
  BY DEF EnterMove
<1>. DEFINE l == [Own(s) EXCEPT !.ci = Append(@, f)]  a == Entry(f, t)
<1>2. /\ n # 0 /\ TopOf(s) \in Activation /\ t = TopOf(s).t /\ Own(s) \in LuaState
      /\ Own(s).status = "ok" /\ n = Len(s.cs) /\ s.mode \in Mode /\ t \in Thread
  BY <1>1, OwnFacts DEF Acts
<1>3. /\ l \in LuaState /\ Len(Own(s).ci) \in Nat /\ l.ci = Append(Own(s).ci, f)
      /\ Len(l.ci) = Len(Own(s).ci) + 1 /\ l.status = "ok"
      /\ l.nCcalls = Own(s).nCcalls /\ l.baseCcalls = Own(s).baseCcalls
      /\ l.errorJmp = Own(s).errorJmp /\ l.allowhook = Own(s).allowhook
  <2>1. PICK o \in LuaState : o = Own(s)
    BY <1>2
  <2>2. l = [o EXCEPT !.ci = Append(o.ci, f)]
    BY <2>1
  <2>. QED
    BY <1>2, <2>1, <2>2, CallInfoFacts DEF LuaState
<1>4. /\ a \in Activation /\ a.t = t /\ a.k = (IF f = "lua" THEN "exec" ELSE "cfun")
      /\ FramesOf(a) = 1 /\ CCallsOf(a) = 0 /\ ~IsTry(a) /\ ~NoHooks(a)
  BY <1>2 DEF Entry, Frame, Activation, CFun, Exec, FramesOf, CCallsOf, IsTry, IsResume, NoHooks
<1>5. Len(l.ci) = (IF IsResume(TopOf(s)) THEN 0 ELSE Len(Own(s).ci)) + FramesOf(a)
  <2>1. CASE IsResume(TopOf(s))
    <3>1. f = "lua" /\ Own(s).ci = <<>>
      BY <1>1, <2>1 DEF IsResume
    <3>2. Len(Own(s).ci) = 0
      BY <3>1
    <3>. QED
      BY <1>3, <1>4, <2>1, <3>2
  <2>2. CASE ~IsResume(TopOf(s))
    BY <1>3, <1>4, <2>2
  <2>. QED
    BY <2>1, <2>2
<1>6. Own(s).nCcalls + 0 = Own(s).nCcalls
  BY <1>2 DEF LuaState
<1>. HIDE DEF l, a
<1>7. Good([s.th EXCEPT ![t] = l], Append(s.cs, a), s.mode)
  BY Zenon, <1>1, <1>2, <1>3, <1>4, <1>5, <1>6, PushKeeps DEF OK, TopOf, Own
<1>8. r = Sets(s, l, Append(s.cs, a), s.mode)
  BY <1>1 DEF l, a
<1>. QED
  BY <1>7, <1>8, SetsFacts

(* The thread and the activation on top change together.                   *)
LEMMA ReplaceKeeps ==
    ASSUME NEW s, OK(s), Acts(s),
           NEW b \in Activation, b.k = TopOf(s).k, b.t = TopOf(s).t, ~IsTry(b), b.k # "gctm",
           NEW l \in LuaState,
           Len(l.ci) + FramesOf(TopOf(s)) = Len(Own(s).ci) + FramesOf(b),
           l.nCcalls + CCallsOf(TopOf(s)) = Own(s).nCcalls + CCallsOf(b),
           l.status = Own(s).status, l.baseCcalls = Own(s).baseCcalls,
           l.errorJmp = Own(s).errorJmp, l.allowhook = Own(s).allowhook,
           NEW N \in Mode, NEW r, r = Sets(s, l, [s.cs EXCEPT ![Len(s.cs)] = b], N)
    PROVE  OK(r)
<1>1. /\ Len(s.cs) # 0 /\ TopThread(s.cs) = TopOf(s).t /\ Own(s).status = "ok"
      /\ s.mode \in Mode
  BY OwnFacts DEF Acts
<1>2. Good([s.th EXCEPT ![TopThread(s.cs)] = l], [s.cs EXCEPT ![Len(s.cs)] = b], N)
  BY <1>1, TopKeeps DEF OK, Own, TopOf
<1>. QED
  BY <1>2, SetsFacts

LEMMA ReenterMoveKeeps ==
    ASSUME NEW s, OK(s), NEW r, ReenterMove(s, r)
    PROVE  OK(r)
<1>1. /\ Acts(s) /\ TopOf(s).k = "exec" /\ TopOf(s) \in Activation
  BY OwnFacts DEF ReenterMove, Acts
<1>2. PICK o \in LuaState : o = Own(s)
  BY OwnFacts
<1>3. PICK a \in Exec : a = TopOf(s)
  BY <1>1, ActivationFacts
<1>4. a.k = "exec" /\ a.n \in Nat \ {0} /\ a.t \in Thread /\ FramesOf(a) = a.n /\ CCallsOf(a) = 0
  BY DEF Exec, FramesOf, CCallsOf, IsResume
<1>5. ASSUME NEW m \in Nat \ {0}
      PROVE  LET b == [a EXCEPT !.n = m]
             IN /\ b \in Activation /\ b.k = "exec" /\ b.t = a.t /\ ~IsTry(b)
                /\ FramesOf(b) = m /\ CCallsOf(b) = 0
  BY <1>4 DEF Activation, Exec, IsTry, FramesOf, CCallsOf, IsResume
<1>6. o.ci \in Seq(Frame) /\ Len(o.ci) \in Nat /\ "lua" \in Frame /\ o.nCcalls \in Nat
  BY DEF LuaState, Frame
<1>7. CASE r = Sets(s, [Own(s) EXCEPT !.ci = Append(@, "lua")],
                    [s.cs EXCEPT ![Len(s.cs)] = [TopOf(s) EXCEPT !.n = @ + 1]], s.mode)
  <2>. DEFINE l == [o EXCEPT !.ci = Append(o.ci, "lua")]
              b == [a EXCEPT !.n = a.n + 1]
  <2>1. /\ l \in LuaState /\ Len(l.ci) = Len(o.ci) + 1
        /\ l.nCcalls = o.nCcalls /\ l.status = o.status /\ l.baseCcalls = o.baseCcalls
        /\ l.errorJmp = o.errorJmp /\ l.allowhook = o.allowhook
    BY <1>6, CallInfoFacts DEF LuaState
  <2>2. a.n + 1 \in Nat \ {0}
    BY <1>4
  <2>3. /\ b \in Activation /\ b.k = "exec" /\ b.t = a.t /\ ~IsTry(b)
        /\ FramesOf(b) = a.n + 1 /\ CCallsOf(b) = 0
    BY <1>5, <2>2
  <2>4. r = Sets(s, l, [s.cs EXCEPT ![Len(s.cs)] = b], s.mode)
    <3>1. l = [Own(s) EXCEPT !.ci = Append(@, "lua")]
      BY <1>2
    <3>2. b = [TopOf(s) EXCEPT !.n = @ + 1]
      BY <1>3
    <3>. QED
      BY <1>7, <3>1, <3>2
  <2>. HIDE DEF l, b
  <2>5. /\ Len(l.ci) + FramesOf(a) = Len(o.ci) + FramesOf(b)
        /\ l.nCcalls + CCallsOf(a) = o.nCcalls + CCallsOf(b)
    BY <1>4, <1>6, <2>1, <2>3
  <2>. QED
    BY <1>1, <1>2, <1>3, <1>4, <2>1, <2>3, <2>4, <2>5, OwnFacts, ReplaceKeeps
<1>8. CASE /\ a.n > 1
           /\ r = Sets(s, [Own(s) EXCEPT !.ci = SubSeq(@, 1, Len(@) - 1)],
                       [s.cs EXCEPT ![Len(s.cs)] = [TopOf(s) EXCEPT !.n = @ - 1]], s.mode)
  <2>. DEFINE l == [o EXCEPT !.ci = SubSeq(o.ci, 1, Len(o.ci) - 1)]
              b == [a EXCEPT !.n = a.n - 1]
  <2>0. Len(o.ci) - 1 \in 0..Len(o.ci)
    <3>1. a.n <= Len(o.ci)
      BY <1>1, <1>2, <1>3, <1>4, OwnFacts, TopCovered DEF OK, Acts, Own, TopOf, IsResume
    <3>. QED
      BY <1>4, <1>6, <3>1
  <2>1. /\ l \in LuaState /\ Len(l.ci) = Len(o.ci) - 1
        /\ l.nCcalls = o.nCcalls /\ l.status = o.status /\ l.baseCcalls = o.baseCcalls
        /\ l.errorJmp = o.errorJmp /\ l.allowhook = o.allowhook
    BY <2>0, FewerFacts DEF LuaState
  <2>2. a.n - 1 \in Nat \ {0}
    BY <1>4, <1>8
  <2>3. /\ b \in Activation /\ b.k = "exec" /\ b.t = a.t /\ ~IsTry(b)
        /\ FramesOf(b) = a.n - 1 /\ CCallsOf(b) = 0
    BY <1>5, <2>2
  <2>4. r = Sets(s, l, [s.cs EXCEPT ![Len(s.cs)] = b], s.mode)
    <3>1. l = [Own(s) EXCEPT !.ci = SubSeq(@, 1, Len(@) - 1)]
      BY <1>2
    <3>2. b = [TopOf(s) EXCEPT !.n = @ - 1]
      BY <1>3
    <3>. QED
      BY <1>8, <3>1, <3>2
  <2>. HIDE DEF l, b
  <2>5. /\ Len(l.ci) + FramesOf(a) = Len(o.ci) + FramesOf(b)
        /\ l.nCcalls + CCallsOf(a) = o.nCcalls + CCallsOf(b)
    BY <1>4, <1>6, <2>1, <2>3
  <2>. QED
    BY <1>1, <1>2, <1>3, <1>4, <2>1, <2>3, <2>4, <2>5, OwnFacts, ReplaceKeeps
<1>. QED
  BY <1>3, <1>7, <1>8 DEF ReenterMove

LEMMA LevelMoveKeeps ==
    ASSUME NEW s, OK(s), NEW r, LevelMove(s, r)
    PROVE  OK(r)
<1>1. PICK d \in {1, -1}, N \in Mode :
         /\ Acts(s) /\ TopOf(s).k = "parse" /\ TopOf(s).level + d >= 0
         /\ r = Sets(s, [Own(s) EXCEPT !.nCcalls = @ + d],
                     [s.cs EXCEPT ![Len(s.cs)] = [TopOf(s) EXCEPT !.level = @ + d]], N)
  BY DEF LevelMove, Mode
<1>2. PICK o \in LuaState : o = Own(s)
  BY OwnFacts
<1>3. TopOf(s) \in Activation
  BY <1>1, OwnFacts DEF Acts
<1>4. PICK a \in Parse : a = TopOf(s)
  BY <1>1, <1>3, ActivationFacts
<1>5. a.k = "parse" /\ a.level \in Nat /\ a.t \in Thread /\ FramesOf(a) = 0 /\ CCallsOf(a) = a.level
  BY DEF Parse, FramesOf, CCallsOf, IsResume
<1>6. a.level <= o.nCcalls /\ o.nCcalls \in Nat /\ Len(o.ci) \in Nat
  <2>1. CCallsOf(a) <= o.nCcalls
    BY <1>1, <1>2, <1>4, OwnFacts, TopCovered DEF OK, Acts, Own, TopOf
  <2>. QED
    BY <1>5, <2>1 DEF LuaState
<1>. DEFINE l == [o EXCEPT !.nCcalls = o.nCcalls + d]
            b == [a EXCEPT !.level = a.level + d]
<1>7. a.level + d \in Nat /\ o.nCcalls + d \in Nat
  BY <1>1, <1>4, <1>5, <1>6
<1>8. /\ l \in LuaState /\ l.ci = o.ci /\ l.nCcalls = o.nCcalls + d /\ l.status = o.status
      /\ l.baseCcalls = o.baseCcalls /\ l.errorJmp = o.errorJmp /\ l.allowhook = o.allowhook
  BY <1>7 DEF LuaState
<1>9. b \in Parse /\ b.k = "parse" /\ b.t = a.t /\ b.level = a.level + d
  BY <1>5, <1>7 DEF Parse
<1>10. b \in Activation /\ ~IsTry(b) /\ FramesOf(b) = 0 /\ CCallsOf(b) = a.level + d
  BY <1>9 DEF Activation, IsTry, IsResume, FramesOf, CCallsOf
<1>11. r = Sets(s, l, [s.cs EXCEPT ![Len(s.cs)] = b], N)
  <2>1. l = [Own(s) EXCEPT !.nCcalls = @ + d]
    BY <1>2
  <2>2. b = [TopOf(s) EXCEPT !.level = @ + d]
    BY <1>4
  <2>. QED
    BY <1>1, <2>1, <2>2
<1>. HIDE DEF l, b
<1>12. /\ Len(l.ci) + FramesOf(a) = Len(o.ci) + FramesOf(b)
       /\ l.nCcalls + CCallsOf(a) = o.nCcalls + CCallsOf(b)
  BY <1>5, <1>6, <1>7, <1>8, <1>10
<1>. QED
  BY <1>1, <1>2, <1>4, <1>5, <1>8, <1>9, <1>10, <1>11, <1>12, ReplaceKeeps

LEMMA BeginMoveKeeps ==
    ASSUME NEW s, OK(s), NEW r, BeginMove(s, r)
    PROVE  OK(r)
<1>. DEFINE t == TopThread(s.cs)  n == Len(s.cs)
<1>1. PICK a \in Activation, h \in BOOLEAN :
         /\ Acts(s) /\ a.t = t
         /\ \/ a.k = "hook" /\ Own(s).allowhook /\ h = FALSE
            \/ a.k = "gctm" /\ a.oldah = Own(s).allowhook /\ h = FALSE
            \/ a.k = "errormsg" /\ h = Own(s).allowhook
            \/ a.k = "parse" /\ a.level = 0 /\ IsTry(TopOf(s)) /\ h = Own(s).allowhook
         /\ r = Sets(s, [Own(s) EXCEPT !.allowhook = h], Append(s.cs, a), s.mode)
  BY DEF BeginMove
<1>2. /\ n # 0 /\ TopOf(s) \in Activation /\ t = TopOf(s).t /\ n = Len(s.cs) /\ s.mode \in Mode
  BY <1>1, OwnFacts DEF Acts
<1>3. PICK o \in LuaState : o = Own(s)
  BY OwnFacts
<1>. DEFINE l == [o EXCEPT !.allowhook = h]
<1>4. /\ l \in LuaState /\ l.ci = o.ci /\ l.nCcalls = o.nCcalls /\ l.status = o.status
      /\ l.baseCcalls = o.baseCcalls /\ l.errorJmp = o.errorJmp /\ l.allowhook = h
  BY DEF LuaState
<1>5. /\ ~IsTry(a) /\ a.k # "cfun" /\ a.k # "exec" /\ FramesOf(a) = 0 /\ CCallsOf(a) = 0
  BY <1>1 DEF IsTry, IsResume, FramesOf, CCallsOf
<1>6. h = IF NoHooks(a) THEN FALSE ELSE o.allowhook
  BY <1>1, <1>3 DEF NoHooks
<1>7. /\ a.k = "hook" => o.allowhook
      /\ a.k = "gctm" => o.allowhook = a.oldah
  BY <1>1, <1>3
<1>8. Len(o.ci) + 0 = Len(o.ci) /\ o.nCcalls + 0 = o.nCcalls
  BY DEF LuaState
<1>9. r = Sets(s, l, Append(s.cs, a), s.mode)
  BY <1>1, <1>3
<1>. HIDE DEF l
<1>10. o.status = "ok"
  BY <1>1, <1>3 DEF Acts
<1>11. Good([s.th EXCEPT ![t] = l], Append(s.cs, a), s.mode)
  <2>1. o = s.th[t] /\ a.t = t /\ t = s.cs[n].t
    BY <1>1, <1>2, <1>3 DEF Own, TopOf
  <2>4. IsResume(s.cs[n]) => Len(o.ci) = 0
    <3>1. Good(s.th, s.cs, s.mode) /\ s.th[t].status = "ok"
      BY <1>10, <2>1 DEF OK
    <3>. HIDE DEF t, n
    <3>. QED
      BY <1>2, <2>1, <3>1, TopCovered
  <2>2. /\ Len(l.ci) = (IF IsResume(s.cs[n]) THEN 0 ELSE Len(o.ci)) + FramesOf(a)
        /\ l.nCcalls = o.nCcalls + CCallsOf(a)
        /\ l.status = "ok" /\ l.allowhook = IF NoHooks(a) THEN FALSE ELSE o.allowhook
    BY <1>4, <1>5, <1>6, <1>8, <1>10, <2>1, <2>4
  <2>3. l.baseCcalls = o.baseCcalls /\ l.errorJmp = o.errorJmp
    BY <1>4
  <2>. HIDE DEF t, n
  <2>. QED
    BY ZenonT(60), <1>2, <1>4, <1>5, <1>7, <2>1, <2>2, <2>3, PushKeeps DEF OK
<1>. QED
  BY <1>9, <1>11, SetsFacts

LEMMA LeaveMoveKeeps ==
    ASSUME NEW s, OK(s), NEW r, LeaveMove(s, r)
    PROVE  OK(r)
<1>. DEFINE t == TopThread(s.cs)  n == Len(s.cs)
<1>1. PICK l \in LuaState :
         /\ \/ /\ TopOf(s).k = "cfun" \/ (TopOf(s).k = "exec" /\ TopOf(s).n = 1)
               /\ l = [Own(s) EXCEPT !.ci = SubSeq(@, 1, Len(@) - 1)]
            \/ TopOf(s).k = "call" /\ l = [Own(s) EXCEPT !.nCcalls = @ - 1]
            \/ TopOf(s).k = "parse" /\ TopOf(s).level = 0 /\ l = Own(s)
            \/ TopOf(s).k = "hook" /\ l = [Own(s) EXCEPT !.allowhook = TRUE]
            \/ TopOf(s).k = "gctm" /\ l = [Own(s) EXCEPT !.allowhook = TopOf(s).oldah]
         /\ r = Sets(s, l, SubSeq(s.cs, 1, Len(s.cs) - 1), "run")
  BY DEF LeaveMove
<1>2. /\ n # 0 /\ TopOf(s) \in Activation /\ t = TopOf(s).t /\ n = Len(s.cs)
      /\ Own(s).status = "ok"
  BY OwnFacts DEF LeaveMove, Acts
<1>3. PICK o \in LuaState : o = Own(s)
  BY OwnFacts
<1>4. PICK a \in Activation : a = TopOf(s)
  BY <1>2
<1>5. ~IsTry(a) /\ ~IsResume(a)
  BY <1>1, <1>4 DEF IsTry, IsResume
<1>6. /\ o = s.th[t] /\ a = s.cs[n] /\ t = s.cs[n].t /\ o.status = "ok"
  BY <1>2, <1>3, <1>4 DEF Own, TopOf
<1>7. /\ FramesOf(a) <= Len(o.ci) /\ CCallsOf(a) <= o.nCcalls
      /\ Len(o.ci) \in Nat /\ o.nCcalls \in Nat
  <2>1. FramesOf(a) <= Len(o.ci) /\ CCallsOf(a) <= o.nCcalls
    BY <1>2, <1>5, <1>6, TopCovered DEF OK
  <2>. QED
    BY <2>1 DEF LuaState
<1>8. /\ l.status = o.status /\ l.baseCcalls = o.baseCcalls /\ l.errorJmp = o.errorJmp
      /\ Len(l.ci) + FramesOf(a) = Len(o.ci)
      /\ l.nCcalls + CCallsOf(a) = o.nCcalls
      /\ a.k = "hook" => l.allowhook
      /\ a.k = "gctm" => l.allowhook = a.oldah
      /\ ~NoHooks(a) => l.allowhook = o.allowhook
  <2>1. CASE /\ a.k = "cfun" \/ (a.k = "exec" /\ a.n = 1)
             /\ l = [o EXCEPT !.ci = SubSeq(@, 1, Len(@) - 1)]
    <3>1. FramesOf(a) = 1 /\ CCallsOf(a) = 0 /\ ~NoHooks(a)
      BY <1>5, <2>1 DEF FramesOf, CCallsOf, NoHooks
    <3>2. Len(o.ci) - 1 \in 0..Len(o.ci)
      BY <1>7, <3>1
    <3>3. Len(SubSeq(o.ci, 1, Len(o.ci) - 1)) = Len(o.ci) - 1
      BY <3>2, FewerFacts
    <3>4. /\ l.ci = SubSeq(o.ci, 1, Len(o.ci) - 1) /\ l.nCcalls = o.nCcalls
          /\ l.status = o.status /\ l.baseCcalls = o.baseCcalls /\ l.errorJmp = o.errorJmp
          /\ l.allowhook = o.allowhook
      BY <2>1 DEF LuaState
    <3>. QED
      BY <1>7, <2>1, <3>1, <3>3, <3>4
  <2>2. CASE a.k = "call" /\ l = [o EXCEPT !.nCcalls = @ - 1]
    <3>1. FramesOf(a) = 0 /\ CCallsOf(a) = 1 /\ ~NoHooks(a)
      BY <2>2 DEF FramesOf, CCallsOf, NoHooks
    <3>2. /\ l.ci = o.ci /\ l.nCcalls = o.nCcalls - 1
          /\ l.status = o.status /\ l.baseCcalls = o.baseCcalls /\ l.errorJmp = o.errorJmp
          /\ l.allowhook = o.allowhook
      BY <2>2 DEF LuaState
    <3>. QED
      BY <1>7, <2>2, <3>1, <3>2
  <2>3. CASE a.k = "parse" /\ a.level = 0 /\ l = o
    <3>1. FramesOf(a) = 0 /\ CCallsOf(a) = 0 /\ ~NoHooks(a)
      BY <1>5, <2>3 DEF FramesOf, CCallsOf, NoHooks
    <3>. QED
      BY <1>7, <2>3, <3>1
  <2>4. CASE a.k = "hook" /\ l = [o EXCEPT !.allowhook = TRUE]
    <3>1. FramesOf(a) = 0 /\ CCallsOf(a) = 0 /\ NoHooks(a)
      BY <1>5, <2>4 DEF FramesOf, CCallsOf, NoHooks
    <3>2. /\ l.ci = o.ci /\ l.nCcalls = o.nCcalls
          /\ l.status = o.status /\ l.baseCcalls = o.baseCcalls /\ l.errorJmp = o.errorJmp
          /\ l.allowhook = TRUE
      BY <2>4 DEF LuaState
    <3>. QED
      BY <1>7, <2>4, <3>1, <3>2
  <2>5. CASE a.k = "gctm" /\ l = [o EXCEPT !.allowhook = a.oldah]
    <3>1. FramesOf(a) = 0 /\ CCallsOf(a) = 0 /\ NoHooks(a)
      BY <1>5, <2>5 DEF FramesOf, CCallsOf, NoHooks
    <3>2. /\ l.ci = o.ci /\ l.nCcalls = o.nCcalls
          /\ l.status = o.status /\ l.baseCcalls = o.baseCcalls /\ l.errorJmp = o.errorJmp
          /\ l.allowhook = a.oldah
      BY <2>5 DEF LuaState
    <3>. QED
      BY <1>7, <2>5, <3>1, <3>2
  <2>. QED
    BY <1>1, <1>3, <1>4, <2>1, <2>2, <2>3, <2>4, <2>5
<1>9. Good([s.th EXCEPT ![t] = l], SubSeq(s.cs, 1, n - 1), "run")
  BY <1>2, <1>5, <1>6, <1>8, PopKeeps DEF OK
<1>. QED
  BY <1>1, <1>9, SetsFacts

LEMMA TryFacts ==
    ASSUME NEW kind \in {"pcall", "resume", "close"}, NEW t \in Thread, NEW o \in LuaState
    PROVE  LET a == TryOf(kind, t, o)
           IN /\ a \in Try /\ a.kind = kind /\ a.t = t /\ a.previous = o.errorJmp
              /\ a.old_ci = Len(o.ci) /\ a.oldnCcalls = o.nCcalls
              /\ a.old_allowhooks = o.allowhook /\ a.old_errfunc = o.errfunc
BY DEF TryOf, Try, LuaState

LEMMA PcallMoveKeeps ==
    ASSUME NEW s, OK(s), NEW r, PcallMove(s, r)
    PROVE  OK(r)
<1>1. PICK o \in LuaState : o = Own(s)
  BY OwnFacts
<1>2. PICK t \in Thread : t = TopThread(s.cs)
  BY OwnFacts
<1>3. PICK n \in Nat : n = Len(s.cs)
  BY OwnFacts
<1>4. o = s.th[t] /\ o.status = "ok" /\ s.mode \in Mode /\ (s.cs = <<>> \/ s.cs[n].k = "cfun")
      /\ (s.cs = <<>> => n = 0) /\ (s.cs # <<>> => n # 0)
  BY <1>1, <1>2, <1>3, OwnFacts DEF PcallMove, Own, TopOf
<1>5. PICK h \in Nat : h = HandlerFor(s)
  <2>1. Len(Own(s).ci) \in Nat /\ Own(s).errfunc \in Nat
    BY OwnFacts DEF LuaState
  <2>. QED
    BY <2>1 DEF HandlerFor
<1>6. PICK a \in Try : a = TryOf("pcall", t, o)
  BY TryFacts
<1>. DEFINE l == [o EXCEPT !.errorJmp = n + 1, !.errfunc = h]
<1>7. /\ l \in LuaState /\ l.ci = o.ci /\ l.nCcalls = o.nCcalls /\ l.status = o.status
      /\ l.baseCcalls = o.baseCcalls /\ l.errorJmp = n + 1 /\ l.allowhook = o.allowhook
  <2>1. n + 1 \in Nat
    OBVIOUS
  <2>. QED
    BY <2>1 DEF LuaState
<1>8. r = Sets(s, l, Append(s.cs, a), s.mode)
  BY <1>1, <1>2, <1>3, <1>5, <1>6 DEF PcallMove
<1>. HIDE DEF l
<1>9. /\ a.kind = "pcall" /\ a.t = t /\ a.previous = o.errorJmp /\ a.old_ci = Len(o.ci)
      /\ a.oldnCcalls = o.nCcalls /\ a.old_allowhooks = o.allowhook
  BY <1>6, TryFacts
<1>10. Good([s.th EXCEPT ![t] = l], Append(s.cs, a), s.mode)
  <2>1. n = 0 \/ s.cs[n].k = "cfun"
    BY <1>4
  <2>2. l.status = "ok" /\ Len(l.ci) = Len(o.ci)
    BY <1>4, <1>7
  <2>. QED
    BY <1>2, <1>3, <1>4, <1>7, <1>9, <2>1, <2>2, TryKeeps DEF OK
<1>. QED
  BY <1>2, <1>8, <1>10, SetsFacts

LEMMA EndPcallMoveKeeps ==
    ASSUME NEW s, OK(s), NEW r, EndPcallMove(s, r)
    PROVE  OK(r)
<1>1. PICK o \in LuaState : o = Own(s)
  BY OwnFacts
<1>2. PICK t \in Thread : t = TopThread(s.cs)
  BY OwnFacts
<1>3. PICK n \in Nat \ {0} : n = Len(s.cs)
  BY OwnFacts DEF EndPcallMove
<1>4. PICK e \in Nat : e = o.errorJmp
  BY DEF LuaState
<1>5. PICK z \in Nat :
         r = Sets(s, [Own(s) EXCEPT !.ci = SubSeq(@, 1, s.cs[e].old_ci),
                                    !.nCcalls = s.cs[e].oldnCcalls,
                                    !.allowhook = s.cs[e].old_allowhooks,
                                    !.errfunc = s.cs[e].old_errfunc,
                                    !.errorJmp = s.cs[e].previous, !.size_ci = z],
                  SubSeq(s.cs, 1, e - 1), "run")
  BY Zenon, <1>1, <1>4 DEF EndPcallMove
<1>6. o = s.th[t] /\ t = s.cs[n].t /\ s.cs[e].kind = "pcall"
  BY Zenon, <1>1, <1>2, <1>3, <1>4, OwnFacts DEF EndPcallMove, Own, TopOf
<1>7. PcallFacts(s.th, s.cs, n, t, e)
  BY <1>3, <1>4, <1>6, EndOfPcall DEF OK
<1>8. o.status = "ok" /\ s.cs[e] \in Try /\ s.cs[e].old_ci <= Len(o.ci)
  BY <1>6, <1>7 DEF PcallFacts
<1>9. PICK a \in Try : a = s.cs[e]
  BY <1>8
<1>. DEFINE l == [o EXCEPT !.ci = SubSeq(o.ci, 1, a.old_ci),
                           !.nCcalls = a.oldnCcalls,
                           !.allowhook = a.old_allowhooks,
                           !.errfunc = a.old_errfunc,
                           !.errorJmp = a.previous, !.size_ci = z]
<1>10. /\ l \in LuaState /\ Len(l.ci) = a.old_ci /\ l.nCcalls = a.oldnCcalls
       /\ l.allowhook = a.old_allowhooks /\ l.errorJmp = a.previous /\ l.status = "ok"
       /\ l.baseCcalls = o.baseCcalls
  <2>1. /\ a.old_ci \in 0..Len(o.ci) /\ a.oldnCcalls \in Nat /\ a.old_allowhooks \in BOOLEAN
        /\ a.old_errfunc \in Nat /\ a.previous \in Nat
    <3>1. /\ a.old_ci \in Nat /\ a.oldnCcalls \in Nat /\ a.old_allowhooks \in BOOLEAN
          /\ a.old_errfunc \in Nat /\ a.previous \in Nat
      BY DEF Try
    <3>2. Len(o.ci) \in Nat /\ a.old_ci <= Len(o.ci)
      BY <1>8, <1>9, CountsFacts
    <3>. QED
      BY <3>1, <3>2
  <2>2. SubSeq(o.ci, 1, a.old_ci) \in Seq(Frame) /\ Len(SubSeq(o.ci, 1, a.old_ci)) = a.old_ci
    BY <2>1, CutFacts DEF LuaState
  <2>. QED
    BY <1>8, <2>1, <2>2 DEF LuaState
<1>11. r = Sets(s, l, SubSeq(s.cs, 1, e - 1), "run")
  BY <1>1, <1>5, <1>9
<1>. HIDE DEF l
<1>12. Good([s.th EXCEPT ![t] = l], SubSeq(s.cs, 1, e - 1), "run")
  BY <1>3, <1>4, <1>6, <1>9, <1>10, CutPcall DEF OK
<1>. QED
  BY <1>2, <1>11, <1>12, SetsFacts

LEMMA ResumeMoveKeeps ==
    ASSUME NEW s, OK(s), NEW r, ResumeMove(s, r)
    PROVE  OK(r)
<1>1. PICK c \in Thread \ {MainThread} :
       LET m == Own(s).nCcalls
           l == [s.th[c] EXCEPT !.nCcalls = m + 1, !.baseCcalls = m + 1,
                              !.fn = @ /\ s.th[c].status = "yield"]
       IN /\ Acts(s) /\ TopOf(s).k = "cfun" /\ TopOf(s).f \in {"resume", "wrap"}
          /\ s.mode = "run"
          /\ c # TopThread(s.cs) /\ s.th[c].errorJmp = 0 /\ m < MaxCCalls
          /\ s.th[c].status = "yield" \/ (s.th[c].status = "ok" /\ s.th[c].ci = <<>>)
          /\ r = [th |-> [s.th EXCEPT ![c] = [l EXCEPT !.errorJmp = Len(s.cs) + 1]],
                  cs |-> Append(s.cs, TryOf("resume", c, l)), mode |-> "run"]
  BY Zenon DEF ResumeMove
<1>2. PICK o \in LuaState : o = s.th[c]
  BY OwnFacts
<1>3. PICK m \in Nat : m = Own(s).nCcalls
  BY OwnFacts DEF LuaState
<1>4. PICK n \in Nat \ {0} : n = Len(s.cs)
  BY <1>1, OwnFacts DEF Acts
<1>5. PICK u \in Thread : u = TopThread(s.cs)
  BY OwnFacts
<1>6. u = s.cs[n].t /\ s.cs[n].k = "cfun" /\ c # u /\ s.th[u].nCcalls = m
  BY <1>1, <1>3, <1>4, <1>5, OwnFacts DEF Own, TopOf, Acts
<1>. DEFINE k == [o EXCEPT !.nCcalls = m + 1, !.baseCcalls = m + 1, !.fn = @ /\ o.status = "yield"]
            l == [k EXCEPT !.errorJmp = n + 1]
<1>20. m + 1 \in Nat /\ n + 1 \in Nat /\ o.errorJmp = 0
  BY <1>1, <1>2
<1>7. k \in LuaState /\ k.errorJmp = 0
  BY <1>20 DEF LuaState
<1>8. /\ l \in LuaState /\ l.status = o.status /\ l.ci = o.ci /\ l.nCcalls = m + 1
      /\ l.baseCcalls = m + 1 /\ l.errorJmp = n + 1
  BY <1>20 DEF LuaState
<1>. HIDE DEF k
<1>9. PICK a \in Try : /\ a = TryOf("resume", c, k)
                      /\ a.kind = "resume" /\ a.t = c /\ a.previous = k.errorJmp
  BY <1>7, TryFacts
<1>11. r = [th |-> [s.th EXCEPT ![c] = l], cs |-> Append(s.cs, a), mode |-> "run"]
  BY <1>1, <1>2, <1>3, <1>4, <1>9 DEF k
<1>. HIDE DEF l
<1>12. /\ c \in Thread /\ c # MainThread /\ s.th[c].errorJmp = 0 /\ a.previous = 0
       /\ s.th[c].status = "yield" \/ (s.th[c].status = "ok" /\ s.th[c].ci = <<>>)
       /\ l.errorJmp = n + 1 /\ n # 0
       /\ l.nCcalls = s.th[u].nCcalls + 1 /\ l.baseCcalls = l.nCcalls
       /\ l.status = s.th[c].status /\ l.ci = s.th[c].ci
  BY <1>1, <1>2, <1>6, <1>7, <1>8, <1>9
<1>13. Good([s.th EXCEPT ![c] = l], Append(s.cs, a), "run")
  <2>1. /\ Good(s.th, s.cs, s.mode) /\ n = Len(s.cs) /\ n # 0 /\ u = s.cs[n].t
        /\ s.cs[n].k = "cfun" /\ c # u /\ l \in LuaState
    BY <1>4, <1>6, <1>8 DEF OK
  <2>2. a.kind = "resume" /\ a.t = c
    BY <1>9
  <2>. QED
    BY <1>12, <2>1, <2>2, ResumeKeeps
<1>. QED
  BY <1>11, <1>13 DEF OK, State, Good

LEMMA ContinueMoveKeeps ==
    ASSUME NEW s, OK(s), NEW r, ContinueMove(s, r)
    PROVE  OK(r)
<1>1. PICK o \in LuaState : o = Own(s)
  BY OwnFacts
<1>2. PICK t \in Thread : t = TopThread(s.cs)
  BY OwnFacts
<1>3. PICK n \in Nat \ {0} : n = Len(s.cs)
  BY OwnFacts DEF ContinueMove
<1>4. /\ o = s.th[t] /\ t = s.cs[n].t /\ IsResume(s.cs[n]) /\ o.status = "yield"
      /\ "run" \in Mode /\ Good(s.th, s.cs, s.mode)
  BY <1>1, <1>2, <1>3, OwnFacts DEF ContinueMove, Own, TopOf, Mode, OK
<1>5. PICK k \in Nat \ {0} : k = Len(o.ci) - 1 /\ k \in 0..Len(o.ci)
  <2>1. Len(o.ci) >= 2
    BY <1>4, YieldedFrames
  <2>2. PICK q \in Nat : q = Len(o.ci)
    <3>1. o.ci \in Seq(Frame)
      BY DEF LuaState
    <3>. QED
      BY <3>1
  <2>3. q >= 2
    BY <2>1, <2>2
  <2>4. q - 1 \in Nat \ {0} /\ q - 1 \in 0..q
    BY <2>3
  <2>. QED
    BY <2>2, <2>4
<1>. DEFINE l == [o EXCEPT !.ci = SubSeq(o.ci, 1, k), !.status = "ok"]
            a == [k |-> "exec", t |-> t, n |-> k]
<1>6. /\ l \in LuaState /\ Len(l.ci) = k /\ l.nCcalls = o.nCcalls /\ l.status = "ok"
      /\ l.baseCcalls = o.baseCcalls /\ l.errorJmp = o.errorJmp /\ l.allowhook = o.allowhook
  <2>1. o.ci \in Seq(Frame) /\ k \in 0..Len(o.ci)
    BY <1>5 DEF LuaState
  <2>2. SubSeq(o.ci, 1, k) \in Seq(Frame) /\ Len(SubSeq(o.ci, 1, k)) = k
    BY <2>1, CutFacts
  <2>. QED
    BY <2>2 DEF LuaState, Status
<1>7. /\ a \in Activation /\ a.k = "exec" /\ a.t = t /\ ~IsTry(a) /\ ~NoHooks(a)
      /\ FramesOf(a) = k /\ CCallsOf(a) = 0
  BY DEF Activation, Exec, IsTry, NoHooks, FramesOf, CCallsOf, IsResume
<1>8. r = Sets(s, l, Append(s.cs, a), "run")
  <2>1. l = [Own(s) EXCEPT !.ci = SubSeq(@, 1, Len(@) - 1), !.status = "ok"]
    BY <1>1, <1>5
  <2>. QED
    BY <1>1, <1>2, <1>5, <2>1 DEF ContinueMove
<1>. HIDE DEF l, a
<1>9. /\ Len(l.ci) = (IF IsResume(s.cs[n]) THEN 0 ELSE Len(s.th[t].ci)) + FramesOf(a)
      /\ l.nCcalls = s.th[t].nCcalls + CCallsOf(a)
  <2>1. o.nCcalls \in Nat
    BY DEF LuaState
  <2>. QED
    BY <1>4, <1>5, <1>6, <1>7, <2>1
<1>10. Good([s.th EXCEPT ![t] = l], Append(s.cs, a), "run")
  BY <1>3, <1>4, <1>6, <1>7, <1>9, PushKeeps
<1>. QED
  BY <1>2, <1>8, <1>10, SetsFacts

LEMMA YieldMoveKeeps ==
    ASSUME NEW s, OK(s), NEW r, YieldMove(s, r)
    PROVE  OK(r)
<1>1. PICK o \in LuaState : o = Own(s)
  BY OwnFacts
<1>2. PICK t \in Thread : t = TopThread(s.cs)
  BY OwnFacts
<1>3. PICK n \in Nat \ {0} : n = Len(s.cs)
  BY OwnFacts DEF YieldMove, Acts
<1>4. /\ o = s.th[t] /\ t = s.cs[n].t /\ s.cs[n].k = "cfun" /\ o.nCcalls <= o.baseCcalls
      /\ Good(s.th, s.cs, s.mode)
  BY <1>1, <1>2, <1>3, OwnFacts DEF YieldMove, Own, TopOf, OK, Acts
<1>. DEFINE l == [o EXCEPT !.status = "yield"]
<1>5. /\ l \in LuaState /\ l.ci = o.ci /\ l.nCcalls = o.nCcalls /\ l.status = "yield"
      /\ l.baseCcalls = o.baseCcalls /\ l.errorJmp = o.errorJmp /\ l.allowhook = o.allowhook
  BY DEF LuaState, Status
<1>6. r = Sets(s, l, SubSeq(s.cs, 1, n - 2), "run")
  BY <1>1, <1>3 DEF YieldMove
<1>. HIDE DEF l
<1>7. Good([s.th EXCEPT ![t] = l], SubSeq(s.cs, 1, n - 2), "run")
  BY <1>3, <1>4, <1>5, YieldKeeps
<1>. QED
  BY <1>2, <1>6, <1>7, SetsFacts

LEMMA EndResumeMoveKeeps ==
    ASSUME NEW s, OK(s), NEW r, EndResumeMove(s, r)
    PROVE  OK(r)
<1>1. PICK o \in LuaState : o = Own(s)
  BY OwnFacts
<1>2. PICK t \in Thread : t = TopThread(s.cs)
  BY OwnFacts
<1>3. PICK n \in Nat \ {0} : n = Len(s.cs)
  BY OwnFacts DEF EndResumeMove
<1>4. PICK e \in Nat : e = o.errorJmp
  BY DEF LuaState
<1>5. PICK code \in Status :
         /\ code \in {"throw", "errerr"} \/ (e = Len(s.cs) /\ code = Own(s).status)
         /\ r = Sets(s, [Own(s) EXCEPT !.status = code, !.nCcalls = @ - 1, !.errorJmp = 0],
                     SubSeq(s.cs, 1, e - 1), "run")
  BY Zenon, <1>1, <1>4 DEF EndResumeMove
<1>6. /\ o = s.th[t] /\ t = s.cs[n].t /\ IsResume(s.cs[e]) /\ "run" \in Mode
      /\ Good(s.th, s.cs, s.mode)
  BY <1>1, <1>2, <1>3, <1>4, OwnFacts DEF EndResumeMove, Own, TopOf, OK, Mode
<1>7. PICK m \in Nat : m = o.nCcalls - 1
  <2>1. o.nCcalls >= 1 /\ o.nCcalls \in Nat
    BY Zenon, <1>3, <1>4, <1>6, ResumedCounts DEF LuaState
  <2>. QED
    BY <2>1
<1>. DEFINE l == [o EXCEPT !.status = code, !.nCcalls = m, !.errorJmp = 0]
<1>8. l \in LuaState /\ l.errorJmp = 0 /\ l.status = code /\ l.ci = o.ci
  BY DEF LuaState
<1>9. l.status = "yield" => Len(l.ci) >= 2
  <2>1. ASSUME code = "yield" PROVE Len(o.ci) >= 2
    <3>1. s.th[t].status = "yield"
      BY <1>1, <1>5, <1>6, <2>1
    <3>2. Len(s.th[t].ci) >= 2
      BY Zenon, <1>6, <3>1, YieldedFrames
    <3>. QED
      BY <1>6, <3>2
  <2>. QED
    BY <1>8, <2>1
<1>10. r = Sets(s, l, SubSeq(s.cs, 1, e - 1), "run")
  BY <1>1, <1>5, <1>7
<1>. HIDE DEF l
<1>11. Good([s.th EXCEPT ![t] = l], SubSeq(s.cs, 1, e - 1), "run")
  BY Zenon, <1>3, <1>4, <1>6, <1>8, <1>9, CutResume
<1>. QED
  BY <1>2, <1>10, <1>11, SetsFacts

LEMMA OtherMoveKeeps ==
    ASSUME NEW s, OK(s), NEW r, OtherMove(s, r)
    PROVE  OK(r)
<1>1. PICK c \in Thread \ {MainThread}, l \in LuaState :
        /\ s.th[c].errorJmp = 0
        /\ \/ l = NewThread(TRUE)
           \/ l = [s.th[c] EXCEPT !.nCcalls = Own(s).nCcalls,
                                  !.fn = @ /\ s.th[c].status = "yield"]
        /\ r = [s EXCEPT !.th = [s.th EXCEPT ![c] = l]]
  BY Zenon DEF OtherMove
<1>2. PICK o \in LuaState : o = s.th[c]
  BY OwnFacts
<1>3. l.errorJmp = 0 /\ (l.status = "yield" => Len(l.ci) >= 2)
  <2>1. CASE l = NewThread(TRUE)
    BY <2>1 DEF NewThread
  <2>2. CASE l = [s.th[c] EXCEPT !.nCcalls = Own(s).nCcalls,
                                 !.fn = @ /\ s.th[c].status = "yield"]
    <3>1. l.errorJmp = 0 /\ l.status = o.status /\ l.ci = o.ci
      BY <1>1, <1>2, <2>2 DEF LuaState
    <3>. QED
      BY <1>2, <3>1, YieldedFrames DEF OK
  <2>. QED
    BY <1>1, <2>1, <2>2
<1>4. Good([s.th EXCEPT ![c] = l], s.cs, s.mode)
  BY <1>1, <1>3, OtherKeeps DEF OK
<1>. QED
  BY <1>1, <1>4 DEF OK, State, Good

LEMMA CloseMoveKeeps ==
    ASSUME NEW s, OK(s), NEW r, CloseMove(s, r)
    PROVE  OK(r)
<1>1. PICK l \in LuaState :
       /\ \A j \in 1..Len(s.cs) : s.cs[j].t = MainThread
       /\ \E f \in Nat : l = [Own(s) EXCEPT !.ci = <<>>, !.nCcalls = 0, !.baseCcalls = 0,
                                            !.errfunc = f, !.errorJmp = 0]
       /\ r = Sets(s, [l EXCEPT !.errorJmp = 1], <<TryOf("close", MainThread, l)>>, "run")
  BY Zenon DEF CloseMove
<1>2. PICK o \in LuaState : o = Own(s)
  BY OwnFacts
<1>3. MainThread \in Thread /\ "run" \in Mode /\ TopThread(s.cs) = MainThread /\ Good(s.th, s.cs, s.mode)
  <2>1. TopThread(s.cs) = MainThread
    <3>1. CASE s.cs = <<>>
      BY <3>1, OwnFacts
    <3>2. CASE s.cs # <<>>
      <4>1. Len(s.cs) \in 1..Len(s.cs)
        BY <3>2, OwnFacts
      <4>. QED
        BY <1>1, <3>2, <4>1, OwnFacts DEF TopOf
    <3>. QED
      BY <3>1, <3>2
  <2>. QED
    BY <2>1, CallsAssumption DEF OK, Mode
<1>4. l.ci = <<>> /\ l.nCcalls = 0 /\ l.baseCcalls = 0 /\ l.errorJmp = 0 /\ l.status = o.status
  BY <1>1, <1>2 DEF LuaState
<1>5. o.status = "ok"
  BY <1>2, <1>3 DEF Good, Shape, Alive, Own
<1>6. PICK a \in Try : /\ a = TryOf("close", MainThread, l)
                      /\ a.kind = "close" /\ a.t = MainThread /\ a.previous = l.errorJmp
  BY <1>3, TryFacts
<1>. DEFINE k == [l EXCEPT !.errorJmp = 1]
<1>7. /\ k \in LuaState /\ k.status = "ok" /\ k.ci = <<>> /\ k.nCcalls = 0
      /\ k.baseCcalls = 0 /\ k.errorJmp = 1
  BY <1>4, <1>5 DEF LuaState
<1>8. r = Sets(s, k, <<a>>, "run")
  BY <1>1, <1>6
<1>. HIDE DEF k
<1>9. Good([s.th EXCEPT ![MainThread] = k], <<a>>, "run")
  BY <1>1, <1>3, <1>4, <1>6, <1>7, CloseKeeps
<1>. QED
  BY <1>3, <1>8, <1>9, SetsFacts

LEMMA ClosedMoveKeeps ==
    ASSUME NEW s, OK(s), NEW r, ClosedMove(s, r)
    PROVE  OK(r)
<1>1. PICK o \in LuaState : o = Own(s)
  BY OwnFacts
<1>2. PICK t \in Thread : t = TopThread(s.cs)
  BY OwnFacts
<1>3. PICK n \in Nat \ {0} : n = Len(s.cs)
  BY OwnFacts DEF ClosedMove, Acts
<1>4. /\ o = s.th[t] /\ t = s.cs[n].t /\ IsTry(s.cs[n]) /\ s.cs[n].kind = "close"
      /\ o.status = "ok" /\ Good(s.th, s.cs, s.mode)
  BY <1>1, <1>2, <1>3, OwnFacts DEF ClosedMove, Own, TopOf, OK, Acts
<1>. DEFINE l == [o EXCEPT !.errorJmp = 0]
<1>5. /\ l \in LuaState /\ l.ci = o.ci /\ l.nCcalls = o.nCcalls /\ l.status = "ok"
      /\ l.baseCcalls = o.baseCcalls /\ l.errorJmp = 0 /\ l.allowhook = o.allowhook
  BY <1>4 DEF LuaState
<1>6. r = Sets(s, l, SubSeq(s.cs, 1, n - 1), "run")
  BY <1>1, <1>3 DEF ClosedMove
<1>. HIDE DEF l
<1>7. Good([s.th EXCEPT ![t] = l], SubSeq(s.cs, 1, n - 1), "run")
  BY <1>3, <1>4, <1>5, CutClose
<1>. QED
  BY <1>2, <1>6, <1>7, SetsFacts

LEMMA MoveKeeps ==
    ASSUME NEW s, OK(s), NEW r, Move(s, r)
    PROVE  OK(r)
BY ModeMoveKeeps, SizeMoveKeeps, CallMoveKeeps, EnterMoveKeeps, ReenterMoveKeeps,
   ThroughMoveKeeps, LevelMoveKeeps, BeginMoveKeeps, LeaveMoveKeeps, PcallMoveKeeps,
   ResumeMoveKeeps, ContinueMoveKeeps, YieldMoveKeeps,
   EndResumeMoveKeeps, OtherMoveKeeps
   DEF Move

(* No thread has more frames than its CallInfos have room for.             *)
Room(s) == \A x \in Thread : Len(s.th[x].ci) < s.th[x].size_ci

Fine(s) == OK(s) /\ Room(s)

LEMMA RoomSets ==
    ASSUME NEW s, Fine(s), NEW l \in LuaState, NEW D, NEW N,
           Len(l.ci) < l.size_ci, NEW r, r = Sets(s, l, D, N)
    PROVE  Room(r)
BY Zenon, OwnFacts DEF Fine, Room, Sets

LEMMA RoomOwn ==
    ASSUME NEW s, Fine(s)
    PROVE  /\ Own(s) \in LuaState /\ Len(Own(s).ci) < Own(s).size_ci
           /\ Len(Own(s).ci) \in Nat /\ Own(s).size_ci \in Nat
<1>1. Own(s) \in LuaState /\ Len(Own(s).ci) < Own(s).size_ci
  BY OwnFacts DEF Fine, Room, Own
<1>. QED
  BY <1>1 DEF LuaState

LEMMA ShrinkFacts ==
    ASSUME NEW o \in LuaState
    PROVE  /\ SubSeq(o.ci, 1, Len(o.ci) - 1) \in Seq(Frame)
           /\ Len(SubSeq(o.ci, 1, Len(o.ci) - 1)) =
                 IF Len(o.ci) = 0 THEN 0 ELSE Len(o.ci) - 1
<1>1. o.ci \in Seq(Frame)
  BY DEF LuaState
<1>2. PICK q \in Nat : q = Len(o.ci)
  BY <1>1
<1>3. CASE q = 0
  BY <1>1, <1>2, <1>3
<1>4. CASE q # 0
  <2>1. q - 1 \in 0..Len(o.ci)
    BY <1>2, <1>4
  <2>. QED
    BY <1>1, <1>2, <1>4, <2>1, CutFacts
<1>. QED
  BY <1>3, <1>4

LEMMA MoveKeepsRoom ==
    ASSUME NEW s, Fine(s), NEW r, Move(s, r) \/ EndPcallMove(s, r)
    PROVE  Fine(r)
<1>. USE DEF Fine
<1>0. OK(r) /\ Room(s) /\ OK(s)
  BY MoveKeeps, EndPcallMoveKeeps
<1>. SUFFICES Room(r)
  BY <1>0
<1>1. PICK o \in LuaState : o = Own(s)
  BY OwnFacts
<1>2. Len(o.ci) < o.size_ci /\ Len(o.ci) \in Nat /\ o.size_ci \in Nat
  BY <1>1, RoomOwn
<1>3. ASSUME NEW l \in LuaState, l.ci = o.ci, l.size_ci = o.size_ci, NEW D, NEW N,
             r = Sets(s, l, D, N)
      PROVE  Room(r)
  BY <1>2, <1>3, RoomSets
<1>4. CASE r = s \/ ModeMove(s, r) \/ ThroughMove(s, r)
  <2>1. r.th = s.th
    BY <1>4, OwnFacts DEF ModeMove, ThroughMove, OK, State
  <2>. QED
    BY Zenon, <1>0, <2>1 DEF Room
<1>5. CASE SizeMove(s, r)
  <2>1. PICK x \in Thread, z \in Nat : Len(s.th[x].ci) < z /\ r = [s EXCEPT !.th[x].size_ci = z]
    BY <1>5 DEF SizeMove
  <2>2. PICK w \in [Thread -> LuaState] : w = s.th
    BY <1>0, OwnFacts
  <2>3. r.th = [w EXCEPT ![x] = [w[x] EXCEPT !.size_ci = z]]
    BY <2>1, <2>2 DEF OK, State
  <2>4. ASSUME NEW y \in Thread PROVE Len(r.th[y].ci) < r.th[y].size_ci
    <3>1. CASE y = x
      <4>1. w[x] \in LuaState
        OBVIOUS
      <4>2. r.th[y].ci = w[x].ci /\ r.th[y].size_ci = z
        BY <2>3, <3>1, <4>1 DEF LuaState
      <4>. QED
        BY <2>1, <2>2, <4>2
    <3>2. CASE y # x
      BY <1>0, <2>2, <2>3, <3>2 DEF Room
    <3>. QED
      BY <3>1, <3>2
  <2>. QED
    BY <2>4 DEF Room
<1>6. CASE CallMove(s, r)
  <2>. DEFINE l == [o EXCEPT !.nCcalls = @ + 1]
  <2>1. l \in LuaState /\ l.ci = o.ci /\ l.size_ci = o.size_ci
    BY DEF LuaState
  <2>. QED
    BY <1>1, <1>3, <1>6, <2>1 DEF CallMove, Mode
<1>7. CASE EnterMove(s, r)
  <2>1. PICK f \in Frame :
          /\ Len(Own(s).ci) + 1 < Own(s).size_ci
          /\ r = Sets(s, [Own(s) EXCEPT !.ci = Append(@, f)],
                      Append(s.cs, Entry(f, TopThread(s.cs))), s.mode)
    BY <1>7 DEF EnterMove
  <2>. DEFINE l == [o EXCEPT !.ci = Append(o.ci, f)]
  <2>2. l \in LuaState /\ Len(l.ci) = Len(o.ci) + 1 /\ l.size_ci = o.size_ci
    BY CallInfoFacts DEF LuaState
  <2>. QED
    BY <1>1, <2>1, <2>2, RoomSets
<1>8. CASE ReenterMove(s, r)
  <2>1. CASE /\ Len(Own(s).ci) + 1 < Own(s).size_ci
             /\ r = Sets(s, [Own(s) EXCEPT !.ci = Append(@, "lua")],
                         [s.cs EXCEPT ![Len(s.cs)] = [TopOf(s) EXCEPT !.n = @ + 1]], s.mode)
    <3>. DEFINE l == [o EXCEPT !.ci = Append(o.ci, "lua")]
    <3>1. l \in LuaState /\ Len(l.ci) = Len(o.ci) + 1 /\ l.size_ci = o.size_ci
      <4>1. "lua" \in Frame
        BY DEF Frame
      <4>. QED
        BY <4>1, CallInfoFacts DEF LuaState
    <3>. QED
      BY <1>1, <2>1, <3>1, RoomSets
  <2>2. CASE /\ TopOf(s).n > 1
             /\ r = Sets(s, [Own(s) EXCEPT !.ci = SubSeq(@, 1, Len(@) - 1)],
                         [s.cs EXCEPT ![Len(s.cs)] = [TopOf(s) EXCEPT !.n = @ - 1]], s.mode)
    <3>. DEFINE l == [o EXCEPT !.ci = SubSeq(o.ci, 1, Len(o.ci) - 1)]
    <3>1. /\ l.size_ci = o.size_ci /\ l \in LuaState
          /\ Len(l.ci) = IF Len(o.ci) = 0 THEN 0 ELSE Len(o.ci) - 1
      BY ShrinkFacts DEF LuaState
    <3>. HIDE DEF l
    <3>2. Len(l.ci) < l.size_ci
      BY <1>2, <3>1
    <3>. QED
      BY <1>1, <2>2, <3>1, <3>2, RoomSets DEF l
  <2>. QED
    BY <1>8, <2>1, <2>2 DEF ReenterMove
<1>9. CASE LevelMove(s, r) \/ BeginMove(s, r)
  <2>1. CASE LevelMove(s, r)
    <3>1. PICK d \in {1, -1}, N \in Mode :
            r = Sets(s, [Own(s) EXCEPT !.nCcalls = @ + d],
                     [s.cs EXCEPT ![Len(s.cs)] = [TopOf(s) EXCEPT !.level = @ + d]], N)
      BY <2>1 DEF LevelMove, Mode
    <3>2. r.th = [s.th EXCEPT ![TopThread(s.cs)] = [o EXCEPT !.nCcalls = @ + d]]
      BY <1>1, <3>1 DEF Sets
    <3>3. [o EXCEPT !.nCcalls = @ + d].ci = o.ci /\ [o EXCEPT !.nCcalls = @ + d].size_ci = o.size_ci
      BY DEF LuaState
    <3>. QED
      BY Zenon, <1>0, <1>2, <3>2, <3>3, OwnFacts DEF Room
  <2>2. CASE BeginMove(s, r)
    <3>1. PICK a \in Activation, h \in BOOLEAN :
            r = Sets(s, [Own(s) EXCEPT !.allowhook = h], Append(s.cs, a), s.mode)
      BY <2>2 DEF BeginMove
    <3>. DEFINE l == [o EXCEPT !.allowhook = h]
    <3>2. l \in LuaState /\ l.ci = o.ci /\ l.size_ci = o.size_ci
      BY DEF LuaState
    <3>. QED
      BY <1>1, <1>3, <3>1, <3>2
  <2>. QED
    BY <1>9, <2>1, <2>2
<1>10. CASE LeaveMove(s, r)
  <2>1. PICK l \in LuaState :
         /\ \/ l = [o EXCEPT !.ci = SubSeq(@, 1, Len(@) - 1)]
            \/ l = [o EXCEPT !.nCcalls = @ - 1]
            \/ l = o
            \/ l = [o EXCEPT !.allowhook = TRUE]
            \/ l = [o EXCEPT !.allowhook = TopOf(s).oldah]
         /\ r = Sets(s, l, SubSeq(s.cs, 1, Len(s.cs) - 1), "run")
    BY <1>1, <1>10 DEF LeaveMove
  <2>2. Len(l.ci) < l.size_ci
    <3>1. CASE l = [o EXCEPT !.ci = SubSeq(@, 1, Len(@) - 1)]
      <4>1. /\ l.size_ci = o.size_ci
            /\ Len(l.ci) = IF Len(o.ci) = 0 THEN 0 ELSE Len(o.ci) - 1
        BY <3>1 DEF LuaState
      <4>. QED
        BY <1>2, <4>1
    <3>2. CASE l # [o EXCEPT !.ci = SubSeq(@, 1, Len(@) - 1)]
      <4>1. l.size_ci = o.size_ci /\ l.ci = o.ci
        BY <2>1, <3>2 DEF LuaState
      <4>. QED
        BY <1>2, <4>1
    <3>. QED
      BY <3>1, <3>2
  <2>. QED
    BY <2>1, <2>2, RoomSets
<1>11. CASE PcallMove(s, r)
  <2>. DEFINE l == [o EXCEPT !.errorJmp = Len(s.cs) + 1, !.errfunc = HandlerFor(s)]
  <2>1. r.th = [s.th EXCEPT ![TopThread(s.cs)] = l]
    BY <1>1, <1>11 DEF PcallMove, Sets
  <2>2. l.ci = o.ci /\ l.size_ci = o.size_ci
    BY DEF LuaState
  <2>. HIDE DEF l
  <2>. QED
    BY Zenon, <1>0, <1>2, <2>1, <2>2, OwnFacts DEF Room
<1>12. CASE EndPcallMove(s, r)
  <2>1. PICK n \in Nat \ {0} : n = Len(s.cs)
    BY Zenon, <1>0, <1>12, OwnFacts DEF EndPcallMove
  <2>2. PICK t \in Thread : t = TopThread(s.cs) /\ t = s.cs[n].t /\ o = s.th[t]
    BY Zenon, <1>0, <1>1, <1>12, <2>1, OwnFacts DEF EndPcallMove, Own, TopOf
  <2>3. PICK e \in Nat : e = o.errorJmp
    BY DEF LuaState
  <2>4. s.cs[e].kind = "pcall"
    BY Zenon, <1>1, <1>12, <2>3 DEF EndPcallMove
  <2>5. PcallFacts(s.th, s.cs, n, t, e)
    BY <1>0, <2>1, <2>2, <2>3, <2>4, EndOfPcall DEF OK
  <2>6. PICK k \in 0..Len(o.ci) : k = s.cs[e].old_ci
    <3>1. s.cs[e] \in Try /\ s.cs[e].old_ci <= Len(o.ci)
      BY <2>2, <2>5 DEF PcallFacts
    <3>2. s.cs[e].old_ci \in Nat /\ Len(o.ci) \in Nat
      BY <3>1, CountsFacts DEF Try
    <3>. QED
      BY <3>1, <3>2
  <2>7. PICK z \in Nat : /\ k < z
                         /\ r = Sets(s, [Own(s) EXCEPT !.ci = SubSeq(@, 1, k),
                                                !.nCcalls = s.cs[e].oldnCcalls,
                                                !.allowhook = s.cs[e].old_allowhooks,
                                                !.errfunc = s.cs[e].old_errfunc,
                                                !.errorJmp = s.cs[e].previous, !.size_ci = z],
                                     SubSeq(s.cs, 1, e - 1), "run")
    BY Zenon, <1>1, <1>12, <2>3, <2>6 DEF EndPcallMove
  <2>. DEFINE l == [o EXCEPT !.ci = SubSeq(@, 1, k),
                             !.nCcalls = s.cs[e].oldnCcalls,
                             !.allowhook = s.cs[e].old_allowhooks,
                             !.errfunc = s.cs[e].old_errfunc,
                             !.errorJmp = s.cs[e].previous, !.size_ci = z]
  <2>8. l.ci = SubSeq(o.ci, 1, k) /\ l.size_ci = z
    BY DEF LuaState
  <2>9. r.th = [s.th EXCEPT ![t] = l]
    BY <1>1, <2>2, <2>7 DEF Sets
  <2>. HIDE DEF l
  <2>10. Len(l.ci) < l.size_ci
    BY <2>7, <2>8, FewerFacts
  <2>. QED
    BY Zenon, <1>0, <2>9, <2>10, OwnFacts DEF Room
<1>13. CASE ResumeMove(s, r)
  <2>1. PICK c \in Thread \ {MainThread} :
         LET n == Own(s).nCcalls
             l == [s.th[c] EXCEPT !.nCcalls = n + 1, !.baseCcalls = n + 1,
                              !.fn = @ /\ s.th[c].status = "yield"]
         IN r = [th |-> [s.th EXCEPT ![c] = [l EXCEPT !.errorJmp = Len(s.cs) + 1]],
                 cs |-> Append(s.cs, TryOf("resume", c, l)), mode |-> "run"]
    BY Zenon, <1>13 DEF ResumeMove
  <2>2. PICK p \in LuaState : p = s.th[c]
    BY <1>0, OwnFacts
  <2>. DEFINE l == [[p EXCEPT !.nCcalls = Own(s).nCcalls + 1, !.baseCcalls = Own(s).nCcalls + 1,
                    !.fn = @ /\ p.status = "yield"]
                    EXCEPT !.errorJmp = Len(s.cs) + 1]
  <2>3. l.ci = p.ci /\ l.size_ci = p.size_ci
    BY DEF LuaState
  <2>4. r.th = [s.th EXCEPT ![c] = l]
    BY <2>1, <2>2
  <2>. HIDE DEF l
  <2>. QED
    BY Zenon, <1>0, <2>2, <2>3, <2>4, OwnFacts DEF Room
<1>15. CASE ContinueMove(s, r)
  <2>. DEFINE l == [o EXCEPT !.ci = SubSeq(@, 1, Len(@) - 1), !.status = "ok"]
  <2>1. /\ l.size_ci = o.size_ci /\ l \in LuaState
        /\ Len(l.ci) = IF Len(o.ci) = 0 THEN 0 ELSE Len(o.ci) - 1
    BY ShrinkFacts DEF LuaState, Status
  <2>2. \E D : r = Sets(s, l, D, "run")
    BY <1>1, <1>15 DEF ContinueMove
  <2>. HIDE DEF l
  <2>3. Len(l.ci) < l.size_ci
    BY <1>2, <2>1
  <2>. QED
    BY <2>1, <2>2, <2>3, RoomSets
<1>16. CASE YieldMove(s, r)
  <2>. DEFINE l == [o EXCEPT !.status = "yield"]
  <2>1. l \in LuaState /\ l.ci = o.ci /\ l.size_ci = o.size_ci
    BY DEF LuaState, Status
  <2>. QED
    BY <1>1, <1>3, <1>16, <2>1 DEF YieldMove
<1>17. CASE EndResumeMove(s, r)
  <2>0. PICK e \in Nat : e = o.errorJmp
    BY DEF LuaState
  <2>1. PICK code \in Status :
          r = Sets(s, [Own(s) EXCEPT !.status = code, !.nCcalls = @ - 1, !.errorJmp = 0],
                   SubSeq(s.cs, 1, e - 1), "run")
    BY Zenon, <1>1, <1>17, <2>0 DEF EndResumeMove
  <2>. DEFINE l == [o EXCEPT !.status = code, !.nCcalls = @ - 1, !.errorJmp = 0]
  <2>2. l.ci = o.ci /\ l.size_ci = o.size_ci
    BY DEF LuaState
  <2>3. r.th = [s.th EXCEPT ![TopThread(s.cs)] = l]
    BY <1>1, <2>1 DEF Sets
  <2>. HIDE DEF l
  <2>. QED
    BY Zenon, <1>0, <1>2, <2>2, <2>3, OwnFacts DEF Room
<1>18. CASE OtherMove(s, r)
  <2>1. PICK c \in Thread \ {MainThread}, l \in LuaState :
        /\ \/ l = NewThread(TRUE)
           \/ l = [s.th[c] EXCEPT !.nCcalls = Own(s).nCcalls,
                                  !.fn = @ /\ s.th[c].status = "yield"]
        /\ r = [s EXCEPT !.th = [s.th EXCEPT ![c] = l]]
    BY Zenon, <1>18 DEF OtherMove
  <2>2. PICK p \in LuaState : p = s.th[c]
    BY <1>0, OwnFacts
  <2>3. Len(l.ci) < l.size_ci
    <3>1. CASE l = NewThread(TRUE)
      BY <3>1, CallsAssumption DEF NewThread
    <3>2. CASE l = [s.th[c] EXCEPT !.nCcalls = Own(s).nCcalls,
                                   !.fn = @ /\ s.th[c].status = "yield"]
      <4>1. l.ci = p.ci /\ l.size_ci = p.size_ci
        BY <2>2, <3>2 DEF LuaState
      <4>. QED
        BY <1>0, <2>2, <4>1 DEF Room
    <3>. QED
      BY <2>1, <3>1, <3>2
  <2>. QED
    BY Zenon, <1>0, <2>1, <2>3, OwnFacts DEF Room, OK, State
<1>. QED
  BY <1>0, <1>4, <1>5, <1>6, <1>7, <1>8, <1>9, <1>10, <1>11, <1>12, <1>13, <1>15, <1>16,
     <1>17, <1>18 DEF Move

LEMMA EndsKeep ==
    ASSUME NEW s, Fine(s), NEW r, EndsPcall(s, r)
    PROVE  Fine(r)
BY MoveKeepsRoom DEF EndsPcall, Move

LEMMA ClosingKeepsRoom ==
    ASSUME NEW s, Fine(s), NEW r, CloseMove(s, r) \/ ClosedMove(s, r)
    PROVE  Fine(r)
<1>1. OK(r) /\ Room(s) /\ OK(s)
  BY CloseMoveKeeps, ClosedMoveKeeps DEF Fine
<1>2. PICK o \in LuaState : o = Own(s)
  BY <1>1, OwnFacts
<1>3. Len(o.ci) < o.size_ci /\ Len(o.ci) \in Nat /\ o.size_ci \in Nat
  BY <1>2, RoomOwn
<1>4. CASE CloseMove(s, r)
  <2>1. PICK l \in LuaState, f \in Nat :
          /\ l = [Own(s) EXCEPT !.ci = <<>>, !.nCcalls = 0, !.baseCcalls = 0,
                                !.errfunc = f, !.errorJmp = 0]
          /\ r = Sets(s, [l EXCEPT !.errorJmp = 1], <<TryOf("close", MainThread, l)>>, "run")
    BY Zenon, <1>4 DEF CloseMove
  <2>2. l.ci = <<>> /\ l.size_ci = o.size_ci
    BY <1>2, <2>1 DEF LuaState
  <2>. DEFINE k == [l EXCEPT !.errorJmp = 1]
  <2>3. k \in LuaState /\ k.ci = <<>> /\ k.size_ci = o.size_ci
    BY <2>2 DEF LuaState
  <2>4. r = Sets(s, k, <<TryOf("close", MainThread, l)>>, "run")
    BY <2>1
  <2>. HIDE DEF k
  <2>5. Len(k.ci) < k.size_ci
    BY <1>3, <2>3
  <2>. QED
    BY <1>1, <2>3, <2>4, <2>5, RoomSets DEF Fine
<1>5. CASE ClosedMove(s, r)
  <2>. DEFINE k == [o EXCEPT !.errorJmp = 0]
  <2>1. k \in LuaState /\ k.ci = o.ci /\ k.size_ci = o.size_ci
    BY DEF LuaState
  <2>2. r = Sets(s, k, SubSeq(s.cs, 1, Len(s.cs) - 1), "run")
    BY <1>2, <1>5 DEF ClosedMove
  <2>. HIDE DEF k
  <2>. QED
    BY <1>1, <1>3, <2>1, <2>2, RoomSets DEF Fine
<1>. QED
  BY <1>4, <1>5

-----------------------------------------------------------------------------
(* Chains of moves: r is in every set of states that the moves do not      *)
(* leave and that has s.                                                   *)

Closed(I) == \A x \in I : \A y : Move(x, y) => y \in I

Moves(s, r) == \A I \in SUBSET State : s \in I /\ Closed(I) => r \in I

LEMMA NoMove == ASSUME NEW s PROVE Moves(s, s)
BY DEF Moves

LEMMA OneMove ==
    ASSUME NEW s, NEW x, NEW r, Moves(s, x), Move(x, r)
    PROVE  Moves(s, r)
BY DEF Moves, Closed

LEMMA MovesOn ==
    ASSUME NEW s, NEW x, NEW r, Moves(s, x), Moves(x, r)
    PROVE  Moves(s, r)
BY DEF Moves

LEMMA MovesKeep ==
    ASSUME NEW s, NEW r, Moves(s, r), Fine(s)
    PROVE  Fine(r)
<1>. DEFINE I == {x \in State : Fine(x)}
<1>1. s \in I
  BY DEF Fine, OK
<1>2. Closed(I)
  <2>1. ASSUME NEW x \in I, NEW y, Move(x, y) PROVE y \in I
    <3>1. Fine(y)
      BY <2>1, MoveKeepsRoom
    <3>. QED
      BY <3>1 DEF Fine, OK
  <2>. QED
    BY <2>1 DEF Closed
<1>3. r \in I
  BY <1>1, <1>2 DEF Moves
<1>. QED
  BY <1>3
=============================================================================
