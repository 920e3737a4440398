------------------------- MODULE LuaCallsSafety_proofs -------------------------
(***************************************************************************)
(* The safety properties of LuaCalls.  StackMeasured says what every       *)
(* activation has kept of the frames, calls and hooks below it; what is    *)
(* added here is what it has kept of the error function and of the hooks   *)
(* that are off, and how far the count of calls may go; and, at the end,   *)
(* what lets a thread count C calls past the limit.                        *)
(***************************************************************************)
EXTENDS LuaCallsProgram_proofs, WellFoundedInduction

Limit == MaxCCalls + ErrorRoom

IsPcall(a) == a.k = "try" /\ a.kind = "pcall"

(* No hook and no finalizer of t runs up to i.                             *)
Quiet(C, t, i) == \A j \in 1..i : C[j].t = t => ~NoHooks(C[j])

(* The error function that the protected call at j has set.                *)
HandlerAt(C, j) ==
    IF j < 2 THEN 0
    ELSE IF C[j - 1].k # "cfun" THEN 0
    ELSE CASE C[j - 1].f \in {"xpcall", "xpcallnil"} -> C[j].old_ci
           [] C[j - 1].f = "load" -> C[j].old_errfunc
           [] OTHER -> 0

(* What an activation has kept; b: before lua_close.                       *)
HooksKept(C, i, b) ==
    C[i].t # MainThread \/ b =>
       /\ C[i].k = "hook" => Quiet(C, C[i].t, i - 1)
       /\ C[i].k = "gctm" => C[i].oldah = Quiet(C, C[i].t, i - 1)
       /\ IsPcall(C[i]) => C[i].old_allowhooks = Quiet(C, C[i].t, i - 1)

HandlerKept(C, i) ==
    /\ IsPcall(C[i]) => /\ C[i].old_errfunc = HandlerAt(C, C[i].previous)
                        /\ C[i].old_errfunc <= C[i].old_ci
                        /\ C[i].oldnCcalls < Limit
                        /\ i > 1 => C[i - 1].k = "cfun" /\ C[i - 1].f \in Protecting
    /\ IsResume(C[i]) => i > 1 /\ C[i - 1].k = "cfun" /\ C[i - 1].f \in {"resume", "wrap"}

Local(C, i, b) ==
    /\ HooksKept(C, i, b) /\ HandlerKept(C, i)
    /\ IsTry(C[i]) /\ C[i].kind = "close" => ~b

(* What a thread has now.                                                  *)
HandlerNow(C, l) == l.status \in {"ok", "yield"} => l.errfunc = HandlerAt(C, l.errorJmp)

HooksNow(C, t, l, b) ==
    l.status \in {"ok", "yield"} /\ (t # MainThread \/ b) => l.allowhook = Quiet(C, t, Len(C))

CallsNow(C, M, t, l) ==
    /\ l.nCcalls <= Limit
    /\ t # TopThread(C) \/ Working(M) => l.nCcalls < Limit

ThreadOK(C, M, t, l, b) ==
    /\ HandlerNow(C, l) /\ l.errfunc <= Len(l.ci)
    /\ HooksNow(C, t, l, b)
    /\ CallsNow(C, M, t, l)

Kept(T, C, M, b) ==
    /\ \A i \in 1..Len(C) : Local(C, i, b)
    /\ \A t \in Thread : ThreadOK(C, M, t, T[t], b)

Held(s, b) == Kept(s.th, s.cs, s.mode, b)

-----------------------------------------------------------------------------
(* Two stacks that differ in activations of t only, and above k.           *)
Agreeing(C, D, k, t) ==
    /\ k \in 0..Len(C) /\ k \in 0..Len(D)
    /\ \A i \in 1..k : D[i] = C[i]
    /\ \A j \in (k + 1)..Len(C) : C[j].t = t
    /\ \A j \in (k + 1)..Len(D) : D[j].t = t

LEMMA HandlerSame ==
    ASSUME NEW C, NEW D, NEW k \in Nat, \A i \in 1..k : D[i] = C[i], NEW j \in 0..k
    PROVE  HandlerAt(D, j) = HandlerAt(C, j)
<1>1. CASE j < 2
  BY <1>1 DEF HandlerAt
<1>2. CASE ~(j < 2)
  <2>1. D[j] = C[j] /\ D[j - 1] = C[j - 1]
    BY <1>2
  <2>. QED
    BY <2>1 DEF HandlerAt
<1>. QED
  BY <1>1, <1>2

LEMMA QuietSame ==
    ASSUME NEW C, NEW D, NEW k \in Nat, \A i \in 1..k : D[i] = C[i], NEW j \in 0..k, NEW t
    PROVE  Quiet(D, t, j) = Quiet(C, t, j)
<1>1. \A i \in 1..j : D[i] = C[i]
  OBVIOUS
<1>. QED
  BY <1>1 DEF Quiet

LEMMA LocalSame ==
    ASSUME NEW C, NEW D, NEW k \in Nat, \A i \in 1..k : D[i] = C[i], NEW j \in 1..k,
           NEW b, Local(C, j, b), IsTry(C[j]) => C[j].previous \in 0..(j - 1)
    PROVE  Local(D, j, b)
<1>1. D[j] = C[j] /\ j - 1 \in 0..k
  OBVIOUS
<1>2. j > 1 => D[j - 1] = C[j - 1]
  OBVIOUS
<1>3. Quiet(D, C[j].t, j - 1) = Quiet(C, C[j].t, j - 1)
  BY <1>1, QuietSame
<1>4. HooksKept(D, j, b)
  BY <1>1, <1>3 DEF Local, HooksKept
<1>5. HandlerKept(D, j)
  <2>1. CASE IsPcall(C[j])
    <3>1. C[j].previous \in 0..k
      BY <2>1 DEF IsPcall, IsTry
    <3>2. HandlerAt(D, C[j].previous) = HandlerAt(C, C[j].previous)
      BY <3>1, HandlerSame
    <3>. QED
      BY <1>1, <1>2, <2>1, <3>2 DEF Local, HandlerKept
  <2>2. CASE ~IsPcall(C[j])
    BY <1>1, <1>2, <2>2 DEF Local, HandlerKept
  <2>. QED
    BY <2>1, <2>2
<1>. QED
  BY <1>1, <1>4, <1>5 DEF Local

(* One thread changes, and its activations above k.                        *)
Changed(C, D, k, t, b) == Agreeing(C, D, k, t) /\ \A i \in (k + 1)..Len(D) : Local(D, i, b)

LEMMA KeptBy ==
    ASSUME NEW T, NEW C, NEW M, Good(T, C, M), NEW b \in BOOLEAN, Kept(T, C, M, b),
           NEW D \in Seq(Activation), NEW k, NEW t \in Thread, Changed(C, D, k, t, b),
           TopThread(C) = t \/ Working(M), NEW l, NEW N, ThreadOK(D, N, t, l, b)
    PROVE  Kept([T EXCEPT ![t] = l], D, N, b)
<1>0. Agreeing(C, D, k, t) /\ \A i \in (k + 1)..Len(D) : Local(D, i, b)
  BY DEF Changed
<1>1. PICK F, G, H : Shape(T, C, M, F, G, H)
  BY DEF Good
<1>2. T \in [Thread -> LuaState] /\ C \in Seq(Activation) /\ Len(C) \in Nat /\ Len(D) \in Nat
  BY DEF Good
<1>3. k \in Nat /\ \A i \in 1..k : D[i] = C[i]
  BY <1>0, <1>2 DEF Agreeing
<1>4. ASSUME NEW i \in 1..Len(D) PROVE Local(D, i, b)
  <2>1. CASE i <= k
    <3>1. i \in 1..k /\ i \in 1..Len(C)
      BY <1>0, <1>2, <1>3, <2>1 DEF Agreeing
    <3>2. Local(C, i, b)
      BY <3>1 DEF Kept
    <3>3. Linked(C, i)
      BY <1>1, <3>1 DEF Shape, Measured, Placed
    <3>4. IsTry(C[i]) => C[i].previous \in 0..(i - 1)
      BY <3>3 DEF Linked, Innermost
    <3>. QED
      BY <1>3, <3>1, <3>2, <3>4, LocalSame
  <2>2. CASE i > k
    BY <1>0, <1>2, <1>3, <2>2
  <2>. QED
    BY <1>3, <2>1, <2>2
<1>5. ASSUME NEW x \in Thread, x # t PROVE ThreadOK(D, N, x, T[x], b)
  <2>1. ThreadOK(C, M, x, T[x], b) /\ T[x] \in LuaState
    BY <1>2 DEF Kept
  <2>2. T[x].errorJmp \in 0..k
    <3>1. Innermost(C, x, T[x].errorJmp, Len(C))
      BY <1>1 DEF Shape, Jumps
    <3>2. ~(T[x].errorJmp \in (k + 1)..Len(C))
      BY <1>0, <1>5, <3>1, <1>3, <1>2 DEF Agreeing, Innermost
    <3>. QED
      BY <1>0, <1>2, <1>3, <3>1, <3>2 DEF Agreeing, Innermost
  <2>3. HandlerNow(D, T[x])
    <3>1. HandlerAt(D, T[x].errorJmp) = HandlerAt(C, T[x].errorJmp)
      BY <1>3, <2>2, HandlerSame
    <3>. QED
      BY <2>1, <3>1 DEF ThreadOK, HandlerNow
  <2>4. HooksNow(D, x, T[x], b)
    <3>1. Quiet(D, x, Len(D)) = Quiet(C, x, Len(C))
      <4>1. Quiet(D, x, k) = Quiet(C, x, k)
        BY <1>3 DEF Quiet
      <4>2. Quiet(C, x, Len(C)) = Quiet(C, x, k)
        BY <1>0, <1>2, <1>3, <1>5 DEF Quiet, Agreeing
      <4>3. Quiet(D, x, Len(D)) = Quiet(D, x, k)
        BY <1>0, <1>2, <1>3, <1>5 DEF Quiet, Agreeing
      <4>. QED
        BY <4>1, <4>2, <4>3
    <3>. QED
      BY <2>1, <3>1 DEF ThreadOK, HooksNow
  <2>5. CallsNow(D, N, x, T[x])
    BY <1>5, <2>1 DEF ThreadOK, CallsNow
  <2>. QED
    BY <2>1, <2>3, <2>4, <2>5 DEF ThreadOK
<1>6. \A x \in Thread : ThreadOK(D, N, x, [T EXCEPT ![t] = l][x], b)
  BY Zenon, <1>2, <1>5
<1>. QED
  BY <1>4, <1>6 DEF Kept

(* The running thread changes, but no handler and no hook of it.           *)
LEMMA OwnKept ==
    ASSUME NEW s, OK(s), NEW b \in BOOLEAN, Held(s, b),
           NEW t, t = TopThread(s.cs), NEW o, o = Own(s), o.status \in {"ok", "yield"},
           NEW D \in Seq(Activation), NEW k, Agreeing(s.cs, D, k, t), TopThread(D) = t,
           \A i \in (k + 1)..Len(s.cs) : ~IsTry(s.cs[i]) /\ ~NoHooks(s.cs[i]),
           \A i \in (k + 1)..Len(D) : ~IsTry(D[i]) /\ ~NoHooks(D[i]),
           NEW l, l.errfunc = o.errfunc, l.errorJmp = o.errorJmp, l.allowhook = o.allowhook,
           l.errfunc <= Len(l.ci), l.nCcalls <= Limit, NEW N,
           Working(N) => l.nCcalls < Limit, NEW r, r = Sets(s, l, D, N)
    PROVE  Held(r, b)
<1>1. PICK T, C, M : T = s.th /\ C = s.cs /\ M = s.mode
  OBVIOUS
<1>2. /\ Good(T, C, M) /\ T \in [Thread -> LuaState] /\ C \in Seq(Activation) /\ t \in Thread
      /\ Len(C) \in Nat /\ Len(D) \in Nat /\ o = T[t]
  BY <1>1, OwnFacts DEF OK, Own
<1>3. k \in Nat /\ k <= Len(C) /\ k <= Len(D) /\ \A i \in 1..k : D[i] = C[i]
  BY <1>1, <1>2 DEF Agreeing
<1>4. PICK F, G, H : Shape(T, C, M, F, G, H)
  BY <1>2 DEF Good
<1>5. \A i \in (k + 1)..Len(D) : Local(D, i, b)
  BY DEF Local, HooksKept, HandlerKept, IsPcall, IsResume, IsTry, NoHooks
<1>6. ThreadOK(C, M, t, o, b)
  BY <1>1, <1>2 DEF Held, Kept
<1>7. HandlerAt(D, o.errorJmp) = HandlerAt(C, o.errorJmp)
  <2>1. Innermost(C, t, o.errorJmp, Len(C))
    BY <1>2, <1>4 DEF Shape, Jumps
  <2>2. o.errorJmp \in 0..k
    BY <1>1, <1>2, <1>3, <2>1 DEF Innermost
  <2>. QED
    BY <1>3, <2>2, HandlerSame
<1>8. HandlerNow(D, l)
  BY <1>6, <1>7 DEF ThreadOK, HandlerNow
<1>9. Quiet(D, t, Len(D)) = Quiet(C, t, Len(C))
  <2>1. Quiet(D, t, k) = Quiet(C, t, k)
    BY <1>3 DEF Quiet
  <2>2. Quiet(C, t, Len(C)) = Quiet(C, t, k)
    BY <1>1, <1>2, <1>3 DEF Quiet
  <2>3. Quiet(D, t, Len(D)) = Quiet(D, t, k)
    BY <1>1, <1>2, <1>3 DEF Quiet
  <2>. QED
    BY <2>1, <2>2, <2>3
<1>10. HooksNow(D, t, l, b)
  BY <1>6, <1>9 DEF ThreadOK, HooksNow
<1>11. ThreadOK(D, N, t, l, b)
  BY <1>8, <1>10 DEF ThreadOK, CallsNow
<1>12. Changed(C, D, k, t, b) /\ TopThread(C) = t /\ Kept(T, C, M, b)
  BY <1>1, <1>5 DEF Held, Changed
<1>. HIDE <1>1 DEF Own
<1>13. Kept([T EXCEPT ![t] = l], D, N, b)
  BY <1>2, <1>11, <1>12, KeptBy
<1>. QED
  BY <1>1, <1>13 DEF Held, Sets

(* The error function is that of a frame below what is on top.             *)
LEMMA ErrBelow ==
    ASSUME NEW s, OK(s), Acts(s), NEW b, Held(s, b),
           NEW o, o = Own(s), NEW a, a = TopOf(s)
    PROVE  /\ o.errfunc <= Len(o.ci) /\ o.errfunc \in Nat /\ Len(o.ci) \in Nat
           /\ ~IsTry(a) => o.errfunc + FramesOf(a) <= Len(o.ci)
           /\ o.nCcalls \in Nat /\ o.nCcalls <= Limit
           /\ Working(s.mode) => o.nCcalls < Limit
<1>1. PICK T, C, M, t : T = s.th /\ C = s.cs /\ M = s.mode /\ t = TopThread(C)
  OBVIOUS
<1>2. PICK n \in Nat \ {0} : n = Len(C)
  BY <1>1, OwnFacts DEF Acts
<1>3. /\ Good(T, C, M) /\ T \in [Thread -> LuaState] /\ C \in Seq(Activation) /\ t \in Thread
      /\ o = T[t] /\ o \in LuaState /\ a = C[n] /\ a \in Activation /\ t = a.t
      /\ o.status = "ok"
  BY <1>1, <1>2, OwnFacts DEF OK, Own, TopOf, Acts
<1>4. PICK F, G, H : Shape(T, C, M, F, G, H)
  BY <1>3 DEF Good
<1>5. ThreadOK(C, M, t, o, b)
  BY <1>1, <1>3 DEF Held, Kept
<1>6. /\ o.errfunc <= Len(o.ci) /\ o.errfunc \in Nat /\ Len(o.ci) \in Nat
      /\ o.nCcalls \in Nat /\ o.nCcalls <= Limit
      /\ Working(s.mode) => o.nCcalls < Limit
  <2>1. o.errfunc \in Nat /\ o.nCcalls \in Nat /\ o.ci \in Seq(Frame)
    BY <1>3 DEF LuaState
  <2>2. Len(o.ci) \in Nat
    BY <2>1
  <2>3. o.errfunc <= Len(o.ci) /\ CallsNow(C, M, t, o)
    BY <1>5 DEF ThreadOK
  <2>. QED
    BY <1>1, <2>1, <2>2, <2>3 DEF CallsNow
<1>7. ASSUME ~IsTry(a) PROVE o.errfunc + FramesOf(a) <= Len(o.ci)
  <2>1. PICK e : e = T[t].errorJmp
    OBVIOUS
  <2>2. TopReady(T, C, M, n, t, e)
    BY <1>2, <1>3, <1>4, <2>1, TopFacts
  <2>3. e \in 1..n /\ IsTry(C[e]) /\ e # n /\ \A j \in (e + 1)..n : ~IsTry(C[j])
    BY <1>3, <1>7, <2>2 DEF TopReady
  <2>4. TopAt(T, C, M, F, G, H, n, t)
    BY <1>1, <1>2, <1>4, TopMeasure
  <2>5. Len(o.ci) = F[n]
    BY <1>3, <2>4 DEF TopAt, Switching
  <2>6. F \in [0..n -> Nat] /\ Placed(C, F, G, H, n) /\ Placed(C, F, G, H, e)
    BY <1>2, <1>4, <2>3 DEF Shape, Measured
  <2>7. F[n] = F[n - 1] + FramesOf(a)
    BY <1>3, <1>7, <2>6 DEF Placed, LevelAt, IsResume, IsTry
  <2>8. F[e] <= F[n - 1] /\ F[e] \in Nat /\ F[n - 1] \in Nat /\ FramesOf(a) \in Nat
    <3>1. Placed(C, F, G, H, n - 1) /\ e \in 0..(n - 1)
      BY <1>2, <1>4, <2>3 DEF Shape, Measured
    <3>2. Rises(C, F, G, e, n - 1)
      BY <3>1 DEF Placed
    <3>3. \A m \in (e + 1)..(n - 1) : ~IsResume(C[m])
      BY <2>3 DEF IsResume, IsTry
    <3>4. F[e] <= F[n - 1]
      BY <3>2, <3>3 DEF Rises
    <3>5. e \in 0..n /\ n - 1 \in 0..n
      BY <2>3
    <3>. QED
      BY <1>3, <2>6, <3>4, <3>5, ActivationFacts
  <2>9. o.errfunc = HandlerAt(C, e)
    BY <1>3, <1>5, <2>1 DEF ThreadOK, HandlerNow
  <2>10. Local(C, e, b) /\ Stacked(C, e)
    BY <1>1, <1>2, <2>3, <2>6 DEF Held, Kept, Placed
  <2>11. o.errfunc <= F[e]
    <3>1. CASE e < 2 \/ C[e - 1].k # "cfun"
      BY <2>8, <2>9, <3>1 DEF HandlerAt
    <3>2. CASE ~(e < 2) /\ C[e - 1].k = "cfun" /\ IsResume(C[e])
      <4>1. o.errfunc = 0
        BY <2>9, <2>10, <3>2 DEF HandlerAt, Local, HandlerKept
      <4>. QED
        BY <2>8, <4>1
    <3>3. CASE ~(e < 2) /\ C[e - 1].k = "cfun" /\ ~IsResume(C[e])
      <4>1. C[e] \in Try
        <5>1. C[e] \in Activation
          BY <1>2, <1>3, <2>3
        <5>. QED
          BY <2>3, <5>1, ActivationFacts
      <4>2. IsPcall(C[e])
        BY <2>3, <2>10, <3>3, <4>1 DEF IsPcall, IsTry, IsResume, Try, Stacked
      <4>3. C[e].old_ci = F[e - 1] /\ F[e] = F[e - 1] + FramesOf(C[e])
        BY <2>6, <3>3, <4>2 DEF Placed, LevelAt, IsPcall, IsTry
      <4>4. FramesOf(C[e]) = 0 /\ F[e - 1] \in Nat
        BY <2>3, <2>6, <4>2 DEF FramesOf, IsPcall
      <4>5. C[e].old_errfunc <= C[e].old_ci
        BY <2>10, <4>2 DEF Local, HandlerKept
      <4>. QED
        BY <2>9, <3>3, <4>3, <4>4, <4>5 DEF HandlerAt
    <3>. QED
      BY <3>1, <3>2, <3>3
  <2>. QED
    BY <1>6, <2>5, <2>7, <2>8, <2>11
<1>. QED
  BY <1>6, <1>7

(* A thread changes in what no invariant speaks of.                        *)
LEMMA AlikeKept ==
    ASSUME NEW T \in [Thread -> LuaState], NEW C, NEW M, NEW b, Kept(T, C, M, b),
           NEW x \in Thread, NEW l, Alike(l, T[x]), l.errfunc = T[x].errfunc
    PROVE  Kept([T EXCEPT ![x] = l], C, M, b)
<1>1. ThreadOK(C, M, x, T[x], b)
  BY DEF Kept
<1>2. ThreadOK(C, M, x, l, b)
  BY <1>1 DEF ThreadOK, HandlerNow, HooksNow, CallsNow, Alike
<1>3. \A y \in Thread : ThreadOK(C, M, y, [T EXCEPT ![x] = l][y], b)
  BY <1>2 DEF Kept
<1>. QED
  BY <1>3 DEF Kept

(* What a change of the running thread may do to it.                       *)
SameHandler(l, o, N) ==
    /\ l.errfunc = o.errfunc /\ l.errorJmp = o.errorJmp /\ l.allowhook = o.allowhook
    /\ l.errfunc <= Len(l.ci) /\ l.nCcalls <= Limit /\ (Working(N) => l.nCcalls < Limit)

Ordinary(a) == ~IsTry(a) /\ ~NoHooks(a)

LEMMA PushHeld ==
    ASSUME NEW s, OK(s), NEW b \in BOOLEAN, Held(s, b), s.cs # <<>>,
           Own(s).status \in {"ok", "yield"},
           NEW a \in Activation, a.t = TopThread(s.cs), Ordinary(a),
           NEW l, NEW N, SameHandler(l, Own(s), N), NEW r, r = Sets(s, l, Append(s.cs, a), N)
    PROVE  Held(r, b)
<1>1. PICK C \in Seq(Activation) : C = s.cs
  BY OwnFacts
<1>2. PICK D \in Seq(Activation) : D = Append(C, a)
  BY AppendFacts
<1>3. PICK n \in Nat : n = Len(C)
  OBVIOUS
<1>4. Len(D) = n + 1 /\ D[n + 1] = a /\ \A i \in 1..n : D[i] = C[i]
  BY <1>2, <1>3, AppendFacts
<1>5. Agreeing(C, D, n, a.t) /\ TopThread(D) = a.t
  BY <1>3, <1>4 DEF Agreeing, TopThread
<1>6. \A i \in (n + 1)..Len(D) : ~IsTry(D[i]) /\ ~NoHooks(D[i])
  BY <1>3, <1>4 DEF Ordinary
<1>7. \A i \in (n + 1)..Len(C) : ~IsTry(C[i]) /\ ~NoHooks(C[i])
  BY <1>3
<1>. QED
  BY <1>1, <1>2, <1>5, <1>6, <1>7, OwnKept DEF SameHandler

LEMMA ReplacedHeld ==
    ASSUME NEW s, OK(s), NEW b \in BOOLEAN, Held(s, b), s.cs # <<>>,
           Own(s).status \in {"ok", "yield"}, Ordinary(TopOf(s)),
           NEW a \in Activation, a.t = TopThread(s.cs), Ordinary(a),
           NEW l, NEW N, SameHandler(l, Own(s), N),
           NEW r, r = Sets(s, l, [s.cs EXCEPT ![Len(s.cs)] = a], N)
    PROVE  Held(r, b)
<1>1. PICK C \in Seq(Activation) : C = s.cs
  BY OwnFacts
<1>2. PICK n \in Nat \ {0} : n = Len(C)
  BY <1>1, OwnFacts
<1>3. PICK D \in Seq(Activation) : D = [C EXCEPT ![n] = a]
  BY <1>2, ExceptFacts
<1>4. Len(D) = n /\ D[n] = a /\ \A i \in 1..(n - 1) : D[i] = C[i]
  BY <1>2, <1>3, ExceptFacts
<1>5. C[n].t = a.t /\ C[n] = TopOf(s)
  BY <1>1, <1>2, OwnFacts DEF TopOf
<1>6. Agreeing(C, D, n - 1, a.t) /\ TopThread(D) = a.t
  BY <1>2, <1>4, <1>5 DEF Agreeing, TopThread
<1>7. \A i \in ((n - 1) + 1)..Len(D) : ~IsTry(D[i]) /\ ~NoHooks(D[i])
  BY <1>2, <1>4 DEF Ordinary
<1>8. \A i \in ((n - 1) + 1)..Len(C) : ~IsTry(C[i]) /\ ~NoHooks(C[i])
  BY <1>2, <1>5 DEF Ordinary
<1>. QED
  BY <1>1, <1>2, <1>3, <1>6, <1>7, <1>8, OwnKept DEF SameHandler

LEMMA CutHeld ==
    ASSUME NEW s, OK(s), NEW b \in BOOLEAN, Held(s, b), s.cs # <<>>,
           Own(s).status \in {"ok", "yield"},
           NEW k \in Nat \ {0}, k \in 1..Len(s.cs), s.cs[k].t = TopThread(s.cs),
           \A i \in (k + 1)..Len(s.cs) : s.cs[i].t = TopThread(s.cs) /\ Ordinary(s.cs[i]),
           NEW l, NEW N, SameHandler(l, Own(s), N), NEW r, r = Sets(s, l, SubSeq(s.cs, 1, k), N)
    PROVE  Held(r, b)
<1>1. PICK C : C = s.cs /\ C \in Seq(Activation)
  BY OwnFacts
<1>2. PICK D : D = SubSeq(C, 1, k)
  OBVIOUS
<1>3. /\ Len(C) \in Nat /\ k \in 0..Len(C) /\ D \in Seq(Activation)
      /\ Len(D) = k /\ \A i \in 1..k : D[i] = C[i]
  <2>1. C \in Seq(Activation) /\ k \in 0..Len(C)
    BY <1>1
  <2>. QED
    BY <1>2, <2>1, CutFacts
<1>4. Agreeing(C, D, k, TopThread(C)) /\ TopThread(D) = TopThread(C)
  BY <1>1, <1>3 DEF Agreeing, TopThread
<1>5. \A i \in (k + 1)..Len(D) : ~IsTry(D[i]) /\ ~NoHooks(D[i])
  BY <1>3
<1>6. \A i \in (k + 1)..Len(C) : ~IsTry(C[i]) /\ ~NoHooks(C[i])
  BY <1>1 DEF Ordinary
<1>. QED
  BY <1>1, <1>2, <1>3, <1>4, <1>5, <1>6, OwnKept DEF SameHandler

-----------------------------------------------------------------------------
(* The moves keep what is kept.                                            *)
LEMMA ModeMoveHeld ==
    ASSUME NEW s, OK(s), NEW b \in BOOLEAN, Held(s, b), NEW r, ModeMove(s, r)
    PROVE  Held(r, b)
<1>1. PICK N \in Mode : (Working(s.mode) \/ ~Working(N)) /\ r = [s EXCEPT !.mode = N]
  BY DEF ModeMove, Turns
<1>2. r.th = s.th /\ r.cs = s.cs /\ r.mode = N
  BY <1>1 DEF OK, State
<1>. QED
  BY <1>1, <1>2 DEF Held, Kept, ThreadOK, CallsNow

LEMMA SizeMoveHeld ==
    ASSUME NEW s, OK(s), NEW b \in BOOLEAN, Held(s, b), NEW r, SizeMove(s, r)
    PROVE  Held(r, b)
<1>1. PICK x \in Thread, z \in Nat : r = [s EXCEPT !.th[x].size_ci = z]
  BY DEF SizeMove
<1>2. PICK T \in [Thread -> LuaState] : T = s.th
  BY OwnFacts
<1>3. PICK o \in LuaState : o = T[x]
  OBVIOUS
<1>. DEFINE l == [o EXCEPT !.size_ci = z]
<1>4. Alike(l, T[x]) /\ l.errfunc = T[x].errfunc
  BY <1>3, ResizedFacts DEF LuaState
<1>5. r.th = [T EXCEPT ![x] = l] /\ r.cs = s.cs /\ r.mode = s.mode
  BY <1>1, <1>2, <1>3 DEF OK, State
<1>. HIDE DEF l
<1>6. Kept([T EXCEPT ![x] = l], s.cs, s.mode, b)
  BY <1>2, <1>4, AlikeKept DEF Held
<1>. QED
  BY <1>5, <1>6 DEF Held

LEMMA LimitFacts == Limit \in Nat /\ MaxCCalls < Limit /\ Limit = MaxCCalls + ErrorRoom
BY CallsAssumption DEF Limit

LEMMA CallMoveHeld ==
    ASSUME NEW s, OK(s), NEW b \in BOOLEAN, Held(s, b), NEW r, CallMove(s, r)
    PROVE  Held(r, b)
<1>1. PICK N \in Mode :
       /\ Acts(s) /\ s.mode = "run"
       /\ Working(N) => Own(s).nCcalls + 1 < Limit
       /\ r = Sets(s, [Own(s) EXCEPT !.nCcalls = @ + 1],
                   Append(s.cs, [k |-> "call", t |-> TopThread(s.cs)]), N)
  BY DEF CallMove, Counts, Limit
<1>2. PICK o \in LuaState : o = Own(s)
  BY OwnFacts
<1>3. PICK t \in Thread : t = TopThread(s.cs)
  BY OwnFacts
<1>. DEFINE l == [o EXCEPT !.nCcalls = @ + 1]  a == [k |-> "call", t |-> t]
<1>4. a \in Activation /\ a.t = t /\ Ordinary(a)
  BY DEF Activation, Plain, Ordinary, IsTry, NoHooks
<1>5. /\ o.errfunc <= Len(o.ci) /\ o.nCcalls \in Nat /\ o.nCcalls < Limit
  BY <1>1, <1>2, ErrBelow DEF Working
<1>6. SameHandler(l, o, N)
  <2>1. /\ l.ci = o.ci /\ l.nCcalls = o.nCcalls + 1 /\ l.errfunc = o.errfunc
        /\ l.errorJmp = o.errorJmp /\ l.allowhook = o.allowhook
    BY DEF LuaState
  <2>2. o.nCcalls + 1 <= Limit
    BY <1>5, LimitFacts
  <2>. HIDE DEF l
  <2>. QED
    BY <1>1, <1>2, <1>5, <2>1, <2>2 DEF SameHandler
<1>7. r = Sets(s, l, Append(s.cs, a), N)
  BY <1>1, <1>2, <1>3
<1>. HIDE DEF l, a
<1>. QED
  BY <1>1, <1>2, <1>3, <1>4, <1>6, <1>7, PushHeld DEF Acts

LEMMA EnterMoveHeld ==
    ASSUME NEW s, OK(s), NEW b \in BOOLEAN, Held(s, b), NEW r, EnterMove(s, r)
    PROVE  Held(r, b)
<1>1. PICK f \in Frame :
       /\ Acts(s)
       /\ r = Sets(s, [Own(s) EXCEPT !.ci = Append(@, f)],
                   Append(s.cs, Entry(f, TopThread(s.cs))), s.mode)
  BY DEF EnterMove
<1>2. PICK o \in LuaState : o = Own(s)
  BY OwnFacts
<1>3. PICK t \in Thread : t = TopThread(s.cs)
  BY OwnFacts
<1>. DEFINE l == [o EXCEPT !.ci = Append(o.ci, f)]  a == Entry(f, t)
<1>4. a \in Activation /\ a.t = t /\ Ordinary(a)
  BY DEF Entry, Frame, Activation, CFun, Exec, Ordinary, IsTry, NoHooks
<1>5. /\ o.errfunc <= Len(o.ci) /\ o.errfunc \in Nat /\ o.nCcalls <= Limit
      /\ Working(s.mode) => o.nCcalls < Limit
  BY <1>1, <1>2, ErrBelow
<1>6. SameHandler(l, o, s.mode)
  <2>1. /\ l.ci = Append(o.ci, f) /\ l.nCcalls = o.nCcalls /\ l.errfunc = o.errfunc
        /\ l.errorJmp = o.errorJmp /\ l.allowhook = o.allowhook
    BY DEF LuaState
  <2>2. Len(Append(o.ci, f)) = Len(o.ci) + 1 /\ Len(o.ci) \in Nat
    BY CallInfoFacts
  <2>3. o.errfunc <= Len(Append(o.ci, f))
    BY <1>5, <2>2
  <2>. HIDE DEF l
  <2>. QED
    BY <1>5, <2>1, <2>3 DEF SameHandler
<1>7. r = Sets(s, l, Append(s.cs, a), s.mode)
  BY <1>1, <1>2, <1>3
<1>. HIDE DEF l, a
<1>. QED
  BY <1>1, <1>2, <1>3, <1>4, <1>6, <1>7, PushHeld DEF Acts

LEMMA ReenterMoveHeld ==
    ASSUME NEW s, OK(s), NEW b \in BOOLEAN, Held(s, b), NEW r, ReenterMove(s, r)
    PROVE  Held(r, b)
<1>1. Acts(s) /\ TopOf(s).k = "exec" /\ TopOf(s) \in Activation /\ s.cs # <<>>
  BY OwnFacts DEF ReenterMove, Acts
<1>2. PICK o \in LuaState : o = Own(s)
  BY OwnFacts
<1>3. PICK a \in Exec : a = TopOf(s)
  BY <1>1, ActivationFacts
<1>4. /\ a.k = "exec" /\ a.n \in Nat \ {0} /\ a.t \in Thread /\ FramesOf(a) = a.n /\ Ordinary(a)
      /\ a.t = TopThread(s.cs)
  BY <1>1, <1>3, OwnFacts DEF Exec, FramesOf, Ordinary, IsTry, NoHooks
<1>5. ASSUME NEW m \in Nat \ {0}
      PROVE  LET c == [a EXCEPT !.n = m] IN c \in Activation /\ c.t = a.t /\ Ordinary(c)
  BY <1>4 DEF Activation, Exec, Ordinary, IsTry, NoHooks
<1>6. /\ o.errfunc + a.n <= Len(o.ci) /\ o.errfunc \in Nat /\ o.nCcalls <= Limit
      /\ Working(s.mode) => o.nCcalls < Limit
      /\ Len(o.ci) \in Nat /\ o.ci \in Seq(Frame) /\ "lua" \in Frame
  <2>1. ~IsTry(a)
    BY <1>4 DEF Ordinary
  <2>. QED
    BY <1>1, <1>2, <1>3, <1>4, <2>1, ErrBelow DEF LuaState, Frame
<1>7. ASSUME NEW q, NEW m \in Nat \ {0}, o.errfunc <= Len(q),
             r = Sets(s, [o EXCEPT !.ci = q],
                      [s.cs EXCEPT ![Len(s.cs)] = [a EXCEPT !.n = m]], s.mode)
      PROVE  Held(r, b)
  <2>. DEFINE l == [o EXCEPT !.ci = q]  c == [a EXCEPT !.n = m]
  <2>1. c \in Activation /\ c.t = a.t /\ Ordinary(c)
    BY <1>5
  <2>2. SameHandler(l, o, s.mode)
    <3>1. /\ l.ci = q /\ l.nCcalls = o.nCcalls /\ l.errfunc = o.errfunc
          /\ l.errorJmp = o.errorJmp /\ l.allowhook = o.allowhook
      BY DEF LuaState
    <3>. HIDE DEF l
    <3>. QED
      BY <1>6, <1>7, <3>1 DEF SameHandler
  <2>3. r = Sets(s, l, [s.cs EXCEPT ![Len(s.cs)] = c], s.mode)
    BY <1>7
  <2>. HIDE DEF l, c
  <2>. QED
    BY <1>1, <1>2, <1>3, <1>4, <2>1, <2>2, <2>3, ReplacedHeld DEF Acts
<1>8. CASE r = Sets(s, [Own(s) EXCEPT !.ci = Append(@, "lua")],
                    [s.cs EXCEPT ![Len(s.cs)] = [TopOf(s) EXCEPT !.n = @ + 1]], s.mode)
  <2>1. Len(Append(o.ci, "lua")) = Len(o.ci) + 1
    BY <1>6
  <2>2. o.errfunc <= Len(Append(o.ci, "lua")) /\ a.n + 1 \in Nat \ {0}
    BY <1>4, <1>6, <2>1
  <2>. QED
    BY <1>2, <1>3, <1>7, <1>8, <2>2
<1>9. CASE /\ a.n > 1
           /\ r = Sets(s, [Own(s) EXCEPT !.ci = SubSeq(@, 1, Len(@) - 1)],
                       [s.cs EXCEPT ![Len(s.cs)] = [TopOf(s) EXCEPT !.n = @ - 1]], s.mode)
  <2>1. Len(o.ci) - 1 \in 0..Len(o.ci) /\ a.n - 1 \in Nat \ {0}
    BY <1>4, <1>6, <1>9
  <2>2. Len(SubSeq(o.ci, 1, Len(o.ci) - 1)) = Len(o.ci) - 1
    BY <2>1, FewerFacts
  <2>3. o.errfunc <= Len(SubSeq(o.ci, 1, Len(o.ci) - 1))
    BY <1>4, <1>6, <2>2
  <2>. QED
    BY <1>2, <1>3, <1>7, <1>9, <2>1, <2>3
<1>. QED
  BY <1>3, <1>8, <1>9 DEF ReenterMove

LEMMA ThroughMoveHeld ==
    ASSUME NEW s, OK(s), NEW b \in BOOLEAN, Held(s, b), NEW r, ThroughMove(s, r)
    PROVE  Held(r, b)
<1>. DEFINE c == [TopOf(s) EXCEPT !.st = "done"]
<1>1. Acts(s) /\ TopOf(s).k = "cfun" /\ r = [s EXCEPT !.cs = [s.cs EXCEPT ![Len(s.cs)] = c]]
  BY DEF ThroughMove, TopOf
<1>2. PICK o \in LuaState : o = Own(s)
  BY OwnFacts
<1>3. PICK a \in CFun : a = TopOf(s)
  <2>1. TopOf(s) \in Activation
    BY <1>1, OwnFacts DEF Acts
  <2>. QED
    BY <1>1, <2>1, ActivationFacts
<1>4. /\ c \in Activation /\ c.t = TopThread(s.cs) /\ Ordinary(c) /\ Ordinary(TopOf(s))
      /\ s.cs # <<>>
  <2>1. c \in CFun /\ c.t = a.t
    BY <1>3 DEF CFun
  <2>. QED
    BY <1>1, <1>3, <2>1, OwnFacts DEF Activation, CFun, Ordinary, IsTry, NoHooks, Acts
<1>5. SameHandler(o, o, s.mode)
  BY <1>1, <1>2, ErrBelow DEF SameHandler
<1>. HIDE DEF c
<1>6. r = Sets(s, o, [s.cs EXCEPT ![Len(s.cs)] = c], s.mode)
  <2>1. [s.th EXCEPT ![TopThread(s.cs)] = o] = s.th
    BY <1>2, OwnFacts DEF Own
  <2>. QED
    BY <1>1, <2>1 DEF Sets, OK, State
<1>7. SameHandler(o, Own(s), s.mode) /\ Own(s).status \in {"ok", "yield"}
  BY <1>1, <1>2, <1>5 DEF Acts
<1>. QED
  BY <1>4, <1>6, <1>7, ReplacedHeld

LEMMA LevelMoveHeld ==
    ASSUME NEW s, OK(s), NEW b \in BOOLEAN, Held(s, b), NEW r, LevelMove(s, r)
    PROVE  Held(r, b)
<1>1. PICK d \in {1, -1}, N \in Mode :
         /\ Acts(s) /\ TopOf(s).k = "parse" /\ TopOf(s).level + d >= 0 /\ s.mode = "run"
         /\ Working(N) => d = -1 \/ Own(s).nCcalls + d <= MaxCCalls
         /\ r = Sets(s, [Own(s) EXCEPT !.nCcalls = @ + d],
                     [s.cs EXCEPT ![Len(s.cs)] = [TopOf(s) EXCEPT !.level = @ + d]], N)
  BY DEF LevelMove, Mode
<1>2. PICK o \in LuaState : o = Own(s)
  BY OwnFacts
<1>3. PICK a \in Parse : a = TopOf(s)
  <2>1. TopOf(s) \in Activation
    BY <1>1, OwnFacts DEF Acts
  <2>. QED
    BY <1>1, <2>1, ActivationFacts
<1>4. /\ a.k = "parse" /\ a.level \in Nat /\ a.t \in Thread /\ a.level + d \in Nat
      /\ a.t = TopThread(s.cs) /\ s.cs # <<>> /\ Ordinary(a)
  BY <1>1, <1>3, OwnFacts DEF Parse, Acts, Ordinary, IsTry, NoHooks
<1>. DEFINE l == [o EXCEPT !.nCcalls = o.nCcalls + d]
            c == [a EXCEPT !.level = a.level + d]
<1>5. c \in Activation /\ c.t = a.t /\ Ordinary(c)
  <2>1. c \in Parse /\ c.t = a.t /\ c.k = "parse"
    BY <1>4 DEF Parse
  <2>. QED
    BY <2>1 DEF Activation, Ordinary, IsTry, NoHooks
<1>6. /\ o.errfunc <= Len(o.ci) /\ o.nCcalls \in Nat /\ o.nCcalls < Limit
  BY <1>1, <1>2, ErrBelow DEF Working
<1>7. SameHandler(l, o, N)
  <2>1. /\ l.ci = o.ci /\ l.nCcalls = o.nCcalls + d /\ l.errfunc = o.errfunc
        /\ l.errorJmp = o.errorJmp /\ l.allowhook = o.allowhook
    BY DEF LuaState
  <2>2. o.nCcalls + d <= Limit /\ (Working(N) => o.nCcalls + d < Limit)
    BY <1>1, <1>2, <1>6, LimitFacts, CallsAssumption
  <2>. HIDE DEF l
  <2>. QED
    BY <1>6, <2>1, <2>2 DEF SameHandler
<1>8. r = Sets(s, l, [s.cs EXCEPT ![Len(s.cs)] = c], N)
  <2>1. l = [Own(s) EXCEPT !.nCcalls = @ + d]
    BY <1>2
  <2>2. c = [TopOf(s) EXCEPT !.level = @ + d]
    BY <1>3
  <2>. QED
    BY <1>1, <2>1, <2>2
<1>. HIDE DEF l, c
<1>. QED
  BY <1>1, <1>2, <1>3, <1>4, <1>5, <1>7, <1>8, ReplacedHeld DEF Acts

(* Hooks while the stack grows and shrinks.                                *)
LEMMA QuietMore ==
    ASSUME NEW C \in Seq(Activation), NEW n, n = Len(C), NEW a \in Activation,
           NEW D, D = Append(C, a), NEW t
    PROVE  /\ Quiet(D, t, n) = Quiet(C, t, n)
           /\ Quiet(D, t, n + 1) <=> Quiet(C, t, n) /\ (a.t = t => ~NoHooks(a))
<1>1. n \in Nat /\ D[n + 1] = a /\ \A i \in 1..n : D[i] = C[i]
  BY AppendFacts
<1>2. 1..(n + 1) = (1..n) \cup {n + 1}
  BY <1>1
<1>. QED
  BY <1>1, <1>2 DEF Quiet

LEMMA QuietLess ==
    ASSUME NEW C, NEW n \in Nat \ {0}, NEW t
    PROVE  Quiet(C, t, n) <=> Quiet(C, t, n - 1) /\ (C[n].t = t => ~NoHooks(C[n]))
<1>2. 1..n = (1..(n - 1)) \cup {n}
  OBVIOUS
<1>. QED
  BY <1>2 DEF Quiet

(* An activation of x that keeps what it should, and x with it.            *)
Pushed(C, D, n, a) == n = Len(C) /\ D = Append(C, a)

Cut(C, D, k) == D = SubSeq(C, 1, k)

LEMMA PushKept ==
    ASSUME NEW s, OK(s), NEW b \in BOOLEAN, Held(s, b), NEW x \in Thread,
           TopThread(s.cs) = x \/ Working(s.mode),
           NEW n, NEW a \in Activation, a.t = x,
           NEW D, Pushed(s.cs, D, n, a), NEW l, NEW N,
           Local(D, n + 1, b), ThreadOK(D, N, x, l, b),
           NEW r, r = [th |-> [s.th EXCEPT ![x] = l], cs |-> D, mode |-> N]
    PROVE  Held(r, b)
<1>1. s.cs \in Seq(Activation) /\ Good(s.th, s.cs, s.mode)
  BY OwnFacts DEF OK
<1>2. /\ n \in Nat /\ D \in Seq(Activation) /\ Len(D) = n + 1 /\ D[n + 1] = a
      /\ \A i \in 1..n : D[i] = s.cs[i]
  BY <1>1, AppendFacts DEF Pushed
<1>3. Agreeing(s.cs, D, n, x)
  BY <1>2 DEF Agreeing, Pushed
<1>4. \A i \in (n + 1)..Len(D) : Local(D, i, b)
  BY <1>2
<1>5. Kept(s.th, s.cs, s.mode, b)
  BY DEF Held
<1>6. Kept([s.th EXCEPT ![x] = l], D, N, b)
  <2>1. Changed(s.cs, D, n, x, b)
    BY <1>3, <1>4 DEF Changed
  <2>. QED
    BY <1>1, <1>2, <1>5, <2>1, KeptBy
<1>. QED
  BY <1>6 DEF Held

(* The activations of the running thread above k end.                      *)
LEMMA CutKept ==
    ASSUME NEW s, OK(s), NEW b \in BOOLEAN, Held(s, b), NEW t, TopThread(s.cs) = t,
           NEW k \in 0..Len(s.cs), \A j \in (k + 1)..Len(s.cs) : s.cs[j].t = t,
           NEW D, Cut(s.cs, D, k), NEW l, NEW N, ThreadOK(D, N, t, l, b),
           NEW r, r = Sets(s, l, D, N)
    PROVE  Held(r, b)
<1>1. s.cs \in Seq(Activation) /\ Good(s.th, s.cs, s.mode) /\ t \in Thread
  BY OwnFacts DEF OK
<1>2. D \in Seq(Activation) /\ Len(D) = k /\ \A i \in 1..k : D[i] = s.cs[i]
  BY <1>1, CutFacts DEF Cut
<1>3. Agreeing(s.cs, D, k, t)
  BY <1>2 DEF Agreeing
<1>4. \A i \in (k + 1)..Len(D) : Local(D, i, b)
  BY <1>2
<1>5. Kept(s.th, s.cs, s.mode, b)
  BY DEF Held
<1>6. Kept([s.th EXCEPT ![t] = l], D, N, b)
  <2>1. Changed(s.cs, D, k, t, b)
    BY <1>3, <1>4 DEF Changed
  <2>. QED
    BY <1>1, <1>2, <1>5, <2>1, KeptBy
<1>. QED
  BY <1>6 DEF Held, Sets

LEMMA BeginMoveHeld ==
    ASSUME NEW s, OK(s), NEW b \in BOOLEAN, Held(s, b), NEW r, BeginMove(s, r)
    PROVE  Held(r, b)
<1>1. PICK a \in Activation, h \in BOOLEAN :
         /\ Acts(s) /\ a.t = TopThread(s.cs)
         /\ \/ a.k = "hook" /\ Own(s).allowhook /\ h = FALSE
            \/ a.k = "gctm" /\ a.oldah = Own(s).allowhook /\ h = FALSE
            \/ a.k = "errormsg" /\ h = Own(s).allowhook
            \/ a.k = "parse" /\ a.level = 0 /\ IsTry(TopOf(s)) /\ h = Own(s).allowhook
         /\ r = Sets(s, [Own(s) EXCEPT !.allowhook = h], Append(s.cs, a), s.mode)
  BY DEF BeginMove
<1>2. PICK o \in LuaState : o = Own(s)
  BY OwnFacts
<1>3. PICK t \in Thread : t = TopThread(s.cs)
  BY OwnFacts
<1>4. PICK C \in Seq(Activation) : C = s.cs
  BY OwnFacts
<1>5. PICK n \in Nat \ {0} : n = Len(C)
  BY <1>1, <1>4, OwnFacts DEF Acts
<1>. DEFINE l == [o EXCEPT !.allowhook = h]  D == Append(C, a)
<1>6. /\ l.ci = o.ci /\ l.nCcalls = o.nCcalls /\ l.errfunc = o.errfunc /\ l.status = o.status
      /\ l.errorJmp = o.errorJmp /\ l.allowhook = h /\ o.status = "ok" /\ o = s.th[t]
  BY <1>1, <1>2, <1>3 DEF LuaState, Acts, Own
<1>7. /\ o.errfunc <= Len(o.ci) /\ o.nCcalls <= Limit
      /\ Working(s.mode) => o.nCcalls < Limit
  BY <1>1, <1>2, ErrBelow
<1>8. r = Sets(s, l, D, s.mode) /\ r = [th |-> [s.th EXCEPT ![t] = l], cs |-> D, mode |-> s.mode]
  BY <1>1, <1>2, <1>3, <1>4 DEF Sets
<1>9. ThreadOK(C, s.mode, t, o, b)
  BY <1>4, <1>6 DEF Held, Kept
<1>10. CASE ~NoHooks(a)
  <2>1. Ordinary(a) /\ h = o.allowhook
    BY <1>1, <1>2, <1>10 DEF NoHooks, Ordinary, IsTry
  <2>2. SameHandler(l, o, s.mode)
    BY <1>6, <1>7, <2>1 DEF SameHandler
  <2>. HIDE DEF l
  <2>. QED
    BY ZenonT(60), <1>1, <1>2, <1>4, <1>6, <1>8, <2>1, <2>2, PushHeld DEF Acts
<1>11. CASE NoHooks(a)
  <2>1. /\ h = FALSE /\ a.k \in {"hook", "gctm"} /\ ~IsTry(a) /\ a.t = t
        /\ a.k = "hook" => o.allowhook
        /\ a.k = "gctm" => a.oldah = o.allowhook
    BY <1>1, <1>2, <1>3, <1>11 DEF NoHooks, IsTry
  <2>2. /\ D[n + 1] = a /\ Len(D) = n + 1 /\ \A i \in 1..n : D[i] = C[i]
    BY <1>5, AppendFacts
  <2>3. Quiet(D, t, n) = Quiet(C, t, n) /\ ~Quiet(D, t, n + 1)
    <3>. HIDE DEF D
    <3>1. D = Append(C, a)
      BY DEF D
    <3>. QED
      BY <1>5, <1>11, <2>1, <3>1, QuietMore
  <2>4. t # MainThread \/ b => o.allowhook = Quiet(C, t, n)
    BY <1>5, <1>6, <1>9 DEF ThreadOK, HooksNow
  <2>. HIDE DEF D
  <2>5. Local(D, n + 1, b)
    <3>1. (n + 1) - 1 = n
      OBVIOUS
    <3>2. HooksKept(D, n + 1, b)
      BY <2>1, <2>2, <2>3, <2>4, <3>1 DEF HooksKept, IsPcall
    <3>3. HandlerKept(D, n + 1)
      BY <2>1, <2>2 DEF HandlerKept, IsPcall, IsResume
    <3>. QED
      BY <2>1, <2>2, <3>2, <3>3 DEF Local
  <2>6. HandlerNow(D, o)
    <3>1. PICK F, G, H : Shape(s.th, C, s.mode, F, G, H)
      BY <1>4 DEF OK, Good
    <3>2. o.errorJmp \in 0..n
      BY <1>5, <1>6, <3>1 DEF Shape, Jumps, Innermost
    <3>3. HandlerAt(D, o.errorJmp) = HandlerAt(C, o.errorJmp)
      BY <2>2, <3>2, HandlerSame
    <3>. QED
      BY <1>9, <3>3 DEF ThreadOK, HandlerNow
  <2>7. ThreadOK(D, s.mode, t, l, b)
    <3>1. HandlerNow(D, l) /\ l.errfunc <= Len(l.ci)
      BY <1>6, <1>7, <2>6 DEF HandlerNow
    <3>2. HooksNow(D, t, l, b)
      <4>1. l.allowhook = FALSE /\ Quiet(D, t, Len(D)) = FALSE
        BY <1>6, <2>1, <2>2, <2>3 DEF Quiet
      <4>. QED
        BY <4>1 DEF HooksNow
    <3>3. CallsNow(D, s.mode, t, l)
      <4>1. TopThread(D) = t
        BY <2>1, <2>2 DEF TopThread
      <4>. QED
        BY <1>6, <1>7, <4>1 DEF CallsNow
    <3>. QED
      BY <3>1, <3>2, <3>3 DEF ThreadOK
  <2>8. Pushed(s.cs, D, n, a) /\ TopThread(s.cs) = t
    BY <1>3, <1>4, <1>5 DEF D, Pushed
  <2>. HIDE DEF l
  <2>. QED
    BY <1>8, <2>1, <2>5, <2>7, <2>8, PushKept
<1>. QED
  BY <1>10, <1>11

(* What is on top has the rest of its thread below it.                     *)
LEMMA BelowTop ==
    ASSUME NEW s, OK(s), Acts(s), ~IsTry(TopOf(s)), NEW n, n = Len(s.cs)
    PROVE  n - 1 \in 1..n /\ n - 1 \in Nat \ {0} /\ s.cs[n - 1].t = TopThread(s.cs)
<1>1. PICK F, G, H : Shape(s.th, s.cs, s.mode, F, G, H)
  BY DEF OK, Good
<1>2. n \in Nat \ {0} /\ s.cs[n] = TopOf(s) /\ TopThread(s.cs) = s.cs[n].t
  BY OwnFacts DEF Acts, TopOf
<1>3. PICK e : e = s.th[s.cs[n].t].errorJmp
  OBVIOUS
<1>4. TopReady(s.th, s.cs, s.mode, n, s.cs[n].t, e)
  BY <1>1, <1>2, <1>3, OwnFacts, TopFacts
<1>5. e \in 1..n /\ IsTry(s.cs[e]) /\ \A j \in e..n : s.cs[j].t = s.cs[n].t
  BY <1>4 DEF TopReady
<1>6. e # n
  BY <1>2, <1>5
<1>7. n - 1 \in e..n
  BY <1>2, <1>5, <1>6
<1>. QED
  BY <1>2, <1>5, <1>7

LEMMA LeaveMoveHeld ==
    ASSUME NEW s, OK(s), NEW b \in BOOLEAN, Held(s, b), NEW r, LeaveMove(s, r)
    PROVE  Held(r, b)
<1>1. PICK l \in LuaState :
         /\ \/ /\ TopOf(s).k = "cfun" \/ (TopOf(s).k = "exec" /\ TopOf(s).n = 1)
               /\ l = [Own(s) EXCEPT !.ci = SubSeq(@, 1, Len(@) - 1)]
            \/ TopOf(s).k = "call" /\ l = [Own(s) EXCEPT !.nCcalls = @ - 1]
            \/ TopOf(s).k = "parse" /\ TopOf(s).level = 0 /\ l = Own(s)
            \/ TopOf(s).k = "hook" /\ l = [Own(s) EXCEPT !.allowhook = TRUE]
            \/ TopOf(s).k = "gctm" /\ l = [Own(s) EXCEPT !.allowhook = TopOf(s).oldah]
         /\ r = Sets(s, l, SubSeq(s.cs, 1, Len(s.cs) - 1), "run")
  BY DEF LeaveMove
<1>2. PICK o \in LuaState : o = Own(s)
  BY OwnFacts
<1>3. PICK t \in Thread : t = TopThread(s.cs)
  BY OwnFacts
<1>4. PICK n \in Nat \ {0} : n = Len(s.cs)
  BY OwnFacts DEF LeaveMove, Acts
<1>5. PICK a \in Activation : a = TopOf(s)
  BY OwnFacts DEF LeaveMove, Acts
<1>6. /\ Acts(s) /\ s.mode = "run" /\ o = s.th[t] /\ a = s.cs[n] /\ a.t = t /\ s.cs # <<>>
      /\ o.status = "ok" /\ ~IsTry(a)
  BY Zenon, <1>1, <1>2, <1>3, <1>4, <1>5, OwnFacts DEF LeaveMove, Acts, Own, TopOf, IsTry
<1>7. n - 1 \in 1..n /\ n - 1 \in Nat \ {0} /\ s.cs[n - 1].t = t
  BY <1>3, <1>4, <1>5, <1>6, BelowTop
<1>8. /\ o.errfunc + FramesOf(a) <= Len(o.ci) /\ o.errfunc <= Len(o.ci) /\ o.errfunc \in Nat
      /\ Len(o.ci) \in Nat /\ o.nCcalls \in Nat /\ o.nCcalls < Limit
  BY <1>2, <1>5, <1>6, ErrBelow DEF Working
<1>9. ASSUME ~NoHooks(a), l.errfunc = o.errfunc, l.errorJmp = o.errorJmp,
             l.allowhook = o.allowhook, l.errfunc <= Len(l.ci), l.nCcalls < Limit
      PROVE  Held(r, b)
  <2>1. SameHandler(l, o, "run")
    <3>1. l.nCcalls <= Limit
      BY <1>9, LimitFacts DEF LuaState
    <3>. QED
      BY <1>9, <3>1 DEF SameHandler
  <2>2. Ordinary(a)
    BY <1>6, <1>9 DEF Ordinary
  <2>3. \A i \in ((n - 1) + 1)..Len(s.cs) : s.cs[i].t = TopThread(s.cs) /\ Ordinary(s.cs[i])
    BY <1>3, <1>4, <1>6, <2>2
  <2>. QED
    BY <1>1, <1>2, <1>3, <1>4, <1>6, <1>7, <2>1, <2>3, CutHeld
<1>10. ASSUME NoHooks(a), l.ci = o.ci, l.nCcalls = o.nCcalls, l.errfunc = o.errfunc,
              l.errorJmp = o.errorJmp, l.status = o.status,
              t # MainThread \/ b => l.allowhook = Quiet(s.cs, t, n - 1)
       PROVE  Held(r, b)
  <2>1. PICK C \in Seq(Activation) : C = s.cs
    BY OwnFacts
  <2>2. PICK k \in Nat \ {0} : k = n - 1
    BY <1>7
  <2>3. PICK D : D = SubSeq(C, 1, k)
    OBVIOUS
  <2>4. k \in 0..Len(C) /\ n = k + 1 /\ C[k].t = t
    BY <1>4, <1>7, <2>1, <2>2
  <2>5. Len(D) = k /\ \A i \in 1..k : D[i] = C[i]
    BY <2>3, <2>4, CutFacts
  <2>6. ThreadOK(C, s.mode, t, o, b)
    BY <1>6, <2>1 DEF Held, Kept
  <2>7. o.errorJmp \in 0..k
    <3>1. PICK F, G, H : Shape(s.th, C, s.mode, F, G, H)
      BY <2>1 DEF OK, Good
    <3>2. Innermost(C, t, o.errorJmp, n)
      BY <1>4, <1>6, <2>1, <3>1 DEF Shape, Jumps
    <3>. QED
      BY <1>6, <2>1, <2>4, <3>2 DEF Innermost
  <2>8. HandlerNow(D, l)
    <3>1. HandlerAt(D, o.errorJmp) = HandlerAt(C, o.errorJmp)
      BY <2>5, <2>7, HandlerSame
    <3>. QED
      BY <1>10, <2>6, <3>1 DEF ThreadOK, HandlerNow
  <2>9. HooksNow(D, t, l, b)
    <3>1. Quiet(D, t, Len(D)) = Quiet(C, t, k)
      BY <2>5 DEF Quiet
    <3>. QED
      BY <1>10, <2>1, <2>2, <3>1 DEF HooksNow
  <2>10. CallsNow(D, "run", t, l)
    BY <1>8, <1>10, LimitFacts DEF CallsNow
  <2>11. ThreadOK(D, "run", t, l, b)
    BY <1>8, <1>10, <2>8, <2>9, <2>10 DEF ThreadOK
  <2>12. \A j \in (k + 1)..Len(s.cs) : s.cs[j].t = t
    BY <1>4, <1>6, <2>4
  <2>13. k \in 0..Len(s.cs) /\ Cut(s.cs, D, k) /\ TopThread(s.cs) = t /\ r = Sets(s, l, D, "run")
    BY <1>1, <1>3, <1>4, <2>1, <2>2, <2>3, <2>4 DEF Cut
  <2>. QED
    BY <2>11, <2>12, <2>13, CutKept
<1>11. Local(s.cs, n, b)
  BY <1>4 DEF Held, Kept
<1>12. CASE /\ a.k = "cfun" \/ (a.k = "exec" /\ a.n = 1)
            /\ l = [o EXCEPT !.ci = SubSeq(@, 1, Len(@) - 1)]
  <2>1. FramesOf(a) = 1 /\ ~NoHooks(a)
    BY <1>12 DEF FramesOf, NoHooks
  <2>2. Len(o.ci) - 1 \in 0..Len(o.ci)
    BY <1>8, <2>1
  <2>3. Len(SubSeq(o.ci, 1, Len(o.ci) - 1)) = Len(o.ci) - 1
    BY <2>2, FewerFacts
  <2>4. /\ l.ci = SubSeq(o.ci, 1, Len(o.ci) - 1) /\ l.nCcalls = o.nCcalls
        /\ l.errfunc = o.errfunc /\ l.errorJmp = o.errorJmp /\ l.allowhook = o.allowhook
    BY <1>12 DEF LuaState
  <2>5. l.errfunc <= Len(l.ci) /\ l.nCcalls < Limit
    BY <1>8, <2>1, <2>3, <2>4
  <2>. QED
    BY <1>9, <2>1, <2>4, <2>5
<1>13. CASE a.k = "call" /\ l = [o EXCEPT !.nCcalls = @ - 1]
  <2>1. /\ l.ci = o.ci /\ l.nCcalls = o.nCcalls - 1 /\ ~NoHooks(a)
        /\ l.errfunc = o.errfunc /\ l.errorJmp = o.errorJmp /\ l.allowhook = o.allowhook
    BY <1>13 DEF LuaState, NoHooks
  <2>2. l.nCcalls < Limit
    BY <1>8, <2>1, LimitFacts
  <2>. QED
    BY <1>8, <1>9, <2>1, <2>2
<1>14. CASE a.k = "parse" /\ l = o
  <2>1. ~NoHooks(a)
    BY <1>14 DEF NoHooks
  <2>. QED
    BY <1>8, <1>9, <1>14, <2>1
<1>15. CASE a.k = "hook" /\ l = [o EXCEPT !.allowhook = TRUE]
  <2>1. /\ l.ci = o.ci /\ l.nCcalls = o.nCcalls /\ NoHooks(a) /\ l.status = o.status
        /\ l.errfunc = o.errfunc /\ l.errorJmp = o.errorJmp /\ l.allowhook = TRUE
    BY <1>15 DEF LuaState, NoHooks
  <2>2. t # MainThread \/ b => Quiet(s.cs, t, n - 1) = TRUE
    BY <1>6, <1>11, <1>15 DEF Local, HooksKept, Quiet
  <2>. QED
    BY <1>10, <2>1, <2>2
<1>16. CASE a.k = "gctm" /\ l = [o EXCEPT !.allowhook = a.oldah]
  <2>1. /\ l.ci = o.ci /\ l.nCcalls = o.nCcalls /\ NoHooks(a) /\ l.status = o.status
        /\ l.errfunc = o.errfunc /\ l.errorJmp = o.errorJmp /\ l.allowhook = a.oldah
    BY <1>16 DEF LuaState, NoHooks
  <2>2. t # MainThread \/ b => a.oldah = Quiet(s.cs, t, n - 1)
    BY <1>6, <1>11, <1>16 DEF Local, HooksKept
  <2>. QED
    BY <1>10, <2>1, <2>2
<1>. QED
  BY <1>1, <1>2, <1>5, <1>12, <1>13, <1>14, <1>15, <1>16

LEMMA ContinueMoveHeld ==
    ASSUME NEW s, OK(s), NEW b \in BOOLEAN, Held(s, b), NEW r, ContinueMove(s, r)
    PROVE  Held(r, b)
<1>1. PICK o \in LuaState : o = Own(s)
  BY OwnFacts
<1>2. PICK t \in Thread : t = TopThread(s.cs)
  BY OwnFacts
<1>3. PICK n \in Nat \ {0} : n = Len(s.cs)
  BY OwnFacts DEF ContinueMove
<1>4. PICK C \in Seq(Activation) : C = s.cs
  BY OwnFacts
<1>5. /\ o = s.th[t] /\ t = C[n].t /\ IsResume(C[n]) /\ o.status = "yield" /\ s.cs # <<>>
      /\ s.mode = "run" /\ C[n] \in Activation
  BY <1>1, <1>2, <1>3, <1>4, OwnFacts DEF ContinueMove, Own, TopOf
<1>6. PICK k \in Nat \ {0} : k = Len(o.ci) - 1 /\ k \in 0..Len(o.ci)
  <2>1. Len(o.ci) >= 2
    BY <1>5, YieldedFrames DEF OK
  <2>2. o.ci \in Seq(Frame)
    BY DEF LuaState
  <2>3. PICK q \in Nat : q = Len(o.ci)
    BY <2>2
  <2>4. q >= 2
    BY <2>1, <2>3
  <2>5. q - 1 \in Nat \ {0} /\ q - 1 \in 0..q
    BY <2>4
  <2>. QED
    BY <2>3, <2>5
<1>. DEFINE l == [o EXCEPT !.ci = SubSeq(o.ci, 1, k), !.status = "ok"]
            a == [k |-> "exec", t |-> t, n |-> k]
<1>7. Len(SubSeq(o.ci, 1, k)) = k
  BY <1>6, FewerFacts
<1>8. /\ l.ci = SubSeq(o.ci, 1, k) /\ l.nCcalls = o.nCcalls /\ l.errfunc = o.errfunc
      /\ l.errorJmp = o.errorJmp /\ l.allowhook = o.allowhook
  BY DEF LuaState
<1>9. a \in Activation /\ a.t = t /\ Ordinary(a)
  BY DEF Activation, Exec, Ordinary, IsTry, NoHooks
<1>10. r = Sets(s, l, Append(s.cs, a), "run")
  <2>1. l = [Own(s) EXCEPT !.ci = SubSeq(@, 1, Len(@) - 1), !.status = "ok"]
    BY <1>1, <1>6
  <2>. QED
    BY <1>1, <1>2, <1>6, <2>1 DEF ContinueMove
<1>. HIDE DEF l, a
<1>11. ThreadOK(C, s.mode, t, o, b)
  BY <1>4, <1>5 DEF Held, Kept
<1>12. o.errfunc = 0
  <2>1. PICK F, G, H : Shape(s.th, C, s.mode, F, G, H)
    BY <1>4 DEF OK, Good
  <2>2. Innermost(C, t, o.errorJmp, n)
    BY <1>3, <1>4, <1>5, <2>1 DEF Shape, Jumps
  <2>3. o.errorJmp = n
    BY <1>5, <2>2 DEF Innermost, IsResume, IsTry
  <2>4. o.errfunc = HandlerAt(C, n)
    BY <1>5, <1>11, <2>3 DEF ThreadOK, HandlerNow
  <2>5. HandlerKept(C, n)
    BY <1>3, <1>4 DEF Held, Kept, Local
  <2>. QED
    BY <1>5, <2>4, <2>5 DEF HandlerKept, HandlerAt
<1>13. o.nCcalls < Limit /\ o.nCcalls \in Nat /\ o.nCcalls <= Limit
  <2>1. o.nCcalls < Limit /\ o.nCcalls \in Nat
    BY <1>5, <1>11 DEF ThreadOK, CallsNow, Working, LuaState
  <2>. QED
    BY <2>1, LimitFacts
<1>14. SameHandler(l, o, "run")
  BY <1>7, <1>8, <1>12, <1>13 DEF SameHandler
<1>. QED
  BY <1>1, <1>2, <1>5, <1>9, <1>10, <1>14, PushHeld

LEMMA YieldMoveHeld ==
    ASSUME NEW s, OK(s), NEW b \in BOOLEAN, Held(s, b), NEW r, YieldMove(s, r)
    PROVE  Held(r, b)
<1>1. PICK o \in LuaState : o = Own(s)
  BY OwnFacts
<1>2. PICK t \in Thread : t = TopThread(s.cs)
  BY OwnFacts
<1>3. PICK n \in Nat \ {0} : n = Len(s.cs)
  BY OwnFacts DEF YieldMove, Acts
<1>4. /\ o = s.th[t] /\ t = s.cs[n].t /\ s.cs[n].k = "cfun" /\ o.nCcalls <= o.baseCcalls
      /\ Good(s.th, s.cs, s.mode) /\ Acts(s) /\ s.cs # <<>> /\ o.status = "ok" /\ s.mode = "run"
  BY <1>1, <1>2, <1>3, OwnFacts DEF YieldMove, Own, TopOf, OK, Acts
<1>5. PICK F, G, H : Shape(s.th, s.cs, s.mode, F, G, H)
  BY <1>4 DEF Good
<1>6. Yields(s.cs, n, t)
  BY <1>3, <1>4, <1>5, YieldPlace
<1>. DEFINE l == [o EXCEPT !.status = "yield"]
<1>7. /\ l.ci = o.ci /\ l.nCcalls = o.nCcalls /\ l.errfunc = o.errfunc
      /\ l.errorJmp = o.errorJmp /\ l.allowhook = o.allowhook
  BY DEF LuaState
<1>8. r = Sets(s, l, SubSeq(s.cs, 1, n - 2), "run")
  BY <1>1, <1>3 DEF YieldMove
<1>. HIDE DEF l
<1>9. SameHandler(l, o, "run")
  <2>1. o.errfunc <= Len(o.ci) /\ o.nCcalls <= Limit /\ o.nCcalls < Limit
    BY <1>1, <1>4, ErrBelow DEF Working
  <2>. QED
    BY <1>7, <2>1 DEF SameHandler
<1>10. PICK k \in Nat \ {0} : k = n - 2 /\ k \in 1..n
  <2>1. n - 2 \in Nat \ {0} /\ n - 2 \in 1..n
    BY <1>6 DEF Yields
  <2>. QED
    BY <2>1
<1>11. s.cs[k].t = t
  BY <1>6, <1>10 DEF Yields
<1>12. \A i \in (k + 1)..n : s.cs[i].t = t /\ Ordinary(s.cs[i])
  <2>1. (k + 1)..n = {n - 1, n}
    BY <1>10
  <2>. QED
    BY <1>4, <1>6, <2>1 DEF Yields, Ordinary, IsTry, NoHooks
<1>. QED
  BY <1>1, <1>2, <1>3, <1>4, <1>8, <1>9, <1>10, <1>11, <1>12, CutHeld

(* luaD_pcall begins: what it keeps and the error function it sets.        *)
LEMMA PcallMoveHeld ==
    ASSUME NEW s, OK(s), NEW b \in BOOLEAN, Held(s, b), NEW r, PcallMove(s, r)
    PROVE  Held(r, b)
<1>1. PICK o \in LuaState : o = Own(s)
  BY OwnFacts
<1>2. PICK t \in Thread : t = TopThread(s.cs)
  BY OwnFacts
<1>3. PICK C \in Seq(Activation) : C = s.cs
  BY OwnFacts
<1>4. PICK n \in Nat : n = Len(C)
  OBVIOUS
<1>5. /\ o = s.th[t] /\ o.status = "ok" /\ s.mode = "run"
      /\ C = <<>> \/ (C[n].k = "cfun" /\ C[n].f \in Protecting /\ TopOf(s) = C[n])
      /\ C = <<>> => n = 0
      /\ C # <<>> => n # 0
  BY <1>1, <1>2, <1>3, <1>4, OwnFacts DEF PcallMove, Own, TopOf
<1>6. ThreadOK(C, s.mode, t, o, b)
  BY <1>3, <1>5 DEF Held, Kept
<1>7. /\ o.errfunc \in Nat /\ Len(o.ci) \in Nat /\ o.errfunc <= Len(o.ci)
      /\ o.nCcalls \in Nat /\ o.nCcalls < Limit /\ o.errfunc = HandlerAt(C, o.errorJmp)
      /\ t # MainThread \/ b => o.allowhook = Quiet(C, t, n)
  <2>1. o.ci \in Seq(Frame) /\ o.errfunc \in Nat /\ o.nCcalls \in Nat
    BY DEF LuaState
  <2>2. Len(o.ci) \in Nat
    BY <2>1
  <2>. QED
    BY <1>4, <1>5, <1>6, <2>1, <2>2 DEF ThreadOK, HandlerNow, HooksNow, CallsNow, Working
<1>8. PICK h \in Nat : h = HandlerFor(s)
  BY <1>1, <1>7 DEF HandlerFor
<1>9. PICK a \in Try : a = TryOf("pcall", t, o)
  BY TryFacts
<1>10. /\ a.kind = "pcall" /\ a.k = "try" /\ a.t = t /\ a.previous = o.errorJmp
       /\ a.old_ci = Len(o.ci) /\ a.oldnCcalls = o.nCcalls
       /\ a.old_allowhooks = o.allowhook /\ a.old_errfunc = o.errfunc /\ a \in Activation
  BY <1>9, TryFacts DEF Try, Activation
<1>. DEFINE l == [o EXCEPT !.errorJmp = n + 1, !.errfunc = h]  D == Append(C, a)
<1>11. /\ l.ci = o.ci /\ l.nCcalls = o.nCcalls /\ l.status = o.status
       /\ l.errorJmp = n + 1 /\ l.allowhook = o.allowhook /\ l.errfunc = h
  BY DEF LuaState
<1>12. r = [th |-> [s.th EXCEPT ![t] = l], cs |-> D, mode |-> "run"]
  BY <1>1, <1>2, <1>3, <1>4, <1>5, <1>8, <1>9 DEF PcallMove, Sets
<1>13. Pushed(C, D, n, a)
  BY <1>4 DEF Pushed
<1>14. Len(D) = n + 1 /\ D[n + 1] = a /\ \A i \in 1..n : D[i] = C[i]
  BY <1>4, <1>10, AppendFacts
<1>15. Quiet(D, t, n) = Quiet(C, t, n) /\ Quiet(D, t, n + 1) = Quiet(C, t, n)
  <2>1. ~NoHooks(a)
    BY <1>10 DEF NoHooks
  <2>2. 1..(n + 1) = (1..n) \cup {n + 1}
    BY <1>4
  <2>. HIDE DEF D
  <2>. QED
    BY <1>14, <2>1, <2>2 DEF Quiet
<1>. HIDE DEF l, D
<1>16. HandlerAt(D, o.errorJmp) = HandlerAt(C, o.errorJmp)
  <2>1. PICK F, G, H : Shape(s.th, C, s.mode, F, G, H)
    BY <1>3 DEF OK, Good
  <2>2. o.errorJmp \in 0..n
    BY <1>4, <1>5, <2>1 DEF Shape, Jumps, Innermost
  <2>. QED
    BY <1>14, <2>2, HandlerSame
<1>17. Local(D, n + 1, b)
  <2>1. (n + 1) - 1 = n
    OBVIOUS
  <2>2. HooksKept(D, n + 1, b)
    BY <1>7, <1>10, <1>14, <1>15, <2>1 DEF HooksKept
  <2>3. n + 1 > 1 => D[n].k = "cfun" /\ D[n].f \in Protecting
    BY <1>4, <1>5, <1>14
  <2>4. HandlerKept(D, n + 1)
    BY <1>7, <1>10, <1>14, <1>16, <2>1, <2>3 DEF HandlerKept, IsResume
  <2>. QED
    BY <1>10, <1>14, <2>2, <2>4 DEF Local
<1>18. h = HandlerAt(D, n + 1) /\ h <= Len(o.ci)
  <2>1. CASE C = <<>>
    <3>1. h = 0 /\ n + 1 = 1
      BY <1>3, <1>5, <1>8, <2>1 DEF HandlerFor
    <3>. QED
      BY <1>7, <3>1 DEF HandlerAt
  <2>2. CASE C # <<>>
    <3>1. D[n] = C[n] /\ ~(n + 1 < 2) /\ (n + 1) - 1 = n
      BY <1>5, <1>14, <2>2
    <3>2. h = CASE C[n].f \in {"xpcall", "xpcallnil"} -> Len(o.ci)
                [] C[n].f = "load" -> o.errfunc
                [] OTHER -> 0
      BY <1>1, <1>3, <1>5, <1>8, <2>2 DEF HandlerFor
    <3>3. HandlerAt(D, n + 1) = CASE C[n].f \in {"xpcall", "xpcallnil"} -> Len(o.ci)
                                  [] C[n].f = "load" -> o.errfunc
                                  [] OTHER -> 0
      BY <1>5, <1>10, <1>14, <2>2, <3>1 DEF HandlerAt
    <3>. QED
      BY <1>7, <3>2, <3>3
  <2>. QED
    BY <2>1, <2>2
<1>19. ThreadOK(D, "run", t, l, b)
  <2>1. HandlerNow(D, l) /\ l.errfunc <= Len(l.ci)
    BY <1>11, <1>18 DEF HandlerNow
  <2>2. HooksNow(D, t, l, b)
    BY <1>7, <1>11, <1>14, <1>15 DEF HooksNow
  <2>3. CallsNow(D, "run", t, l)
    BY <1>7, <1>11, LimitFacts DEF CallsNow
  <2>. QED
    BY <2>1, <2>2, <2>3 DEF ThreadOK
<1>. QED
  BY <1>2, <1>3, <1>10, <1>12, <1>13, <1>17, <1>19, PushKept

LEMMA EndPcallMoveHeld ==
    ASSUME NEW s, OK(s), NEW b \in BOOLEAN, Held(s, b), NEW r, EndPcallMove(s, r)
    PROVE  Held(r, b)
<1>1. PICK o \in LuaState : o = Own(s)
  BY OwnFacts
<1>2. PICK t \in Thread : t = TopThread(s.cs)
  BY OwnFacts
<1>3. PICK n \in Nat \ {0} : n = Len(s.cs)
  BY OwnFacts DEF EndPcallMove
<1>4. PICK e \in Nat : e = o.errorJmp
  BY DEF LuaState
<1>5. PICK C \in Seq(Activation) : C = s.cs
  BY OwnFacts
<1>6. PICK z \in Nat :
         r = Sets(s, [Own(s) EXCEPT !.ci = SubSeq(@, 1, C[e].old_ci),
                                    !.nCcalls = C[e].oldnCcalls,
                                    !.allowhook = C[e].old_allowhooks,
                                    !.errfunc = C[e].old_errfunc,
                                    !.errorJmp = C[e].previous, !.size_ci = z],
                  SubSeq(C, 1, e - 1), "run")
  BY Zenon, <1>1, <1>4, <1>5 DEF EndPcallMove
<1>7. o = s.th[t] /\ t = C[n].t /\ C[e].kind = "pcall"
  BY Zenon, <1>1, <1>2, <1>3, <1>4, <1>5, OwnFacts DEF EndPcallMove, Own, TopOf
<1>8. PcallFacts(s.th, C, n, t, e)
  BY <1>3, <1>4, <1>5, <1>7, EndOfPcall DEF OK
<1>9. PICK a \in Try : a = C[e]
  BY <1>8 DEF PcallFacts
<1>10. /\ o.status = "ok" /\ a.old_ci <= Len(o.ci) /\ a.previous \in 0..(e - 1) /\ e \in 1..n
       /\ a.t = t /\ a.kind = "pcall" /\ a.k = "try" /\ IsPcall(C[e]) /\ IsTry(C[e])
  BY <1>7, <1>8, <1>9 DEF PcallFacts, IsPcall, IsTry, Try
<1>. DEFINE l == [o EXCEPT !.ci = SubSeq(o.ci, 1, a.old_ci),
                           !.nCcalls = a.oldnCcalls,
                           !.allowhook = a.old_allowhooks,
                           !.errfunc = a.old_errfunc,
                           !.errorJmp = a.previous, !.size_ci = z]
            D == SubSeq(C, 1, e - 1)
<1>11. a.old_ci \in 0..Len(o.ci) /\ Len(SubSeq(o.ci, 1, a.old_ci)) = a.old_ci
  <2>1. a.old_ci \in 0..Len(o.ci)
    BY <1>10 DEF Try, LuaState
  <2>. QED
    BY <2>1, FewerFacts
<1>12. /\ l.ci = SubSeq(o.ci, 1, a.old_ci) /\ l.nCcalls = a.oldnCcalls
       /\ l.allowhook = a.old_allowhooks /\ l.errorJmp = a.previous
       /\ l.errfunc = a.old_errfunc /\ l.status = "ok"
  BY <1>10 DEF LuaState
<1>13. r = Sets(s, l, D, "run")
  BY <1>1, <1>6, <1>9
<1>14. e - 1 \in 0..Len(C) /\ Len(D) = e - 1 /\ \A i \in 1..(e - 1) : D[i] = C[i]
  <2>1. e - 1 \in 0..Len(C)
    BY <1>3, <1>5, <1>10
  <2>. QED
    BY <2>1, CutFacts
<1>15. Cut(C, D, e - 1)
  BY DEF Cut
<1>. HIDE DEF l, D
<1>16. Local(C, e, b)
  BY <1>3, <1>5, <1>10 DEF Held, Kept
<1>17. HandlerNow(D, l) /\ l.errfunc <= Len(l.ci)
  <2>1. e - 1 \in Nat
    BY <1>10
  <2>2. HandlerAt(D, a.previous) = HandlerAt(C, a.previous)
    <3>1. PICK k \in Nat : k = e - 1
      BY <2>1
    <3>2. a.previous \in 0..k /\ \A i \in 1..k : D[i] = C[i]
      BY <1>10, <1>14, <3>1
    <3>. QED
      BY <3>2, HandlerSame
  <2>3. a.old_errfunc = HandlerAt(C, a.previous) /\ a.old_errfunc <= a.old_ci
    BY <1>9, <1>10, <1>16 DEF Local, HandlerKept
  <2>. QED
    BY <1>11, <1>12, <2>2, <2>3 DEF HandlerNow
<1>18. HooksNow(D, t, l, b)
  <2>1. Quiet(D, t, Len(D)) = Quiet(C, t, e - 1)
    BY <1>14 DEF Quiet
  <2>2. t # MainThread \/ b => a.old_allowhooks = Quiet(C, t, e - 1)
    BY <1>9, <1>10, <1>16 DEF Local, HooksKept
  <2>. QED
    BY <1>12, <2>1, <2>2 DEF HooksNow
<1>19. CallsNow(D, "run", t, l)
  <2>1. a.oldnCcalls < Limit /\ a.oldnCcalls \in Nat
    BY <1>9, <1>10, <1>16 DEF Local, HandlerKept, Try
  <2>2. a.oldnCcalls <= Limit
    BY <2>1, LimitFacts
  <2>. QED
    BY <1>12, <2>1, <2>2 DEF CallsNow
<1>20. ThreadOK(D, "run", t, l, b)
  BY <1>17, <1>18, <1>19 DEF ThreadOK
<1>21. \A j \in ((e - 1) + 1)..Len(s.cs) : s.cs[j].t = t
  <2>1. PICK F, G, H : Shape(s.th, C, s.mode, F, G, H)
    BY <1>5 DEF OK, Good
  <2>2. TopReady(s.th, C, s.mode, n, t, e)
    BY <1>3, <1>4, <1>5, <1>7, <2>1, OwnFacts, TopFacts
  <2>3. \A j \in e..n : C[j].t = t
    BY <2>2 DEF TopReady
  <2>4. (e - 1) + 1 = e
    BY <1>10
  <2>. QED
    BY <1>3, <1>5, <2>3, <2>4
<1>. QED
  BY <1>2, <1>5, <1>13, <1>14, <1>15, <1>20, <1>21, CutKept

LEMMA ResumeMoveHeld ==
    ASSUME NEW s, OK(s), NEW b \in BOOLEAN, Held(s, b), NEW r, ResumeMove(s, r)
    PROVE  Held(r, b)
<1>1. PICK c \in Thread \ {MainThread} :
       LET m == Own(s).nCcalls
           l == [s.th[c] EXCEPT !.nCcalls = m + 1, !.baseCcalls = m + 1,
                              !.fn = @ /\ s.th[c].status = "yield"]
       IN /\ Acts(s) /\ TopOf(s).k = "cfun" /\ TopOf(s).f \in {"resume", "wrap"}
          /\ s.mode = "run"
          /\ c # TopThread(s.cs) /\ s.th[c].errorJmp = 0 /\ m < MaxCCalls
          /\ s.th[c].status = "yield" \/ (s.th[c].status = "ok" /\ s.th[c].ci = <<>>)
          /\ r = [th |-> [s.th EXCEPT ![c] = [l EXCEPT !.errorJmp = Len(s.cs) + 1]],
                  cs |-> Append(s.cs, TryOf("resume", c, l)), mode |-> "run"]
  BY Zenon DEF ResumeMove
<1>2. PICK o \in LuaState : o = s.th[c]
  BY OwnFacts
<1>3. PICK m \in Nat : m = Own(s).nCcalls
  BY OwnFacts DEF LuaState
<1>4. PICK C \in Seq(Activation) : C = s.cs
  BY OwnFacts
<1>5. PICK n \in Nat \ {0} : n = Len(C)
  BY <1>1, <1>4, OwnFacts DEF Acts
<1>6. /\ C[n].k = "cfun" /\ C[n].f \in {"resume", "wrap"} /\ m < MaxCCalls /\ s.mode = "run"
      /\ o.errorJmp = 0 /\ o.status \in {"ok", "yield"}
  BY <1>1, <1>2, <1>3, <1>4, <1>5 DEF TopOf
<1>. DEFINE k == [o EXCEPT !.nCcalls = m + 1, !.baseCcalls = m + 1, !.fn = @ /\ o.status = "yield"]
            l == [k EXCEPT !.errorJmp = n + 1]
<1>7. m + 1 \in Nat /\ n + 1 \in Nat
  OBVIOUS
<1>8. k \in LuaState /\ k.errorJmp = 0
  BY <1>6, <1>7 DEF LuaState
<1>9. /\ l.status = o.status /\ l.ci = o.ci /\ l.nCcalls = m + 1 /\ l.errfunc = o.errfunc
      /\ l.allowhook = o.allowhook /\ l.errorJmp = n + 1
  BY <1>7 DEF LuaState
<1>. HIDE DEF k
<1>10. PICK a \in Try : a = TryOf("resume", c, k) /\ a.kind = "resume" /\ a.t = c
  BY <1>8, TryFacts
<1>11. r = [th |-> [s.th EXCEPT ![c] = l], cs |-> Append(s.cs, a), mode |-> "run"]
  BY <1>1, <1>2, <1>3, <1>4, <1>5, <1>10 DEF k
<1>12. a.k = "try" /\ a \in Activation /\ IsResume(a) /\ ~NoHooks(a) /\ ~IsPcall(a)
  BY <1>10 DEF Try, Activation, IsResume, NoHooks, IsPcall
<1>. DEFINE D == Append(C, a)
<1>13. Len(D) = n + 1 /\ D[n + 1] = a /\ \A i \in 1..n : D[i] = C[i]
  BY <1>5, <1>12, AppendFacts
<1>14. Pushed(C, D, n, a)
  BY <1>5 DEF Pushed
<1>. HIDE DEF l, D
<1>15. ThreadOK(C, s.mode, c, o, b)
  BY <1>2, <1>4 DEF Held, Kept
<1>16. o.errfunc = 0 /\ 0 <= Len(o.ci)
  <2>1. o.ci \in Seq(Frame)
    BY DEF LuaState
  <2>2. HandlerAt(C, 0) = 0
    BY DEF HandlerAt
  <2>. QED
    BY <1>6, <1>15, <2>1, <2>2 DEF ThreadOK, HandlerNow
<1>17. D[n] = C[n] /\ (n + 1) - 1 = n /\ ~(n + 1 < 2) /\ n + 1 > 1
  BY <1>13
<1>18. Local(D, n + 1, b)
  <2>1. HooksKept(D, n + 1, b)
    BY <1>12, <1>13 DEF HooksKept, IsResume
  <2>2. HandlerKept(D, n + 1)
    BY <1>6, <1>12, <1>13, <1>17 DEF HandlerKept
  <2>. QED
    BY <1>10, <1>13, <2>1, <2>2 DEF Local
<1>19. ThreadOK(D, "run", c, l, b)
  <2>1. HandlerAt(D, n + 1) = 0
    BY <1>6, <1>17 DEF HandlerAt
  <2>2. HandlerNow(D, l) /\ l.errfunc <= Len(l.ci)
    BY <1>9, <1>16, <2>1 DEF HandlerNow
  <2>3. HooksNow(D, c, l, b)
    <3>1. Quiet(D, c, n + 1) = Quiet(C, c, n)
      <4>1. 1..(n + 1) = (1..n) \cup {n + 1}
        OBVIOUS
      <4>. QED
        BY <1>12, <1>13, <4>1 DEF Quiet
    <3>. QED
      BY <1>5, <1>6, <1>9, <1>13, <1>15, <3>1 DEF ThreadOK, HooksNow
  <2>4. CallsNow(D, "run", c, l)
    <3>1. m + 1 < Limit /\ m + 1 <= Limit
      BY <1>6, LimitFacts, CallsAssumption
    <3>. QED
      BY <1>9, <3>1 DEF CallsNow
  <2>. QED
    BY <2>2, <2>3, <2>4 DEF ThreadOK
<1>20. r = [th |-> [s.th EXCEPT ![c] = l], cs |-> D, mode |-> "run"] /\ Pushed(s.cs, D, n, a)
  BY <1>4, <1>11, <1>14 DEF D
<1>21. c \in Thread /\ Working(s.mode)
  BY <1>6 DEF Working
<1>. QED
  BY <1>10, <1>12, <1>18, <1>19, <1>20, <1>21, PushKept

LEMMA EndResumeMoveHeld ==
    ASSUME NEW s, OK(s), NEW b \in BOOLEAN, Held(s, b), NEW r, EndResumeMove(s, r)
    PROVE  Held(r, b)
<1>1. PICK o \in LuaState : o = Own(s)
  BY OwnFacts
<1>2. PICK t \in Thread : t = TopThread(s.cs)
  BY OwnFacts
<1>3. PICK C \in Seq(Activation) : C = s.cs
  BY OwnFacts
<1>4. PICK n \in Nat \ {0} : n = Len(C)
  BY <1>3, OwnFacts DEF EndResumeMove
<1>5. PICK e \in Nat : e = o.errorJmp
  BY DEF LuaState
<1>6. PICK code \in Status :
         /\ code \in {"throw", "errerr"} \/ (e = n /\ code = o.status)
         /\ r = Sets(s, [Own(s) EXCEPT !.status = code, !.nCcalls = @ - 1, !.errorJmp = 0],
                     SubSeq(C, 1, e - 1), "run")
  BY Zenon, <1>1, <1>3, <1>4, <1>5 DEF EndResumeMove
<1>7. /\ o = s.th[t] /\ t = C[n].t /\ IsResume(C[e]) /\ Good(s.th, C, s.mode)
  BY <1>1, <1>2, <1>3, <1>4, <1>5, OwnFacts DEF EndResumeMove, Own, TopOf, OK
<1>8. e \in 1..n /\ o.nCcalls >= 1
  BY <1>4, <1>5, <1>7, ResumedCounts
<1>9. PICK m \in Nat : m = o.nCcalls - 1
  BY <1>8 DEF LuaState
<1>. DEFINE l == [o EXCEPT !.status = code, !.nCcalls = m, !.errorJmp = 0]
            D == SubSeq(C, 1, e - 1)
<1>10. /\ l.errorJmp = 0 /\ l.status = code /\ l.ci = o.ci /\ l.nCcalls = m
       /\ l.errfunc = o.errfunc /\ l.allowhook = o.allowhook
  BY DEF LuaState
<1>11. r = Sets(s, l, D, "run")
  BY <1>1, <1>6, <1>9
<1>12. e - 1 \in 0..Len(C) /\ Len(D) = e - 1 /\ \A i \in 1..(e - 1) : D[i] = C[i]
  <2>1. e - 1 \in 0..Len(C)
    BY <1>4, <1>8
  <2>. QED
    BY <2>1, CutFacts
<1>13. Cut(C, D, e - 1)
  BY DEF Cut
<1>. HIDE DEF l, D
<1>14. ThreadOK(C, s.mode, t, o, b)
  BY <1>3, <1>7 DEF Held, Kept
<1>15. l.errfunc <= Len(l.ci)
  BY <1>10, <1>14 DEF ThreadOK
<1>16. CallsNow(D, "run", t, l)
  <2>1. o.nCcalls <= Limit /\ o.nCcalls \in Nat
    BY <1>14 DEF ThreadOK, CallsNow, LuaState
  <2>2. m < Limit /\ m <= Limit
    BY <1>9, <2>1, LimitFacts
  <2>. QED
    BY <1>10, <2>2 DEF CallsNow
<1>17. ASSUME e = n, o.status \in {"ok", "yield"} PROVE HandlerNow(D, l) /\ HooksNow(D, t, l, b)
  <2>1. o.errfunc = HandlerAt(C, n)
    BY <1>5, <1>14, <1>17 DEF ThreadOK, HandlerNow
  <2>2. HandlerKept(C, n)
    BY <1>3, <1>4 DEF Held, Kept, Local
  <2>3. o.errfunc = 0
    BY <1>7, <1>17, <2>1, <2>2 DEF HandlerKept, HandlerAt
  <2>4. HandlerNow(D, l)
    BY <1>10, <2>3 DEF HandlerNow, HandlerAt
  <2>5. Quiet(C, t, n) <=> Quiet(C, t, n - 1)
    <3>1. ~NoHooks(C[n])
      BY <1>7, <1>17 DEF IsResume, NoHooks
    <3>. QED
      BY <3>1, QuietLess
  <2>6. Quiet(D, t, Len(D)) <=> Quiet(C, t, n - 1)
    BY <1>12, <1>17 DEF Quiet
  <2>7. t # MainThread \/ b => o.allowhook = Quiet(C, t, n)
    BY <1>4, <1>14, <1>17 DEF ThreadOK, HooksNow
  <2>8. t # MainThread \/ b => o.allowhook = Quiet(D, t, Len(D))
    BY <2>5, <2>6, <2>7 DEF Quiet
  <2>. QED
    BY <1>10, <2>4, <2>8 DEF HooksNow
<1>18. HandlerNow(D, l) /\ HooksNow(D, t, l, b)
  <2>1. CASE code \in {"throw", "errerr"}
    BY <1>10, <2>1 DEF HandlerNow, HooksNow
  <2>2. CASE e = n /\ code = o.status
    <3>1. CASE o.status \in {"ok", "yield"}
      BY <1>17, <2>2, <3>1
    <3>2. CASE o.status \notin {"ok", "yield"}
      BY <1>10, <2>2, <3>2 DEF HandlerNow, HooksNow
    <3>. QED
      BY <3>1, <3>2
  <2>. QED
    BY <1>6, <2>1, <2>2
<1>19. ThreadOK(D, "run", t, l, b)
  BY <1>15, <1>16, <1>18 DEF ThreadOK
<1>20. \A j \in ((e - 1) + 1)..Len(s.cs) : s.cs[j].t = t
  <2>1. PICK F, G, H : Shape(s.th, C, s.mode, F, G, H)
    BY <1>7 DEF Good
  <2>2. TopReady(s.th, C, s.mode, n, t, e)
    BY Zenon, <1>3, <1>4, <1>5, <1>7, <2>1, OwnFacts, TopFacts
  <2>3. \A j \in e..n : C[j].t = t
    BY <2>2 DEF TopReady
  <2>4. (e - 1) + 1 = e
    OBVIOUS
  <2>. QED
    BY <1>3, <1>4, <2>3, <2>4
<1>. QED
  BY <1>2, <1>3, <1>11, <1>12, <1>13, <1>19, <1>20, CutKept

LEMMA OtherMoveHeld ==
    ASSUME NEW s, OK(s), NEW b \in BOOLEAN, Held(s, b), NEW r, OtherMove(s, r)
    PROVE  Held(r, b)
<1>1. PICK c \in Thread \ {MainThread}, l \in LuaState :
         /\ c # TopThread(s.cs) /\ s.th[c].errorJmp = 0 /\ s.mode = "run"
         /\ \/ l = NewThread(TRUE)
            \/ /\ s.th[c].status = "yield" \/ (s.th[c].status = "ok" /\ s.th[c].ci = <<>>)
               /\ l = [s.th[c] EXCEPT !.nCcalls = Own(s).nCcalls,
                                      !.fn = @ /\ s.th[c].status = "yield"]
         /\ r = [s EXCEPT !.th = [s.th EXCEPT ![c] = l]]
  BY Zenon DEF OtherMove
<1>2. PICK o \in LuaState : o = s.th[c]
  BY OwnFacts
<1>3. PICK C \in Seq(Activation) : C = s.cs
  BY OwnFacts
<1>4. PICK n \in Nat : n = Len(C)
  OBVIOUS
<1>5. ThreadOK(C, s.mode, c, o, b) /\ Working(s.mode)
  BY <1>1, <1>2, <1>3 DEF Held, Kept, Working
<1>6. l.errorJmp = 0 /\ l.errfunc = 0 /\ 0 <= Len(l.ci)
  <2>1. CASE l = NewThread(TRUE)
    BY <2>1 DEF NewThread
  <2>2. CASE /\ o.status \in {"ok", "yield"}
             /\ l = [o EXCEPT !.nCcalls = Own(s).nCcalls, !.fn = @ /\ o.status = "yield"]
    <3>1. l.errorJmp = 0 /\ l.errfunc = o.errfunc /\ l.ci = o.ci /\ o.errorJmp = 0
      BY <1>1, <1>2, <2>2 DEF LuaState
    <3>2. o.errfunc = 0
      BY <1>5, <2>2, <3>1 DEF ThreadOK, HandlerNow, HandlerAt
    <3>3. l.ci \in Seq(Frame)
      BY DEF LuaState
    <3>. QED
      BY <3>1, <3>2, <3>3
  <2>. QED
    BY <1>1, <1>2, <2>1, <2>2
<1>7. /\ l.allowhook = TRUE \/ (o.status \in {"ok", "yield"} /\ l.allowhook = o.allowhook)
      /\ l.nCcalls = 0 \/ l.nCcalls = Own(s).nCcalls
  <2>1. CASE l = NewThread(TRUE)
    BY <2>1 DEF NewThread
  <2>2. CASE /\ o.status \in {"ok", "yield"}
             /\ l = [o EXCEPT !.nCcalls = Own(s).nCcalls, !.fn = @ /\ o.status = "yield"]
    BY <2>2 DEF LuaState
  <2>. QED
    BY <1>1, <1>2, <2>1, <2>2
<1>8. Quiet(C, c, n) = TRUE
  <2>1. PICK F, G, H : Shape(s.th, C, s.mode, F, G, H)
    BY <1>3 DEF OK, Good
  <2>2. ASSUME NEW i \in 1..n PROVE C[i].t # c
    BY <1>1, <1>3, <1>4, <2>1, HandlerBelow
  <2>. QED
    BY <2>2 DEF Quiet
<1>9. HandlerNow(C, l) /\ l.errfunc <= Len(l.ci)
  BY <1>6 DEF HandlerNow, HandlerAt
<1>10. HooksNow(C, c, l, b)
  BY <1>4, <1>5, <1>7, <1>8 DEF ThreadOK, HooksNow
<1>11. CallsNow(C, s.mode, c, l)
  <2>2. Own(s).nCcalls < Limit /\ Own(s).nCcalls \in Nat
    <3>1. TopThread(s.cs) \in Thread /\ Own(s) \in LuaState
      BY OwnFacts
    <3>2. ThreadOK(s.cs, s.mode, TopThread(s.cs), Own(s), b)
      BY <3>1 DEF Held, Kept, Own
    <3>. QED
      BY <1>5, <3>1, <3>2 DEF ThreadOK, CallsNow, LuaState
  <2>3. l.nCcalls < Limit /\ l.nCcalls <= Limit
    BY <1>7, <2>2, LimitFacts, CallsAssumption
  <2>. QED
    BY <2>3 DEF CallsNow
<1>12. ThreadOK(C, s.mode, c, l, b)
  BY <1>9, <1>10, <1>11 DEF ThreadOK
<1>13. Kept([s.th EXCEPT ![c] = l], C, s.mode, b)
  <2>1. \A y \in Thread : ThreadOK(C, s.mode, y, [s.th EXCEPT ![c] = l][y], b)
    BY <1>3, <1>12, OwnFacts DEF Held, Kept
  <2>. QED
    BY <1>3, <2>1 DEF Held, Kept
<1>14. r.th = [s.th EXCEPT ![c] = l] /\ r.cs = C /\ r.mode = s.mode
  BY <1>1, <1>3 DEF OK, State
<1>. QED
  BY <1>13, <1>14 DEF Held

LEMMA EndsHeld ==
    ASSUME NEW s, Fine(s), NEW b \in BOOLEAN, Held(s, b), NEW r, EndsPcall(s, r)
    PROVE  Held(r, b)
<1>1. PICK x : EndPcallMove(s, x) /\ (r = x \/ ThroughMove(x, r))
  BY DEF EndsPcall
<1>2. OK(s) /\ OK(x) /\ Held(x, b)
  BY <1>1, EndPcallMoveHeld, MoveKeepsRoom DEF Fine
<1>. QED
  BY <1>1, <1>2, ThroughMoveHeld

(* lua_close starts over with no handler, whatever ran.                    *)
LEMMA CloseMoveHeld ==
    ASSUME NEW s, OK(s), NEW b \in BOOLEAN, Held(s, b), NEW r, CloseMove(s, r)
    PROVE  Held(r, FALSE)
<1>1. PICK l \in LuaState, f \in Nat :
       /\ \A j \in 1..Len(s.cs) : s.cs[j].t = MainThread
       /\ s.cs = <<>> \/ (Own(s).errorJmp = 1 /\ s.cs[1].kind = "close")
       /\ f = 0 \/ (s.cs # <<>> /\ f = Own(s).errfunc)
       /\ l = [Own(s) EXCEPT !.ci = <<>>, !.nCcalls = 0, !.baseCcalls = 0,
                             !.errfunc = f, !.errorJmp = 0]
       /\ r = Sets(s, [l EXCEPT !.errorJmp = 1], <<TryOf("close", MainThread, l)>>, "run")
  BY Zenon DEF CloseMove
<1>2. PICK o \in LuaState : o = Own(s)
  BY OwnFacts
<1>3. PICK C \in Seq(Activation) : C = s.cs
  BY OwnFacts
<1>4. TopThread(C) = MainThread /\ MainThread \in Thread
  <2>1. CASE C = <<>>
    BY <1>3, <2>1, OwnFacts, CallsAssumption
  <2>2. CASE C # <<>>
    <3>1. Len(C) \in 1..Len(C)
      BY <1>3, <2>2, OwnFacts
    <3>. QED
      BY <1>1, <1>3, <2>2, <3>1, OwnFacts, CallsAssumption DEF TopOf
  <2>. QED
    BY <2>1, <2>2
<1>5. /\ o = s.th[MainThread] /\ o.status = "ok" /\ Good(s.th, C, s.mode)
  BY <1>2, <1>3, <1>4 DEF OK, Good, Shape, Alive, Own
<1>6. ThreadOK(C, s.mode, MainThread, o, b)
  BY <1>3, <1>4, <1>5 DEF Held, Kept
<1>7. f = 0
  <2>1. ASSUME f # 0 PROVE FALSE
    <3>1. f = o.errfunc /\ o.errorJmp = 1
      BY <1>1, <1>2, <2>1
    <3>2. o.errfunc = HandlerAt(C, 1)
      BY <1>5, <1>6, <3>1 DEF ThreadOK, HandlerNow
    <3>. QED
      BY <2>1, <3>1, <3>2 DEF HandlerAt
  <2>. QED
    BY <2>1
<1>8. /\ l.ci = <<>> /\ l.nCcalls = 0 /\ l.errorJmp = 0 /\ l.errfunc = 0
      /\ l.status = o.status
  BY <1>1, <1>2, <1>7 DEF LuaState
<1>9. PICK a \in Try : /\ a = TryOf("close", MainThread, l)
                      /\ a.kind = "close" /\ a.t = MainThread
  BY <1>4, TryFacts
<1>10. PICK D : D = <<a>>
  OBVIOUS
<1>11. D \in Seq(Activation) /\ Len(D) = 1 /\ D[1] = a /\ TopThread(D) = MainThread
  <2>1. a \in Activation
    BY DEF Activation
  <2>. QED
    BY <1>9, <1>10, <2>1 DEF TopThread
<1>12. IsTry(a)
  BY DEF Try, IsTry
<1>13. Local(D, 1, FALSE)
  <2>1. a.k = "try"
    BY DEF Try
  <2>2. HooksKept(D, 1, FALSE)
    BY <1>9, <1>11 DEF HooksKept
  <2>3. HandlerKept(D, 1)
    BY <1>9, <1>11 DEF HandlerKept, IsPcall, IsResume
  <2>. QED
    BY <2>2, <2>3 DEF Local
<1>14. PICK k : k = [l EXCEPT !.errorJmp = 1]
  OBVIOUS
<1>15. /\ k.ci = <<>> /\ k.nCcalls = 0 /\ k.errorJmp = 1 /\ k.errfunc = 0 /\ Len(k.ci) = 0
  BY <1>8, <1>14 DEF LuaState
<1>16. ThreadOK(D, "run", MainThread, k, FALSE)
  <2>1. HandlerNow(D, k) /\ k.errfunc <= Len(k.ci)
    BY <1>15 DEF HandlerNow, HandlerAt
  <2>2. HooksNow(D, MainThread, k, FALSE)
    BY DEF HooksNow
  <2>3. CallsNow(D, "run", MainThread, k)
    BY <1>15, LimitFacts, CallsAssumption DEF CallsNow
  <2>. QED
    BY <2>1, <2>2, <2>3 DEF ThreadOK
<1>17. Kept(s.th, C, s.mode, FALSE)
  <2>1. \A i \in 1..Len(C) : Local(C, i, FALSE)
    <3>1. ASSUME NEW i \in 1..Len(C), Local(C, i, b) PROVE Local(C, i, FALSE)
      BY <3>1 DEF Local, HooksKept
    <3>. QED
      BY <1>3, <3>1 DEF Held, Kept
  <2>2. \A t \in Thread : ThreadOK(C, s.mode, t, s.th[t], FALSE)
    <3>1. ASSUME NEW t \in Thread, ThreadOK(C, s.mode, t, s.th[t], b)
          PROVE  ThreadOK(C, s.mode, t, s.th[t], FALSE)
      BY <3>1 DEF ThreadOK, HooksNow
    <3>. QED
      BY Zenon, <1>3, <3>1 DEF Held, Kept
  <2>. QED
    BY <2>1, <2>2 DEF Kept
<1>18. Changed(C, D, 0, MainThread, FALSE)
  <2>1. Agreeing(C, D, 0, MainThread)
    <3>1. 0 \in 0..Len(C) /\ 0 \in 0..Len(D)
      BY <1>11, LenProperties
    <3>2. \A j \in (0 + 1)..Len(C) : C[j].t = MainThread
      BY <1>1, <1>3
    <3>3. \A j \in (0 + 1)..Len(D) : D[j].t = MainThread
      BY <1>9, <1>11
    <3>4. \A i \in 1..0 : D[i] = C[i]
      OBVIOUS
    <3>. QED
      BY <3>1, <3>2, <3>3, <3>4 DEF Agreeing
  <2>2. \A i \in (0 + 1)..Len(D) : Local(D, i, FALSE)
    <3>1. ASSUME NEW i \in (0 + 1)..Len(D) PROVE i = 1
      BY <1>11, <3>1
    <3>. QED
      BY <1>13, <3>1
  <2>. QED
    BY <2>1, <2>2 DEF Changed
<1>19. Kept([s.th EXCEPT ![MainThread] = k], D, "run", FALSE)
  <2>1. s.th \in [Thread -> LuaState]
    BY OwnFacts
  <2>. QED
    BY <1>4, <1>5, <1>11, <1>16, <1>17, <1>18, <2>1, KeptBy
<1>20. r = [th |-> [s.th EXCEPT ![MainThread] = k], cs |-> D, mode |-> "run"]
  BY <1>1, <1>3, <1>4, <1>9, <1>10, <1>14 DEF Sets
<1>. QED
  BY <1>19, <1>20 DEF Held

LEMMA ClosedMoveHeld ==
    ASSUME NEW s, OK(s), NEW b \in BOOLEAN, Held(s, b), NEW r, ClosedMove(s, r)
    PROVE  Held(r, b)
<1>1. PICK o \in LuaState : o = Own(s)
  BY OwnFacts
<1>2. PICK t \in Thread : t = TopThread(s.cs)
  BY OwnFacts
<1>3. PICK C \in Seq(Activation) : C = s.cs
  BY OwnFacts
<1>4. PICK n \in Nat \ {0} : n = Len(C)
  BY <1>3, OwnFacts DEF ClosedMove, Acts
<1>5. /\ o = s.th[t] /\ t = C[n].t /\ IsTry(C[n]) /\ C[n].kind = "close" /\ n = Len(s.cs)
      /\ o.status = "ok" /\ Good(s.th, C, s.mode) /\ s.mode = "run"
  BY <1>1, <1>2, <1>3, <1>4, OwnFacts DEF ClosedMove, Own, TopOf, OK, Acts
<1>6. n = 1 /\ t = MainThread /\ o.errorJmp = 1
  <2>1. PICK F, G, H : Shape(s.th, C, s.mode, F, G, H)
    BY <1>5 DEF Good
  <2>2. Stacked(C, n)
    BY <1>4, <2>1 DEF Shape, Measured, Placed
  <2>3. n = 1 /\ t = MainThread
    BY <1>5, <2>2 DEF Stacked
  <2>4. Innermost(C, t, o.errorJmp, 1)
    BY <1>4, <1>5, <2>1, <2>3 DEF Shape, Jumps
  <2>5. o.errorJmp \in 0..1 /\ \A j \in (o.errorJmp + 1)..1 : ~(IsTry(C[j]) /\ C[j].t = t)
    BY <2>4 DEF Innermost
  <2>6. o.errorJmp # 0
    BY <1>5, <2>3, <2>5
  <2>. QED
    BY <2>3, <2>5, <2>6
<1>7. ThreadOK(C, s.mode, t, o, b) /\ Local(C, 1, b)
  BY <1>3, <1>4, <1>5, <1>6 DEF Held, Kept
<1>8. ~b
  BY <1>5, <1>6, <1>7 DEF Local
<1>9. o.errfunc = 0
  <2>1. o.errfunc = HandlerAt(C, 1)
    BY <1>5, <1>6, <1>7 DEF ThreadOK, HandlerNow
  <2>. QED
    BY <2>1 DEF HandlerAt
<1>10. PICK l : l = [o EXCEPT !.errorJmp = 0]
  OBVIOUS
<1>11. /\ l.ci = o.ci /\ l.nCcalls = o.nCcalls /\ l.status = "ok"
       /\ l.errorJmp = 0 /\ l.errfunc = 0
  BY <1>5, <1>9, <1>10 DEF LuaState
<1>12. PICK D : Cut(C, D, 0) /\ D = SubSeq(C, 1, n - 1)
  <2>1. n - 1 = 0
    BY <1>6
  <2>. QED
    BY <2>1 DEF Cut
<1>13. ThreadOK(D, "run", t, l, b)
  <2>1. HandlerNow(D, l)
    BY <1>11 DEF HandlerNow, HandlerAt
  <2>2. l.errfunc <= Len(l.ci)
    BY <1>7, <1>9, <1>11 DEF ThreadOK
  <2>3. HooksNow(D, t, l, b)
    BY <1>6, <1>8 DEF HooksNow
  <2>4. CallsNow(D, "run", t, l)
    BY <1>5, <1>7, <1>11 DEF ThreadOK, CallsNow, Working
  <2>. QED
    BY <2>1, <2>2, <2>3, <2>4 DEF ThreadOK
<1>14. r = Sets(s, l, D, "run")
  BY <1>1, <1>3, <1>4, <1>10, <1>12 DEF ClosedMove
<1>15. 0 \in 0..Len(s.cs) /\ \A j \in (0 + 1)..Len(s.cs) : s.cs[j].t = t
  BY <1>3, <1>4, <1>5, <1>6
<1>. QED
  BY <1>2, <1>3, <1>12, <1>13, <1>14, <1>15, CutKept

LEMMA MoveHeld ==
    ASSUME NEW s, OK(s), NEW b \in BOOLEAN, Held(s, b), NEW r, Move(s, r)
    PROVE  Held(r, b)
BY ModeMoveHeld, SizeMoveHeld, CallMoveHeld, EnterMoveHeld, ReenterMoveHeld,
   ThroughMoveHeld, LevelMoveHeld, BeginMoveHeld, LeaveMoveHeld, PcallMoveHeld,
   ResumeMoveHeld, ContinueMoveHeld, YieldMoveHeld,
   EndResumeMoveHeld, OtherMoveHeld
   DEF Move

LEMMA MovesHeld ==
    ASSUME NEW s, Fine(s), NEW b \in BOOLEAN, Held(s, b), NEW r, Moves(s, r)
    PROVE  Fine(r) /\ Held(r, b)
<1>. DEFINE I == {x \in State : Fine(x) /\ Held(x, b)}
<1>1. s \in I
  BY DEF Fine, OK
<1>2. Closed(I)
  <2>1. ASSUME NEW x \in I, NEW y, Move(x, y) PROVE y \in I
    <3>1. Fine(y)
      BY <2>1, MoveKeepsRoom
    <3>2. Held(y, b)
      BY <2>1, MoveHeld DEF Fine
    <3>. QED
      BY <3>1, <3>2 DEF Fine, OK
  <2>. QED
    BY <2>1 DEF Closed
<1>3. r \in I
  BY <1>1, <1>2 DEF Moves
<1>. QED
  BY <1>3

-----------------------------------------------------------------------------
(* The inductive invariant.                                                *)
Safe ==
    /\ Fine(Now) /\ Held(Now, closing = "open")
    /\ due \in 0..Userdata /\ closing \in {"open", "closing", "closed"}

(* lua_close runs from the bottom of the stack, and not before it starts.  *)
LEMMA ClosingFacts ==
    ASSUME Safe, cstack # <<>>, cstack[1].kind = "close"
    PROVE  closing # "open"
<1>1. PICK C \in Seq(Activation) : C = cstack /\ C = Now.cs
  BY NowFacts DEF Safe
<1>2. 1 \in 1..Len(C)
  BY <1>1
<1>3. PICK F, G, H : Shape(th, C, mode, F, G, H)
  BY <1>1, NowFacts DEF Safe, OK, Good
<1>4. IsTry(C[1])
  BY <1>2, <1>3 DEF Shape, Measured, Placed, Stacked
<1>5. Local(C, 1, closing = "open")
  BY <1>1, <1>2 DEF Safe, Held, Kept
<1>. QED
  BY <1>1, <1>4, <1>5 DEF Local

LEMMA InitSafe == ASSUME Init PROVE Safe
<1>1. Fine(Now)
  BY InitFine
<1>2. /\ th = [t \in Thread |-> NewThread(FALSE)] /\ cstack = <<>> /\ mode = "run"
      /\ due = Userdata /\ closing = "open"
  BY DEF Init
<1>3. PICK l : l = NewThread(FALSE)
  OBVIOUS
<1>4. l.ci = <<>> /\ l.nCcalls = 0 /\ l.errfunc = 0 /\ l.allowhook = TRUE /\ l.errorJmp = 0
  BY <1>3 DEF NewThread
<1>5. PICK C : C = cstack /\ Len(C) = 0
  BY <1>2
<1>6. ASSUME NEW t \in Thread PROVE ThreadOK(C, "run", t, l, TRUE)
  <2>1. HandlerNow(C, l) /\ l.errfunc <= Len(l.ci)
    BY <1>4 DEF HandlerNow, HandlerAt
  <2>2. Quiet(C, t, Len(C)) = TRUE
    BY <1>5 DEF Quiet
  <2>3. HooksNow(C, t, l, TRUE)
    BY <1>4, <2>2 DEF HooksNow
  <2>4. CallsNow(C, "run", t, l)
    BY <1>4, LimitFacts, CallsAssumption DEF CallsNow
  <2>. QED
    BY <2>1, <2>3, <2>4 DEF ThreadOK
<1>7. \A i \in 1..Len(C) : Local(C, i, TRUE)
  BY <1>5
<1>8. Kept(th, C, "run", TRUE)
  <2>1. \A t \in Thread : th[t] = l
    BY Zenon, <1>2, <1>3
  <2>. QED
    BY <1>6, <1>7, <2>1 DEF Kept
<1>9. Held(Now, TRUE)
  BY <1>1, <1>2, <1>5, <1>8, NowFacts DEF Held
<1>10. due \in 0..Userdata
  BY <1>2, CallsAssumption
<1>. QED
  BY <1>1, <1>2, <1>9, <1>10 DEF Safe

(* What a step leads to.                                                   *)
SafeThen ==
    /\ Fine(Then) /\ Held(Then, closing' = "open")
    /\ due' \in 0..Userdata /\ closing' \in {"open", "closing", "closed"}

LEMMA StepSafe == ASSUME Safe, [Next]_vars PROVE SafeThen
<1>1. PICK b \in BOOLEAN : b = (closing = "open")
  OBVIOUS
<1>2. Fine(Now) /\ OK(Now) /\ Held(Now, b)
  BY <1>1 DEF Safe, Fine
<1>3. due \in 0..Userdata /\ closing \in {"open", "closing", "closed"} /\ Userdata \in Nat
  BY CallsAssumption DEF Safe
<1>4. Fine(Then)
  BY <1>2, StepFine
<1>5. CASE UNCHANGED vars
  <2>1. Then = Now /\ due' = due /\ closing' = closing
    BY <1>5 DEF vars, Then, Now
  <2>. QED
    BY <1>1, <1>2, <1>3, <2>1 DEF SafeThen
<1>6. CASE Next
  <2>1. CASE /\ Moves(Now, Then) /\ closing' = closing
             /\ due' = due \/ (due > 0 /\ due' = due - 1)
    <3>1. Held(Then, b)
      BY <1>2, <2>1, MovesHeld
    <3>2. due' \in 0..Userdata
      BY <1>3, <2>1
    <3>. QED
      BY <1>1, <1>3, <1>4, <2>1, <3>1, <3>2 DEF SafeThen
  <2>4. CASE EndsPcall(Now, Then) /\ UNCHANGED <<due, closing>>
    <3>1. Held(Then, b)
      BY <1>2, <2>4, EndsHeld
    <3>. QED
      BY <1>1, <1>3, <1>4, <2>4, <3>1 DEF SafeThen
  <2>2. CASE Closes
    <3>1. Held(Then, FALSE)
      BY <1>2, <2>2, CloseMoveHeld DEF Closes
    <3>2. closing' \in {"closing", "closed"} /\ due' = due
      BY <1>3, <2>2, ClosingFacts DEF Closes
    <3>. QED
      BY <1>3, <1>4, <3>1, <3>2 DEF SafeThen
  <2>3. CASE /\ ClosedMove(Now, Then) /\ cstack # <<>> /\ cstack[1].kind = "close"
             /\ closing' = "closed" /\ due' = due
    <3>1. b = FALSE
      BY <1>1, <2>3, ClosingFacts
    <3>2. Held(Then, FALSE)
      BY <1>2, <2>3, <3>1, ClosedMoveHeld
    <3>. QED
      BY <1>3, <1>4, <2>3, <3>2 DEF SafeThen
  <2>. QED
    BY <1>2, <1>6, <2>1, <2>2, <2>3, <2>4, NextMoves
<1>. QED
  BY <1>5, <1>6

(* The inductive invariant of this module holds in every reachable state:  *)
(* what each activation has kept to restore is what is in force below it,  *)
(* and the count of C calls stays within what luaD_call lets through.      *)
THEOREM Safety == Spec => []Safe
<1>1. Safe /\ [Next]_vars => Safe'
  <2>1. Now' = Then
    BY DEF Now, Then
  <2>2. SafeThen => Safe'
    BY <2>1 DEF Safe, SafeThen, Fine, OK, Room, Good, State, Held, Kept
  <2>. QED
    BY <2>2, StepSafe
<1>. QED
  BY InitSafe, <1>1, PTL DEF Spec
-----------------------------------------------------------------------------
(* The properties.                                                         *)
LEMMA SafeFacts ==
    ASSUME Safe
    PROVE  /\ th \in [Thread -> LuaState] /\ cstack \in Seq(Activation) /\ mode \in Mode
           /\ \E F, G, H : Shape(th, cstack, mode, F, G, H)
           /\ \A t \in Thread : /\ ThreadOK(cstack, mode, t, th[t], closing = "open")
                                /\ Len(th[t].ci) < th[t].size_ci
<1>1. OK(Now) /\ Room(Now) /\ Held(Now, closing = "open") /\ Now.th = th /\ Now.cs = cstack
      /\ Now.mode = mode
  BY NowFacts DEF Safe, Fine
<1>. QED
  BY <1>1 DEF OK, State, Good, Room, Held, Kept

LEMMA SafeTypeOK == ASSUME Safe PROVE TypeOK
<1>1. /\ th \in [Thread -> LuaState] /\ cstack \in Seq(Activation) /\ mode \in Mode
      /\ \A t \in Thread : /\ ThreadOK(cstack, mode, t, th[t], closing = "open")
                           /\ Len(th[t].ci) < th[t].size_ci
  BY SafeFacts
<1>2. PICK F, G, H : Shape(th, cstack, mode, F, G, H)
  BY SafeFacts
<1>3. mode # "run" => cstack # <<>>
  BY <1>1, <1>2 DEF Shape, Alive
<1>4. \A i \in DOMAIN cstack : cstack[i].t \in Thread
  <2>1. ASSUME NEW i \in DOMAIN cstack PROVE cstack[i].t \in Thread
    <3>1. cstack[i] \in Activation
      BY <1>1
    <3>. QED
      BY <3>1, ActivationFacts
  <2>. QED
    BY <2>1
<1>5. ASSUME NEW t \in Thread
      PROVE  /\ th[t].ci \in Seq(CFunction \cup {"lua"})
             /\ Len(th[t].ci) < th[t].size_ci
             /\ th[t].status \in {"ok", "yield", "throw", "errerr"}
             /\ th[t].errfunc \in 0..Len(th[t].ci)
  <2>1. PICK l \in LuaState : l = th[t]
    BY <1>1
  <2>2. l.ci \in Seq(Frame) /\ l.status \in Status /\ l.errfunc \in Nat
    BY DEF LuaState
  <2>3. l.errfunc <= Len(l.ci)
    BY <1>1, <2>1 DEF ThreadOK
  <2>4. Len(l.ci) \in Nat
    BY <2>2
  <2>5. l.errfunc \in 0..Len(l.ci)
    BY <2>2, <2>3, <2>4
  <2>. QED
    BY <1>1, <2>1, <2>2, <2>5 DEF Frame, Status
<1>. QED
  BY <1>1, <1>3, <1>4, <1>5 DEF TypeOK, Mode, Safe

(* Every field of every thread keeps its range, the error function is one  *)
(* of the thread's frames, and its frames fit its CallInfos, also after    *)
(* checkstacksizes and restore_stack_limit have changed their size.        *)
THEOREM CallsTyped == Spec => []TypeOK
BY Safety, SafeTypeOK, PTL

LEMMA LastIs ==
    ASSUME NEW S \in SUBSET Nat, NEW m \in Nat, \A i \in S : i <= m, m = 0 \/ m \in S,
           0 \notin S
    PROVE  Last(S) = m
<1>1. CASE S = {}
  BY <1>1 DEF Last
<1>2. CASE S # {}
  <2>1. m \in S
    <3>1. PICK x \in S : x <= m
      BY <1>2
    <3>2. x \in Nat /\ x # 0
      BY <3>1
    <3>. QED
      BY <3>1, <3>2
  <2>2. ASSUME NEW i \in S, \A j \in S : j <= i PROVE i = m
    BY <2>1, <2>2
  <2>. QED
    BY <1>2, <2>1, <2>2 DEF Last
<1>. QED
  BY <1>1, <1>2

LEMMA SafeInnermost ==
    ASSUME Safe, NEW t \in Thread
    PROVE  /\ InnermostTry(t) = th[t].errorJmp /\ th[t].errorJmp \in 0..Len(cstack)
           /\ th[t].errorJmp # 0 => IsTry(cstack[th[t].errorJmp]) /\ cstack[th[t].errorJmp].t = t
<1>1. PICK C \in Seq(Activation) : C = cstack
  BY SafeFacts
<1>2. PICK n \in Nat : n = Len(C)
  OBVIOUS
<1>3. PICK e : e = th[t].errorJmp
  OBVIOUS
<1>4. Innermost(C, t, e, n)
  BY <1>1, <1>2, <1>3, SafeFacts DEF Shape, Jumps
<1>5. /\ e \in 0..n /\ (e # 0 => IsTry(C[e]) /\ C[e].t = t)
      /\ \A j \in (e + 1)..n : ~(IsTry(C[j]) /\ C[j].t = t)
  BY <1>4 DEF Innermost
<1>. DEFINE S == {i \in 1..n : C[i].t = t /\ C[i].k = "try"}
<1>6. InnermostTry(t) = Last(S)
  <2>1. DOMAIN cstack = 1..n
    BY <1>1, <1>2
  <2>2. {i \in ActivationsOf(t) : cstack[i].k = "try"} = S
    BY <1>1, <2>1 DEF ActivationsOf
  <2>. QED
    BY <2>2 DEF InnermostTry
<1>7. S \in SUBSET Nat /\ 0 \notin S
  OBVIOUS
<1>8. \A i \in S : i <= e
  BY <1>5 DEF IsTry
<1>9. e = 0 \/ e \in S
  BY <1>5 DEF IsTry
<1>10. e \in Nat
  BY <1>5
<1>11. Last(S) = e
  <2>. HIDE DEF S
  <2>. QED
    BY <1>7, <1>8, <1>9, <1>10, LastIs
<1>. QED
  BY <1>1, <1>2, <1>3, <1>5, <1>6, <1>11

LEMMA SafeJumps == ASSUME Safe PROVE JumpsToInnermost
<1>1. \A t \in Thread : th[t].errorJmp = InnermostTry(t)
  BY Zenon, SafeInnermost
<1>2. ASSUME mode # "run" PROVE th[Top.t].errorJmp # 0
  <2>1. PICK C \in Seq(Activation) : C = cstack
    BY SafeFacts
  <2>2. PICK n \in Nat : n = Len(C)
    OBVIOUS
  <2>3. PICK F, G, H : Shape(th, C, mode, F, G, H)
    BY <2>1, SafeFacts
  <2>4. n > 0
    BY <1>2, <2>2, <2>3 DEF Shape, Alive
  <2>5. n \in 1..Len(C)
    BY <2>2, <2>4
  <2>6. th[C[n].t].errorJmp # 0
    BY <2>3, <2>5, HandlerBelow
  <2>. QED
    BY <2>1, <2>2, <2>6 DEF Top
<1>. QED
  BY <1>1, <1>2 DEF JumpsToInnermost

(* luaD_throw never jumps to a function that has returned, and there is    *)
(* always one to jump to: in every reachable state errorJmp of a thread is *)
(* its innermost luaD_rawrunprotected on the C stack, whatever the errors, *)
(* yields and resumptions so far.                                          *)
THEOREM JumpsAreSafe == Spec => []JumpsToInnermost
BY Safety, SafeJumps, PTL

LEMMA LiveFacts ==
    ASSUME Safe, NEW t \in Thread, Live(t) \/ th[t].status \in {"ok", "yield"}
    PROVE  th[t].status \in {"ok", "yield"}
<1>1. PICK C \in Seq(Activation) : C = cstack
  BY SafeFacts
<1>2. PICK F, G, H : Shape(th, C, mode, F, G, H)
  BY <1>1, SafeFacts
<1>3. CASE t = MainThread
  BY <1>2, <1>3 DEF Shape, Alive
<1>4. CASE \E i \in DOMAIN C : C[i].t = t
  <2>1. PICK i \in 1..Len(C) : C[i].t = t
    BY <1>4
  <2>2. th[t].errorJmp # 0
    BY <1>2, <2>1, HandlerBelow
  <2>. QED
    BY <1>2, <2>2 DEF Shape, Alive, Switching
<1>. QED
  BY <1>1, <1>3, <1>4 DEF Live

LEMMA SafeHandlers == ASSUME Safe PROVE HandlerOfInnermost
<1>1. SUFFICES ASSUME NEW t \in Thread, Live(t) \/ th[t].status \in {"ok", "yield"},
                      NEW j, j = InnermostTry(t),
                      NEW caller, caller = IF j > 1 /\ cstack[j - 1].k = "cfun"
                                           THEN cstack[j - 1].f ELSE "host"
               PROVE  th[t].errfunc =
                        IF j = 0 THEN 0
                        ELSE CASE caller \in {"xpcall", "xpcallnil"} -> cstack[j].old_ci
                               [] caller = "load" -> cstack[j].old_errfunc
                               [] OTHER -> 0
  BY DEF HandlerOfInnermost
<1>2. PICK C \in Seq(Activation) : C = cstack
  BY SafeFacts
<1>3. j = th[t].errorJmp /\ j \in 0..Len(C) /\ j \in Nat
  BY <1>1, <1>2, SafeInnermost
<1>4. th[t].errfunc = HandlerAt(C, j)
  <2>1. th[t].status \in {"ok", "yield"}
    BY <1>1, LiveFacts
  <2>2. HandlerNow(C, th[t])
    BY <1>2, SafeFacts DEF ThreadOK
  <2>. QED
    BY <1>3, <2>1, <2>2 DEF HandlerNow
<1>5. CASE j < 2
  <2>1. caller = "host" /\ HandlerAt(C, j) = 0
    BY <1>1, <1>3, <1>5 DEF HandlerAt
  <2>. QED
    BY <1>4, <2>1
<1>6. CASE j >= 2 /\ C[j - 1].k # "cfun"
  <2>1. caller = "host" /\ HandlerAt(C, j) = 0
    BY <1>1, <1>2, <1>3, <1>6 DEF HandlerAt
  <2>. QED
    BY <1>4, <2>1
<1>7. CASE j >= 2 /\ C[j - 1].k = "cfun"
  <2>1. caller = C[j - 1].f /\ j # 0
    BY <1>1, <1>2, <1>3, <1>7
  <2>2. HandlerAt(C, j) =
          CASE C[j - 1].f \in {"xpcall", "xpcallnil"} -> C[j].old_ci
            [] C[j - 1].f = "load" -> C[j].old_errfunc
            [] OTHER -> 0
    BY <1>3, <1>7 DEF HandlerAt
  <2>. QED
    BY <1>2, <1>4, <2>1, <2>2
<1>. QED
  BY <1>3, <1>5, <1>6, <1>7

(* An error gets to the handler of the innermost protected call of its     *)
(* thread and to no other, in every reachable state: errfunc is what that  *)
(* call has set, and none inside pcall or at the start of a coroutine.     *)
THEOREM HandlersAreInnermost == Spec => []HandlerOfInnermost
BY Safety, SafeHandlers, PTL

LEMMA SafeHooks == ASSUME Safe PROVE HooksOffInside
<1>1. SUFFICES ASSUME NEW t \in Thread, Live(t) \/ th[t].status \in {"ok", "yield"},
                      t # MainThread \/ closing = "open"
               PROVE  th[t].allowhook =
                        \A i \in ActivationsOf(t) : cstack[i].k \notin {"hook", "gctm"}
  BY DEF HooksOffInside
<1>2. PICK C \in Seq(Activation) : C = cstack
  BY SafeFacts
<1>3. th[t].status \in {"ok", "yield"}
  BY <1>1, LiveFacts
<1>4. HooksNow(C, t, th[t], closing = "open")
  BY <1>2, SafeFacts DEF ThreadOK
<1>5. th[t].allowhook = Quiet(C, t, Len(C))
  BY <1>1, <1>3, <1>4 DEF HooksNow
<1>6. DOMAIN C = 1..Len(C)
  OBVIOUS
<1>7. PICK q \in BOOLEAN : q = \A i \in ActivationsOf(t) : cstack[i].k \notin {"hook", "gctm"}
  OBVIOUS
<1>8. Quiet(C, t, Len(C)) <=> q
  BY <1>2, <1>6, <1>7 DEF Quiet, ActivationsOf, NoHooks
<1>9. Quiet(C, t, Len(C)) = q
  BY <1>8 DEF Quiet
<1>. QED
  BY <1>5, <1>7, <1>9

(* Hooks are off exactly inside hooks and finalizers of the thread, until  *)
(* lua_close: neither an error that leaves one of them nor a coroutine     *)
(* resumed from it turns them on too early, or leaves them off.            *)
THEOREM HooksAreOffInside == Spec => []HooksOffInside
BY Safety, SafeHooks, PTL
(* What Sum is computed by.                                                *)
SumsUp(S, W, n) == S = [i \in 0..n |-> IF i = 0 THEN 0 ELSE S[i - 1] + W[i]]

LEMMA SumIs ==
    ASSUME NEW n \in Nat, NEW W, NEW G \in [0..n -> Nat], G[0] = 0,
           \A i \in 1..n : W[i] \in Nat /\ G[i] = G[i - 1] + W[i],
           NEW S, SumsUp(S, W, n)
    PROVE  S[n] = G[n]
<1>. USE DEF SumsUp
<1>. DEFINE B == {i \in 0..n : S[i] # G[i]}
<1>1. SUFFICES ASSUME B # {} PROVE FALSE
  <2>1. n \in 0..n
    OBVIOUS
  <2>. QED
    BY <2>1
<1>2. B \in SUBSET Nat
  OBVIOUS
<1>3. PICK m \in B : \A y \in B : ~ (<<y, m>> \in OpToRel(<, Nat))
  BY Zenon, <1>1, <1>2, WFMin, NatLessThanWellFounded
<1>4. \A y \in B : ~(y < m)
  BY <1>2, <1>3 DEF OpToRel
<1>5. m \in 0..n /\ S[m] # G[m]
  BY Zenon, <1>3
<1>6. m # 0
  <2>1. S[0] = 0
    BY <1>1
  <2>. QED
    BY <1>5, <2>1
<1>7. m - 1 \in 0..n /\ m - 1 < m /\ m \in 1..n
  BY <1>5, <1>6
<1>8. S[m - 1] = G[m - 1]
  BY <1>4, <1>7
<1>9. S[m] = S[m - 1] + W[m]
  BY <1>5, <1>6
<1>. QED
  BY <1>5, <1>7, <1>8, <1>9

(* A thread that runs or waits for one that it has resumed has counted the *)
(* calls up to its last activation.                                        *)
LastOf(C, t, m) ==
    /\ m \in 0..Len(C) /\ (m # 0 => C[m].t = t)
    /\ \A i \in (m + 1)..Len(C) : C[i].t # t

LEMMA LiveCount ==
    ASSUME NEW T \in [Thread -> LuaState], NEW C \in Seq(Activation), NEW M,
           NEW F, NEW G, NEW H, Shape(T, C, M, F, G, H),
           NEW t \in Thread, t = MainThread \/ \E i \in 1..Len(C) : C[i].t = t,
           NEW m, LastOf(C, t, m)
    PROVE  T[t].nCcalls = G[m]
<1>1. PICK n \in Nat : n = Len(C)
  OBVIOUS
<1>2. m \in 0..n /\ (m # 0 => C[m].t = t) /\ \A i \in (m + 1)..n : C[i].t # t
  BY <1>1 DEF LastOf
<1>3. \A i \in 1..n : Placed(C, F, G, H, i)
  BY <1>1 DEF Shape, Measured
<1>4. CASE m = n
  <2>1. t = TopThread(C)
    <3>1. CASE n = 0
      BY <1>1, <3>1 DEF TopThread
    <3>2. CASE n # 0
      BY <1>1, <1>2, <1>4, <3>2 DEF TopThread
    <3>. QED
      BY <3>1, <3>2
  <2>2. TopAt(T, C, M, F, G, H, n, t)
    BY <1>1, <2>1, TopMeasure
  <2>. QED
    BY <1>4, <2>2 DEF TopAt
<1>5. CASE m < n
  <2>1. m \in Nat /\ m + 1 \in 1..n /\ m + 1 \in (m + 1)..n
    BY <1>2, <1>5
  <2>2. m # 0
    <3>1. SUFFICES ASSUME m = 0 PROVE FALSE
      OBVIOUS
    <3>2. 1 \in 1..n /\ Placed(C, F, G, H, 1)
      BY <1>3, <2>1, <3>1
    <3>3. C[1].t = MainThread
      BY <3>2 DEF Placed, Stacked
    <3>4. \A i \in 1..n : C[i].t # t
      BY <1>2, <3>1
    <3>. QED
      BY <1>1, <3>2, <3>3, <3>4
  <2>3. IsResume(C[m + 1])
    <3>1. PICK p \in 1..(m + 1) : Base(C, p, m + 1)
      BY <1>3, <2>1 DEF Placed, Based
    <3>2. C[m + 1].t # t /\ C[m].t = t
      BY <1>2, <2>1, <2>2
    <3>3. \A j \in p..(m + 1) : C[j].t = C[m + 1].t
      BY <3>1 DEF Base
    <3>4. p = m + 1
      <4>1. ASSUME p # m + 1 PROVE FALSE
        <5>1. m \in p..(m + 1)
          BY <2>1, <3>1, <4>1
        <5>. QED
          BY <3>2, <3>3, <5>1
      <4>. QED
        BY <4>1
    <3>. QED
      BY <2>1, <2>2, <3>1, <3>4 DEF Base
  <2>4. Waiting(T, C, F, G, H, m + 1)
    BY <1>1, <2>1, <2>3 DEF Shape, Counted
  <2>5. (m + 1) - 1 = m
    BY <2>1
  <2>6. At(T[C[m].t], m, F, G, H)
    BY <2>4, <2>5 DEF Waiting
  <2>. QED
    BY <1>2, <2>2, <2>6 DEF At
<1>. QED
  BY <1>1, <1>2, <1>4, <1>5

LEMMA SafeCalls == ASSUME Safe PROVE CallsCounted
<1>. DEFINE weight(i) ==
              CASE cstack[i].k = "call" -> 1
                [] cstack[i].k = "try" /\ cstack[i].kind = "resume" -> 1
                [] cstack[i].k = "parse" -> cstack[i].level
                [] OTHER -> 0
<1>1. ASSUME NEW t \in Thread, Live(t) PROVE th[t].nCcalls = Sum(Last(ActivationsOf(t)), weight)
  <2>1. PICK m : m = Last(ActivationsOf(t))
    OBVIOUS
  <2>2. PICK C \in Seq(Activation) : C = cstack
    BY SafeFacts
  <2>3. PICK n \in Nat : n = Len(C) /\ DOMAIN C = 1..n
    OBVIOUS
  <2>4. PICK F, G, H : Shape(th, C, mode, F, G, H)
    BY <2>2, SafeFacts
  <2>5. PICK A \in SUBSET (1..n) : A = ActivationsOf(t) /\ A = {i \in 1..n : C[i].t = t}
    BY <2>2, <2>3 DEF ActivationsOf
  <2>6. LastOf(C, t, m)
    <3>1. CASE A = {}
      <4>1. m = 0
        BY <2>1, <2>5, <3>1 DEF Last
      <4>. QED
        BY <2>3, <2>5, <3>1, <4>1 DEF LastOf
    <3>2. CASE A # {}
      <4>1. PICK x \in 1..n : x \in A /\ \A y \in A : y <= x
        <5>. DEFINE B == {n - x : x \in A}
        <5>1. B \in SUBSET Nat /\ B # {}
          BY <2>5, <3>2
        <5>2. PICK d \in B : \A y \in B : ~ (<<y, d>> \in OpToRel(<, Nat))
          BY Zenon, <5>1, WFMin, NatLessThanWellFounded
        <5>3. \A y \in B : ~(y < d)
          BY <5>1, <5>2 DEF OpToRel
        <5>4. PICK x \in A : d = n - x
          BY Zenon, <5>2
        <5>5. ASSUME NEW y \in A PROVE y <= x
          <6>1. n - y \in B /\ ~(n - y < d)
            BY <5>3
          <6>. QED
            BY <2>5, <5>4, <6>1
        <5>. QED
          BY <2>5, <5>4, <5>5
      <4>2. m = x
        <5>1. 0 \notin A /\ A \in SUBSET Nat /\ x \in Nat
          BY <2>5
        <5>. QED
          BY <2>1, <2>5, <4>1, <5>1, LastIs
      <4>3. C[x].t = t
        BY <2>5, <4>1
      <4>4. ASSUME NEW i \in (x + 1)..n PROVE C[i].t # t
        <5>1. i \in 1..n /\ ~(i <= x)
          BY <4>1
        <5>. QED
          BY <2>5, <4>1, <5>1
      <4>. QED
        BY <2>3, <4>1, <4>2, <4>3, <4>4 DEF LastOf
    <3>. QED
      BY <3>1, <3>2
  <2>7. th[t].nCcalls = G[m]
    <3>1. t = MainThread \/ \E i \in 1..Len(C) : C[i].t = t
      BY <1>1, <2>2, <2>3 DEF Live
    <3>. QED
      BY <2>2, <2>4, <2>6, <3>1, LiveCount, SafeFacts
  <2>8. m \in 0..n /\ m \in Nat
    BY <2>3, <2>6 DEF LastOf
  <2>9. PICK W : W = [i \in 1..m |-> CCallsOf(C[i])]
    OBVIOUS
  <2>10. PICK K : K = [i \in 0..m |-> G[i]]
    OBVIOUS
  <2>11. K \in [0..m -> Nat] /\ K[0] = 0 /\ K[m] = G[m]
    <3>1. G \in [0..n -> Nat] /\ G[0] = 0
      BY <2>3, <2>4 DEF Shape, Measured
    <3>2. 0 \in 0..m /\ m \in 0..m /\ \A i \in 0..m : i \in 0..n
      BY <2>8
    <3>. QED
      BY <2>10, <3>1, <3>2
  <2>12. ASSUME NEW i \in 1..m PROVE W[i] \in Nat /\ W[i] = weight(i) /\ K[i] = K[i - 1] + W[i]
    <3>1. i \in 1..n /\ i \in 0..m /\ i - 1 \in 0..m
      BY <2>8
    <3>2. C[i] \in Activation
      BY <2>3, <3>1
    <3>3. W[i] = CCallsOf(C[i]) /\ W[i] \in Nat
      BY <2>9, <3>2, ActivationFacts
    <3>4. CCallsOf(C[i]) = weight(i)
      BY <2>2 DEF CCallsOf, IsResume
    <3>5. G[i] = G[i - 1] + CCallsOf(C[i])
      BY <2>3, <2>4, <3>1 DEF Shape, Measured, Placed, LevelAt
    <3>. QED
      BY <2>10, <3>1, <3>3, <3>4, <3>5
  <2>13. Sum(m, weight) = (CHOOSE S : S = [i \in 0..m |-> IF i = 0 THEN 0 ELSE S[i - 1] + weight(i)])[m]
    BY Zenon DEF Sum
  <2>. HIDE DEF weight
  <2>14. K = [i \in 0..m |-> IF i = 0 THEN 0 ELSE K[i - 1] + weight(i)]
    <3>1. ASSUME NEW i \in 0..m PROVE K[i] = IF i = 0 THEN 0 ELSE K[i - 1] + weight(i)
      <4>1. i # 0 => i \in 1..m
        BY <2>8
      <4>. QED
        BY <2>11, <2>12, <4>1
    <3>. QED
      BY <2>11, <3>1
  <2>15. PICK S : /\ S = [i \in 0..m |-> IF i = 0 THEN 0 ELSE S[i - 1] + weight(i)]
                 /\ Sum(m, weight) = S[m]
    BY <2>13, <2>14
  <2>16. SumsUp(S, W, m)
    <3>1. \A i \in 0..m : i # 0 => W[i] = weight(i)
      <4>1. \A i \in 0..m : i # 0 => i \in 1..m
        BY <2>8
      <4>. QED
        BY <2>12, <4>1
    <3>. QED
      BY <2>15, <3>1 DEF SumsUp
  <2>17. S[m] = K[m]
    <3>1. \A i \in 1..m : W[i] \in Nat /\ K[i] = K[i - 1] + W[i]
      BY <2>12
    <3>2. m \in Nat /\ K \in [0..m -> Nat] /\ K[0] = 0
      BY <2>8, <2>11
    <3>. QED
      BY <2>16, <3>1, <3>2, SumIs
  <2>. QED
    BY <2>1, <2>7, <2>11, <2>15, <2>17
<1>2. ASSUME NEW t \in Thread PROVE th[t].nCcalls <= MaxCCalls + ErrorRoom
  BY SafeFacts DEF ThreadOK, CallsNow, Limit
<1>. QED
  BY Zenon, <1>1, <1>2 DEF CallsCounted

(* nCcalls of a thread that runs or waits counts the C calls of all the    *)
(* threads below it and its own, after any errors, and stays within        *)
(* LUAI_MAXCCALLS and the room for error handlers: the C stack is bounded. *)
THEOREM CallsAreCounted == Spec => []CallsCounted
BY Safety, SafeCalls, PTL
-----------------------------------------------------------------------------
(* A protected call stays on the stack until it ends.                      *)
StaysAt(C, D, j) == j \in 1..Len(D) /\ D[j] = C[j]

LEMMA AppendStays ==
    ASSUME NEW C \in Seq(Activation), NEW j \in 1..Len(C), NEW a
    PROVE  StaysAt(C, Append(C, a), j)
<1>1. C \in Seq(Activation \cup {a}) /\ a \in Activation \cup {a}
  OBVIOUS
<1>2. Len(Append(C, a)) = Len(C) + 1 /\ Len(C) \in Nat /\ Append(C, a)[j] = C[j]
  BY <1>1
<1>. QED
  BY <1>2 DEF StaysAt

LEMMA CutStays ==
    ASSUME NEW C \in Seq(Activation), NEW k \in 0..Len(C), NEW j \in 1..k
    PROVE  StaysAt(C, SubSeq(C, 1, k), j)
BY CutFacts DEF StaysAt

LEMMA MoveStays ==
    ASSUME NEW s, OK(s), NEW j \in 1..Len(s.cs), IsTry(s.cs[j]), ~IsResume(s.cs[j]),
           NEW r, Move(s, r)
    PROVE  StaysAt(s.cs, r.cs, j)
<1>1. PICK C \in Seq(Activation) : C = s.cs
  BY OwnFacts
<1>2. PICK n \in Nat : n = Len(C)
  OBVIOUS
<1>3. j \in 1..n /\ C # <<>> /\ TopOf(s) = C[n] /\ n # 0
  <2>1. j \in 1..n
    BY <1>1, <1>2
  <2>2. n # 0
    BY <2>1
  <2>. QED
    BY <1>1, <1>2, <2>1, <2>2 DEF TopOf
<1>4. PICK D : D = r.cs
  OBVIOUS
<1>. SUFFICES StaysAt(C, D, j)
  BY <1>1, <1>4
<1>5. CASE D = C
  BY <1>2, <1>3, <1>5 DEF StaysAt
<1>6. CASE \E a : D = Append(C, a)
  BY <1>2, <1>3, <1>6, AppendStays
<1>7. CASE (\E a : D = [C EXCEPT ![n] = a]) /\ ~IsTry(C[n])
  <2>1. PICK a : D = [C EXCEPT ![n] = a]
    BY <1>7
  <2>2. j # n
    BY <1>1, <1>7
  <2>3. D[j] = C[j] /\ Len(D) = n
    BY <1>2, <1>3, <2>1, <2>2
  <2>. QED
    BY <1>3, <2>3 DEF StaysAt
<1>8. CASE \E k \in 0..n : D = SubSeq(C, 1, k) /\ j <= k
  BY <1>2, <1>3, <1>8, CutStays
<1>9. CASE \/ r = s \/ ModeMove(s, r) \/ SizeMove(s, r) \/ OtherMove(s, r)
  <2>1. r.cs = s.cs
    BY Zenon, <1>9 DEF OK, State, ModeMove, SizeMove, OtherMove
  <2>. QED
    BY <1>1, <1>4, <1>5, <2>1
<1>10. CASE \/ CallMove(s, r) \/ EnterMove(s, r) \/ BeginMove(s, r) \/ PcallMove(s, r)
            \/ ResumeMove(s, r) \/ ContinueMove(s, r)
  <2>1. \E a : r.cs = Append(s.cs, a)
    <3>0. ASSUME NEW l, NEW N, NEW a, r = Sets(s, l, Append(s.cs, a), N)
          PROVE  \E b : r.cs = Append(s.cs, b)
      BY <3>0 DEF Sets
    <3>1. CASE CallMove(s, r)
      BY <3>0, <3>1 DEF CallMove
    <3>2. CASE EnterMove(s, r)
      BY <3>0, <3>2 DEF EnterMove
    <3>3. CASE BeginMove(s, r)
      BY <3>0, <3>3 DEF BeginMove
    <3>4. CASE PcallMove(s, r)
      BY <3>0, <3>4 DEF PcallMove
    <3>5. CASE ResumeMove(s, r)
      <4>1. PICK c, l, v : r = [th |-> v, cs |-> Append(s.cs, TryOf("resume", c, l)), mode |-> "run"]
        BY <3>5 DEF ResumeMove
      <4>. QED
        BY <4>1
    <3>6. CASE ContinueMove(s, r)
      BY <3>0, <3>6 DEF ContinueMove
    <3>. QED
      BY <1>10, <3>1, <3>2, <3>3, <3>4, <3>5, <3>6
  <2>. QED
    BY <1>1, <1>4, <1>6, <2>1
<1>11. CASE ReenterMove(s, r) \/ ThroughMove(s, r) \/ LevelMove(s, r)
  <2>1. ~IsTry(C[n])
    BY <1>3, <1>11 DEF ReenterMove, ThroughMove, LevelMove, IsTry
  <2>2. \E a : r.cs = [s.cs EXCEPT ![Len(s.cs)] = a]
    <3>0. ASSUME NEW l, NEW N, NEW a, r = Sets(s, l, [s.cs EXCEPT ![Len(s.cs)] = a], N)
          PROVE  \E b : r.cs = [s.cs EXCEPT ![Len(s.cs)] = b]
      BY <3>0 DEF Sets
    <3>1. CASE ReenterMove(s, r)
      BY <3>0, <3>1 DEF ReenterMove
    <3>2. CASE ThroughMove(s, r)
      <4>1. PICK a : r = [s EXCEPT !.cs = [s.cs EXCEPT ![Len(s.cs)] = a]]
        BY <1>2, <1>3, <3>2 DEF ThroughMove
      <4>. QED
        BY <4>1 DEF OK, State
    <3>3. CASE LevelMove(s, r)
      BY <3>0, <3>3 DEF LevelMove
    <3>. QED
      BY <1>11, <3>1, <3>2, <3>3
  <2>. QED
    BY <1>1, <1>2, <1>4, <1>7, <2>1, <2>2
<1>12. CASE LeaveMove(s, r)
  <2>1. ~IsTry(C[n]) /\ r.cs = SubSeq(s.cs, 1, Len(s.cs) - 1)
    BY <1>3, <1>12 DEF LeaveMove, IsTry, Sets
  <2>2. j # n
    BY <1>1, <2>1
  <2>3. n - 1 \in 0..n /\ j <= n - 1
    BY <1>3, <2>2
  <2>. QED
    BY <1>1, <1>2, <1>4, <1>8, <2>1, <2>3
<1>13. PICK F, G, H : Shape(s.th, C, s.mode, F, G, H) /\ Good(s.th, C, s.mode)
  BY <1>1 DEF OK, Good
<1>14. PICK t \in Thread : t = TopThread(s.cs) /\ t = C[n].t /\ Own(s) = s.th[t]
  BY <1>1, <1>2, <1>3, OwnFacts DEF Own
<1>15. CASE YieldMove(s, r)
  <2>1. /\ C[n].k = "cfun" /\ s.th[t].nCcalls <= s.th[t].baseCcalls
        /\ r.cs = SubSeq(s.cs, 1, Len(s.cs) - 2)
    BY <1>3, <1>14, <1>15 DEF YieldMove, Sets
  <2>2. Yields(C, n, t)
    BY <1>2, <1>3, <1>13, <1>14, <2>1, YieldPlace
  <2>3. n > 2 /\ C[n - 1].k = "exec"
    BY <2>2 DEF Yields
  <2>4. j # n /\ j # n - 1
    BY <1>1, <2>1, <2>3 DEF IsTry
  <2>5. n - 2 \in 0..n /\ j <= n - 2
    BY <1>3, <2>3, <2>4
  <2>. QED
    BY <1>1, <1>2, <1>4, <1>8, <2>1, <2>5
<1>16. CASE EndResumeMove(s, r)
  <2>1. PICK e : e = s.th[t].errorJmp
    OBVIOUS
  <2>2. IsResume(C[e]) /\ r.cs = SubSeq(s.cs, 1, e - 1)
    <3>1. PICK l, N : IsResume(s.cs[Own(s).errorJmp])
                      /\ r = Sets(s, l, SubSeq(s.cs, 1, Own(s).errorJmp - 1), N)
      BY <1>16 DEF EndResumeMove
    <3>. QED
      BY Zenon, <1>1, <1>14, <2>1, <3>1 DEF Sets
  <2>3. TopReady(s.th, C, s.mode, n, t, e)
    <3>1. n \in Nat \ {0} /\ s.th \in [Thread -> LuaState]
      BY <1>3, OwnFacts
    <3>. QED
      BY <1>2, <1>13, <1>14, <2>1, <3>1, TopFacts
  <2>4. e \in 1..n /\ \A i \in (e + 1)..n : ~IsTry(C[i])
    BY <2>3 DEF TopReady
  <2>5. j # e
    BY <1>1, <2>2
  <2>6. j \notin (e + 1)..n
    BY <1>1, <2>4
  <2>7. e - 1 \in 0..n /\ j <= e - 1
    BY <1>3, <2>4, <2>5, <2>6
  <2>. QED
    BY <1>1, <1>4, <1>8, <2>2, <2>7
<1>. QED
  BY <1>9, <1>10, <1>11, <1>12, <1>15, <1>16 DEF Move

LEMMA MovesStay ==
    ASSUME NEW s, Fine(s), NEW j \in 1..Len(s.cs), IsTry(s.cs[j]), ~IsResume(s.cs[j]),
           NEW r, Moves(s, r)
    PROVE  j <= Len(r.cs)
<1>. DEFINE I == {x \in State : Fine(x) /\ StaysAt(s.cs, x.cs, j)}
<1>1. s \in I
  BY DEF Fine, OK, StaysAt
<1>2. Closed(I)
  <2>1. ASSUME NEW x \in I, NEW y, Move(x, y) PROVE y \in I
    <3>1. Fine(y)
      BY <2>1, MoveKeepsRoom
    <3>2. OK(x) /\ j \in 1..Len(x.cs) /\ x.cs[j] = s.cs[j]
      BY DEF Fine, StaysAt
    <3>3. StaysAt(x.cs, y.cs, j)
      BY <2>1, <3>2, MoveStays
    <3>4. StaysAt(s.cs, y.cs, j)
      BY <3>2, <3>3 DEF StaysAt
    <3>. QED
      BY <3>1, <3>4 DEF Fine, OK
  <2>. QED
    BY <2>1 DEF Closed
<1>3. r \in I
  BY <1>1, <1>2 DEF Moves
<1>. QED
  BY <1>3 DEF StaysAt

(* The thread of every protected call that r has no longer is in r as the  *)
(* call found it.                                                          *)
LeftAsFound(s, r) ==
    \A j \in 1..Len(s.cs) :
       IsTry(s.cs[j]) /\ s.cs[j].kind = "pcall" /\ j > Len(r.cs) =>
          /\ Len(r.th[s.cs[j].t].ci) = s.cs[j].old_ci
          /\ r.th[s.cs[j].t].nCcalls = s.cs[j].oldnCcalls
          /\ r.th[s.cs[j].t].allowhook = s.cs[j].old_allowhooks
          /\ r.th[s.cs[j].t].errfunc = s.cs[j].old_errfunc
          /\ r.th[s.cs[j].t].errorJmp = s.cs[j].previous

LEMMA EndPcallRestores ==
    ASSUME NEW s, OK(s), NEW r, EndPcallMove(s, r)
    PROVE  LeftAsFound(s, r)
<1>1. PICK o \in LuaState : o = Own(s)
  BY OwnFacts
<1>2. PICK t \in Thread : t = TopThread(s.cs)
  BY OwnFacts
<1>3. PICK n \in Nat \ {0} : n = Len(s.cs)
  BY OwnFacts DEF EndPcallMove
<1>4. PICK e \in Nat : e = o.errorJmp
  BY DEF LuaState
<1>5. PICK z \in Nat :
         r = Sets(s, [Own(s) EXCEPT !.ci = SubSeq(@, 1, s.cs[e].old_ci),
                                    !.nCcalls = s.cs[e].oldnCcalls,
                                    !.allowhook = s.cs[e].old_allowhooks,
                                    !.errfunc = s.cs[e].old_errfunc,
                                    !.errorJmp = s.cs[e].previous, !.size_ci = z],
                  SubSeq(s.cs, 1, e - 1), "run")
  BY Zenon, <1>1, <1>4 DEF EndPcallMove
<1>6. o = s.th[t] /\ t = s.cs[n].t /\ s.cs[e].kind = "pcall"
  BY Zenon, <1>1, <1>2, <1>3, <1>4, OwnFacts DEF EndPcallMove, Own, TopOf
<1>7. PcallFacts(s.th, s.cs, n, t, e)
  BY <1>3, <1>4, <1>6, EndOfPcall DEF OK
<1>8. PICK a \in Try : a = s.cs[e] /\ a.old_ci <= Len(o.ci) /\ a.t = t /\ e \in 1..n
  BY <1>6, <1>7 DEF PcallFacts
<1>. DEFINE l == [o EXCEPT !.ci = SubSeq(o.ci, 1, a.old_ci),
                           !.nCcalls = a.oldnCcalls,
                           !.allowhook = a.old_allowhooks,
                           !.errfunc = a.old_errfunc,
                           !.errorJmp = a.previous, !.size_ci = z]
<1>9. /\ Len(l.ci) = a.old_ci /\ l.nCcalls = a.oldnCcalls /\ l.errfunc = a.old_errfunc
      /\ l.allowhook = a.old_allowhooks /\ l.errorJmp = a.previous
  <2>1. a.old_ci \in 0..Len(o.ci)
    BY <1>8 DEF Try, LuaState
  <2>2. Len(SubSeq(o.ci, 1, a.old_ci)) = a.old_ci
    BY <2>1, CutFacts DEF LuaState
  <2>. QED
    BY <2>2 DEF LuaState
<1>10. r = Sets(s, l, SubSeq(s.cs, 1, e - 1), "run")
  BY <1>1, <1>5, <1>8
<1>. HIDE DEF l
<1>11. r.th[t] = l /\ r.cs = SubSeq(s.cs, 1, e - 1)
  BY <1>2, <1>10, OwnFacts DEF Sets
<1>12. Len(r.cs) = e - 1
  <2>1. e - 1 \in 0..Len(s.cs)
    BY <1>3, <1>8
  <2>. QED
    BY <1>11, <2>1, OwnFacts, CutFacts
<1>13. \A j \in (e + 1)..n : ~IsTry(s.cs[j])
  <2>1. PICK F, G, H : Shape(s.th, s.cs, s.mode, F, G, H)
    BY DEF OK, Good
  <2>2. TopReady(s.th, s.cs, s.mode, n, t, e)
    BY <1>3, <1>4, <1>6, <2>1, OwnFacts, TopFacts
  <2>. QED
    BY <2>2 DEF TopReady
<1>14. ASSUME NEW j \in 1..Len(s.cs), IsTry(s.cs[j]), j > Len(r.cs)
       PROVE  j = e
  BY <1>3, <1>8, <1>12, <1>13, <1>14
<1>. QED
  BY <1>8, <1>9, <1>11, <1>14 DEF LeftAsFound

LEMMA ThroughChangesTop ==
    ASSUME NEW x, OK(x), NEW r, ThroughMove(x, r)
    PROVE  r.th = x.th /\ Len(r.cs) = Len(x.cs)
<1>1. PICK a : r = [x EXCEPT !.cs = [x.cs EXCEPT ![Len(x.cs)] = a]]
  BY DEF ThroughMove
<1>2. x.cs \in Seq(Activation) /\ r.th = x.th /\ r.cs = [x.cs EXCEPT ![Len(x.cs)] = a]
  BY <1>1 DEF OK, State
<1>. QED
  BY <1>2

LEMMA EndsRestores ==
    ASSUME NEW s, Fine(s), NEW r, EndsPcall(s, r)
    PROVE  LeftAsFound(s, r)
<1>1. PICK x : EndPcallMove(s, x) /\ (r = x \/ ThroughMove(x, r))
  BY DEF EndsPcall
<1>2. OK(x) /\ LeftAsFound(s, x)
  BY <1>1, EndPcallRestores, MoveKeepsRoom DEF Fine
<1>3. r.th = x.th /\ Len(r.cs) = Len(x.cs)
  BY <1>1, <1>2, ThroughChangesTop
<1>. QED
  BY <1>2, <1>3 DEF LeftAsFound

(* lua_close begins when nothing is protected but lua_close itself.        *)
LEMMA CloseRestores ==
    ASSUME NEW s, OK(s), NEW r, CloseMove(s, r)
    PROVE  LeftAsFound(s, r)
<1>1. /\ \A j \in 1..Len(s.cs) : s.cs[j].t = MainThread
      /\ s.cs = <<>> \/ (Own(s).errorJmp = 1 /\ s.cs[1].kind = "close")
  BY DEF CloseMove
<1>2. CASE s.cs = <<>>
  BY <1>2, OwnFacts DEF LeftAsFound
<1>3. CASE s.cs # <<>>
  <2>1. PICK n \in Nat \ {0} : n = Len(s.cs)
    BY <1>3, OwnFacts
  <2>2. PICK t \in Thread : t = s.cs[n].t /\ t = TopThread(s.cs)
    BY <1>3, <2>1, OwnFacts DEF TopOf
  <2>3. s.th[t].errorJmp = 1
    BY <1>1, <1>3, <2>2 DEF Own
  <2>4. PICK F, G, H : Shape(s.th, s.cs, s.mode, F, G, H)
    BY DEF OK, Good
  <2>5. TopReady(s.th, s.cs, s.mode, n, t, 1)
    BY <2>1, <2>2, <2>3, <2>4, OwnFacts, TopFacts
  <2>6. ASSUME NEW j \in 1..n, IsTry(s.cs[j]) PROVE j = 1
    BY <2>1, <2>5, <2>6 DEF TopReady
  <2>. QED
    BY <1>1, <1>3, <2>1, <2>6 DEF LeftAsFound
<1>. QED
  BY <1>2, <1>3

LEMMA ClosedRestores ==
    ASSUME NEW s, OK(s), NEW r, ClosedMove(s, r)
    PROVE  LeftAsFound(s, r)
<1>1. PICK n \in Nat \ {0} : n = Len(s.cs)
  BY OwnFacts DEF ClosedMove, Acts
<1>2. s.cs[n].kind = "close" /\ r.cs = SubSeq(s.cs, 1, n - 1)
  BY <1>1 DEF ClosedMove, TopOf, Sets
<1>3. Len(r.cs) = n - 1
  <2>1. n - 1 \in 0..Len(s.cs)
    BY <1>1
  <2>. QED
    BY <1>2, <2>1, OwnFacts, CutFacts
<1>4. ASSUME NEW j \in 1..Len(s.cs), j > Len(r.cs) PROVE j = n
  BY <1>1, <1>3, <1>4
<1>. QED
  BY <1>2, <1>4 DEF LeftAsFound

LEMMA StepRestores ==
    ASSUME Fine(Now), [Next]_vars
    PROVE  LeftAsFound(Now, Then)
<1>1. /\ Now.cs = cstack /\ Now.th = th /\ Then.cs = cstack' /\ Then.th = th'
      /\ OK(Now)
  BY DEF Now, Then, Fine
<1>2. ASSUME Moves(Now, Then) PROVE LeftAsFound(Now, Then)
  <2>1. ASSUME NEW j \in 1..Len(Now.cs), IsTry(Now.cs[j]), Now.cs[j].kind = "pcall",
               j > Len(Then.cs)
        PROVE  FALSE
    <3>1. ~IsResume(Now.cs[j])
      BY <2>1 DEF IsResume
    <3>2. j <= Len(Then.cs)
      BY <1>2, <2>1, <3>1, MovesStay
    <3>3. Fine(Then)
      BY <1>2, MovesKeep
    <3>4. Len(Then.cs) \in Nat
      BY <3>3, OwnFacts DEF Fine
    <3>. QED
      BY <2>1, <3>2, <3>4
  <2>. QED
    BY <2>1 DEF LeftAsFound
<1>3. CASE Next
  BY <1>1, <1>2, <1>3, NextMoves, EndsRestores, CloseRestores, ClosedRestores DEF Closes
<1>4. CASE UNCHANGED vars
  <2>1. cstack' = cstack /\ Len(cstack) \in Nat
    BY <1>1, <1>4, OwnFacts DEF vars
  <2>. QED
    BY <1>1, <2>1 DEF LeftAsFound
<1>. QED
  BY <1>3, <1>4

(* Whatever runs inside it, whatever error leaves it and through however   *)
(* many calls, a protected call (luaD_pcall) ends with the thread as it    *)
(* was at its start: the frames, the C calls counted, the hooks, the       *)
(* error function and the handler.                                         *)
THEOREM ProtectedCallsRestore == Spec => ProtectedCallRestores
<1>. DEFINE Back == \A j \in DOMAIN cstack :
                       LET a == cstack[j]
                       IN a.k = "try" /\ j > Len(cstack') /\ a.kind = "pcall" =>
                            /\ Len(th'[a.t].ci) = a.old_ci
                            /\ th'[a.t].nCcalls = a.oldnCcalls
                            /\ th'[a.t].allowhook = a.old_allowhooks
                            /\ th'[a.t].errfunc = a.old_errfunc
                            /\ th'[a.t].errorJmp = a.previous
<1>1. Fine(Now) /\ [Next]_vars => [Back]_vars
  <2>. SUFFICES ASSUME Fine(Now), [Next]_vars
                PROVE  Back
    OBVIOUS
  <2>1. LeftAsFound(Now, Then)
    BY StepRestores
  <2>2. /\ Now.cs = cstack /\ Then.cs = cstack' /\ Then.th = th'
        /\ cstack \in Seq(Activation)
    BY OwnFacts DEF Now, Then, Fine
  <2>3. DOMAIN cstack = 1..Len(cstack)
    BY <2>2
  <2>. QED
    BY <2>1, <2>2, <2>3 DEF LeftAsFound, IsTry
<1>. QED
  BY StackMeasured, <1>1, PTL DEF Spec, ProtectedCallRestores

-----------------------------------------------------------------------------
(* ErrErrInHandler.  luaD_call reports an overflow when the count gets to  *)
(* LUAI_MAXCCALLS, and "error in error handling" for the calls of the      *)
(* handlers above.  So wherever code runs with that many C calls, either   *)
(* a handler is below it or is about to be called, or the limit was passed *)
(* in another way: by the parser, or by a coroutine that began there.      *)

(* g[i] is the number of C calls that are counted up to i.                 *)
Sums(C, g) ==
    /\ g \in [0..Len(C) -> Nat] /\ g[0] = 0
    /\ \A i \in 1..Len(C) : g[i] = g[i - 1] + CCallsOf(C[i])

(* What lets the code above go on at the limit.                            *)
Excuse(a, n) ==
    \/ a.k = "errormsg"
    \/ a.k = "parse" /\ a.level > 0
    \/ IsResume(a) /\ n = MaxCCalls

Excused(C, g, i) == \E j \in 1..i : Excuse(C[j], g[j])

(* An error was raised at i, and its handler is called there, if there is  *)
(* one.                                                                    *)
Pending(C, M, i) == IF i < Len(C) THEN C[i + 1].k = "errormsg" ELSE M # "run"

Explained(C, M, g, i) ==
    /\ IsResume(C[i]) => g[i] <= MaxCCalls
    /\ g[i] >= MaxCCalls => Excused(C, g, i) \/ Pending(C, M, i)

Excuses(C, M) == \A g : Sums(C, g) => \A i \in 1..Len(C) : Explained(C, M, g, i)

(* What LUA_ERRERR is for.                                                 *)
Reason(s) ==
    \/ \E i \in 1..Len(s.cs) : s.cs[i].k = "errormsg"
    \/ Own(s).errfunc > 0
    \/ Own(s).baseCcalls = MaxCCalls
    \/ \E i \in 1..Len(s.cs) : s.cs[i].k = "parse" /\ s.cs[i].level > 0
    \/ Len(Own(s).ci) >= MaxCalls

Blamed(s) == Excuses(s.cs, s.mode) /\ (s.mode = "errerr" => Reason(s))

(* The sums of two stacks are the same as far as the stacks count alike.   *)
LEMMA SameSums ==
    ASSUME NEW C, NEW D, NEW g, NEW h, Sums(C, g), Sums(D, h),
           Len(C) \in Nat, Len(D) \in Nat,
           NEW k \in Nat, k <= Len(C), k <= Len(D), \A j \in 1..k : D[j] = C[j]
    PROVE  \A i \in 0..k : h[i] = g[i]
<1>. DEFINE B == {i \in 0..k : h[i] # g[i]}
<1>1. SUFFICES ASSUME B # {} PROVE FALSE
  OBVIOUS
<1>2. B \in SUBSET Nat
  OBVIOUS
<1>3. PICK m \in B : \A y \in B : ~ (<<y, m>> \in OpToRel(<, Nat))
  BY <1>1, <1>2, WFMin, NatLessThanWellFounded
<1>4. \A y \in B : ~(y < m)
  BY <1>2, <1>3 DEF OpToRel
<1>5. m \in 0..k /\ h[m] # g[m]
  BY <1>3
<1>6. m # 0
  BY <1>5 DEF Sums
<1>7. m - 1 \in 0..k /\ m - 1 < m /\ m \in 1..k /\ m \in 1..Len(C) /\ m \in 1..Len(D)
  BY <1>5, <1>6
<1>8. h[m - 1] = g[m - 1]
  BY <1>4, <1>7
<1>9. h[m] = h[m - 1] + CCallsOf(D[m]) /\ g[m] = g[m - 1] + CCallsOf(C[m]) /\ D[m] = C[m]
  BY <1>7 DEF Sums
<1>. QED
  BY <1>5, <1>8, <1>9

(* The count of C calls as CallsInv measures it.                           *)
Tallies(s, g) ==
    /\ Sums(s.cs, g) /\ Own(s).nCcalls = g[Len(s.cs)]
    /\ \A j \in 1..Len(s.cs) : IsResume(s.cs[j]) => s.th[s.cs[j].t].baseCcalls = g[j]
    /\ \A i \in 1..Len(s.cs) : \A j \in 0..i : g[j] <= g[i]
    /\ \A i \in 1..Len(s.cs) : Based(s.cs, i)

LEMMA OKTallies ==
    ASSUME NEW s, OK(s)
    PROVE  \E g : Tallies(s, g)
<1>1. PICK F, G, H : Shape(s.th, s.cs, s.mode, F, G, H)
  BY DEF OK, Good
<1>2. Sums(s.cs, G)
  BY <1>1 DEF Shape, Measured, Placed, LevelAt, Sums
<1>3. Own(s).nCcalls = G[Len(s.cs)]
  BY <1>1 DEF Shape, Counted, Fits, At, Own
<1>4. \A j \in 1..Len(s.cs) : IsResume(s.cs[j]) => s.th[s.cs[j].t].baseCcalls = G[j]
  BY <1>1 DEF Shape, Counted, Waiting
<1>5. \A i \in 1..Len(s.cs) : Based(s.cs, i) /\ \A j \in 0..i : G[j] <= G[i]
  BY <1>1 DEF Shape, Measured, Placed, Rises
<1>6. Tallies(s, G)
  BY <1>2, <1>3, <1>4, <1>5 DEF Tallies
<1>. QED
  BY <1>6

(* The numbers in sums.                                                    *)
LEMMA SumsFacts ==
    ASSUME NEW C \in Seq(Activation), NEW g, Sums(C, g)
    PROVE  /\ g[0] = 0 /\ Len(C) \in Nat
           /\ \A i \in 0..Len(C) : g[i] \in Nat
           /\ \A i \in 1..Len(C) : g[i] = g[i - 1] + CCallsOf(C[i])
<1>1. g \in [0..Len(C) -> Nat]
  BY DEF Sums
<1>2. g[0] = 0 /\ \A i \in 1..Len(C) : g[i] = g[i - 1] + CCallsOf(C[i])
  BY DEF Sums
<1>3. Len(C) \in Nat
  OBVIOUS
<1>4. \A i \in 0..Len(C) : g[i] \in Nat
  BY <1>1
<1>. QED
  BY <1>2, <1>3, <1>4

(* Places that look the same below are explained alike.                    *)
LEMMA ExplainedAlike ==
    ASSUME NEW C, NEW D, NEW M, NEW N, NEW g, NEW h, NEW i \in Nat \ {0},
           \A j \in 1..i : D[j] = C[j] /\ h[j] = g[j],
           Pending(C, M, i) => Pending(D, N, i) \/ Excused(D, h, i),
           Explained(C, M, g, i)
    PROVE  Explained(D, N, h, i)
<1>1. D[i] = C[i] /\ h[i] = g[i]
  OBVIOUS
<1>2. Excused(C, g, i) => Excused(D, h, i)
  BY DEF Excused
<1>. QED
  BY <1>1, <1>2 DEF Explained

-----------------------------------------------------------------------------
(* How the stack changes.                                                  *)

(* Something is put on the stack.                                          *)
LEMMA PushBlamed ==
    ASSUME NEW s, OK(s), Blamed(s), NEW a \in Activation, NEW N \in Mode,
           s.mode = "run" \/ a.k = "errormsg",
           IsResume(a) => Own(s).nCcalls < MaxCCalls,
           CCallsOf(a) = 0 \/ (CCallsOf(a) = 1 /\ (N = "run" /\ ~IsResume(a) =>
                                                     Own(s).nCcalls + 1 # MaxCCalls))
    PROVE  Excuses(Append(s.cs, a), N)
<1>1. PICK C \in Seq(Activation) : C = s.cs
  BY OwnFacts
<1>2. PICK n \in Nat : n = Len(C)
  OBVIOUS
<1>3. PICK D \in Seq(Activation) : D = Append(C, a)
  BY AppendFacts
<1>4. Len(D) = n + 1 /\ D[n + 1] = a /\ \A j \in 1..n : D[j] = C[j]
  BY <1>2, <1>3, AppendFacts
<1>5. PICK g : Tallies(s, g)
  BY OKTallies
<1>6. Sums(C, g) /\ Own(s).nCcalls = g[n]
  BY <1>1, <1>2, <1>5 DEF Tallies
<1>7. \A i \in 1..n : Explained(C, s.mode, g, i)
  BY <1>1, <1>2, <1>6 DEF Blamed, Excuses
<1>8. SUFFICES ASSUME NEW h, Sums(D, h), NEW i \in 1..(n + 1)
               PROVE  Explained(D, N, h, i)
  BY <1>1, <1>3, <1>4 DEF Excuses
<1>9. \A j \in 0..n : h[j] = g[j]
  BY <1>2, <1>4, <1>6, <1>8, SameSums
<1>10. h[n + 1] = g[n] + CCallsOf(a) /\ g[n] \in Nat /\ g[0] = 0
  <2>1. h[n + 1] = h[n] + CCallsOf(a)
    <3>1. n + 1 \in 1..Len(D) /\ (n + 1) - 1 = n
      BY <1>4
    <3>. QED
      BY <1>4, <1>8, <3>1, SumsFacts
  <2>2. g[n] \in Nat /\ g[0] = 0 /\ n \in 0..n
    BY <1>2, <1>6, SumsFacts
  <2>. QED
    BY <1>9, <2>1, <2>2
<1>11. CASE i <= n
  <2>1. i \in Nat \ {0} /\ i \in 1..n /\ \A j \in 1..i : D[j] = C[j] /\ h[j] = g[j]
    BY <1>4, <1>9, <1>11
  <2>2. ASSUME Pending(C, s.mode, i) PROVE Pending(D, N, i)
    <3>1. CASE i < n
      BY <1>2, <1>4, <2>2, <3>1 DEF Pending
    <3>2. CASE i = n
      BY <1>2, <1>4, <2>2, <3>2 DEF Pending
    <3>. QED
      BY <1>11, <3>1, <3>2
  <2>3. Explained(C, s.mode, g, i)
    BY <1>7, <2>1
  <2>. QED
    BY <2>1, <2>2, <2>3, ExplainedAlike
<1>12. CASE i = n + 1
  <2>1. ASSUME IsResume(a) PROVE h[i] <= MaxCCalls /\ (h[i] = MaxCCalls => Excused(D, h, i))
    <3>1. CCallsOf(a) = 1
      BY <2>1 DEF CCallsOf
    <3>2. h[i] <= MaxCCalls
      BY <1>6, <1>10, <1>12, <2>1, <3>1, CallsAssumption
    <3>. QED
      BY <1>4, <1>12, <2>1, <3>2 DEF Excused, Excuse
  <2>2. ASSUME N = "run", h[i] >= MaxCCalls, ~IsResume(a) PROVE Excused(D, h, i)
    <3>1. CASE a.k = "errormsg"
      BY <1>4, <1>12, <3>1 DEF Excused, Excuse
    <3>2. CASE a.k # "errormsg"
      <4>1. g[n] >= MaxCCalls
        <5>1. CASE CCallsOf(a) = 0
          BY <1>10, <1>12, <2>2, <5>1
        <5>2. CASE CCallsOf(a) = 1
          <6>1. g[n] + 1 # MaxCCalls /\ g[n] + 1 >= MaxCCalls
            BY <1>6, <1>10, <1>12, <2>2, <5>2
          <6>. QED
            BY <1>10, <6>1, CallsAssumption
        <5>. QED
          BY <5>1, <5>2
      <4>2. n \in 1..n
        BY <1>10, <4>1, CallsAssumption
      <4>3. ~Pending(C, s.mode, n)
        BY <1>2, <3>2 DEF Pending
      <4>4. Excused(C, g, n)
        BY <1>7, <4>1, <4>2, <4>3 DEF Explained
      <4>5. PICK j \in 1..n : Excuse(C[j], g[j])
        BY <4>4 DEF Excused
      <4>6. j \in 1..i /\ D[j] = C[j] /\ h[j] = g[j]
        BY <1>4, <1>9, <1>12
      <4>. QED
        BY <4>5, <4>6 DEF Excused
    <3>. QED
      BY <3>1, <3>2
  <2>3. N # "run" => Pending(D, N, i)
    BY <1>4, <1>12 DEF Pending
  <2>4. D[i] = a
    BY <1>4, <1>12
  <2>5. h[i] \in Nat
    BY <1>4, <1>8, SumsFacts
  <2>. QED
    BY <2>1, <2>2, <2>3, <2>4, <2>5, CallsAssumption DEF Explained
<1>. QED
  BY <1>8, <1>11, <1>12

(* What is on top changes, but not its kind.                               *)
LEMMA TopBlamed ==
    ASSUME NEW s, OK(s), Blamed(s), Acts(s), s.mode = "run", NEW N \in Mode,
           NEW b \in Activation, b.k = TopOf(s).k, b.k # "errormsg", ~IsTry(b),
           CCallsOf(b) = 0 \/ (b.k = "parse" /\ b.level > 0)
    PROVE  Excuses([s.cs EXCEPT ![Len(s.cs)] = b], N)
<1>1. PICK C \in Seq(Activation) : C = s.cs
  BY OwnFacts
<1>2. PICK n \in Nat \ {0} : n = Len(C)
  BY <1>1, OwnFacts DEF Acts
<1>3. PICK k \in Nat : n = k + 1 /\ n - 1 = k
  <2>1. n - 1 \in Nat /\ n = (n - 1) + 1
    OBVIOUS
  <2>. QED
    BY <2>1
<1>4. PICK D \in Seq(Activation) : /\ D = [C EXCEPT ![n] = b] /\ Len(D) = n /\ D[n] = b
                                  /\ \A j \in 1..k : D[j] = C[j]
  <2>1. /\ [C EXCEPT ![n] = b] \in Seq(Activation) /\ Len([C EXCEPT ![n] = b]) = n
        /\ [C EXCEPT ![n] = b][n] = b
    BY <1>2
  <2>2. \A j \in 1..k : [C EXCEPT ![n] = b][j] = C[j]
    BY <1>2, <1>3
  <2>. QED
    BY <2>1, <2>2
<1>5. C[n].k = b.k
  BY <1>1, <1>2 DEF TopOf
<1>6. PICK g : Tallies(s, g)
  BY OKTallies
<1>7. Sums(C, g) /\ \A i \in 1..n : Explained(C, "run", g, i)
  BY <1>1, <1>2, <1>6 DEF Tallies, Blamed, Excuses
<1>8. SUFFICES ASSUME NEW h, Sums(D, h), NEW i \in 1..n
               PROVE  Explained(D, N, h, i)
  BY <1>1, <1>2, <1>4 DEF Excuses
<1>9. \A j \in 0..k : h[j] = g[j]
  <2>1. Len(C) \in Nat /\ Len(D) \in Nat /\ k <= Len(C) /\ k <= Len(D)
    BY <1>2, <1>3, <1>4
  <2>2. \A j \in 1..k : D[j] = C[j]
    BY <1>4
  <2>. QED
    BY <1>7, <1>8, <2>1, <2>2, SameSums
<1>10. ASSUME NEW j \in 1..k PROVE Pending(C, "run", j) => Pending(D, N, j)
  <2>1. j < n /\ j + 1 \in 1..n /\ (j + 1 \in 1..k \/ j + 1 = n)
    BY <1>3
  <2>2. C[j + 1].k = D[j + 1].k
    BY <1>4, <1>5, <2>1
  <2>. QED
    BY <1>2, <1>4, <2>1, <2>2 DEF Pending
<1>11. CASE i <= k
  <2>1. i \in Nat \ {0} /\ i \in 1..k /\ \A j \in 1..i : D[j] = C[j] /\ h[j] = g[j]
    BY <1>4, <1>9, <1>11
  <2>2. Explained(C, "run", g, i)
    BY <1>7
  <2>. QED
    BY <1>10, <2>1, <2>2, ExplainedAlike
<1>12. CASE i = n
  <2>1. ~IsResume(D[i]) /\ D[i] = b
    BY <1>4, <1>12 DEF IsTry, IsResume
  <2>2. CASE b.k = "parse" /\ b.level > 0
    <3>1. Excused(D, h, i)
      BY <2>1, <2>2 DEF Excused, Excuse
    <3>. QED
      BY <2>1, <3>1 DEF Explained
  <2>3. CASE CCallsOf(b) = 0
    <3>1. h[n] = g[k] /\ g[k] \in Nat /\ g[0] = 0
      <4>1. h[n] = h[k] + CCallsOf(b)
        <5>1. n \in 1..Len(D)
          BY <1>4
        <5>2. \A j \in 1..Len(D) : h[j] = h[j - 1] + CCallsOf(D[j])
          BY <1>8, SumsFacts
        <5>3. h[n] = h[n - 1] + CCallsOf(D[n])
          BY <5>1, <5>2
        <5>. QED
          BY <1>3, <1>4, <5>3
      <4>2. g[k] \in Nat /\ g[0] = 0 /\ k \in 0..k
        <5>1. k \in 0..Len(C)
          BY <1>2, <1>3
        <5>2. g[0] = 0 /\ \A j \in 0..Len(C) : g[j] \in Nat
          BY <1>7, SumsFacts
        <5>. QED
          BY <5>1, <5>2
      <4>. QED
        BY <1>9, <2>3, <4>1, <4>2
    <3>2. ASSUME h[n] >= MaxCCalls PROVE Excused(D, h, i)
      <4>1. k \in 1..k /\ k \in 1..n
        BY <1>3, <3>1, <3>2, CallsAssumption
      <4>2. Explained(C, "run", g, k)
        BY <1>7, <4>1
      <4>3. ~Pending(C, "run", k)
        BY <1>2, <1>3, <1>5 DEF Pending
      <4>4. Excused(C, g, k)
        BY <3>1, <3>2, <4>2, <4>3 DEF Explained
      <4>5. PICK j \in 1..k : Excuse(C[j], g[j])
        BY <4>4 DEF Excused
      <4>6. j \in 1..i /\ D[j] = C[j] /\ h[j] = g[j]
        BY <1>3, <1>4, <1>9, <1>12
      <4>. QED
        BY <4>5, <4>6 DEF Excused
    <3>. QED
      BY <1>12, <2>1, <3>2 DEF Explained
  <2>. QED
    BY <2>2, <2>3
<1>. QED
  BY <1>3, <1>8, <1>11, <1>12

(* The stack is cut off, but not below an error handler.                   *)
LEMMA CutBlamed ==
    ASSUME NEW s, OK(s), Blamed(s), NEW N,
           NEW k \in Nat, k < Len(s.cs), s.cs[k + 1].k # "errormsg"
    PROVE  Excuses(SubSeq(s.cs, 1, k), N)
<1>1. PICK C \in Seq(Activation) : C = s.cs
  BY OwnFacts
<1>2. PICK n \in Nat : n = Len(C) /\ k < n
  BY <1>1
<1>3. PICK D \in Seq(Activation) : /\ D = SubSeq(C, 1, k) /\ Len(D) = k
                                  /\ \A j \in 1..k : D[j] = C[j]
  <2>1. k \in 0..Len(C)
    BY <1>2
  <2>2. /\ SubSeq(C, 1, k) \in Seq(Activation) /\ Len(SubSeq(C, 1, k)) = k
        /\ \A j \in 1..k : SubSeq(C, 1, k)[j] = C[j]
    BY <2>1, CutFacts
  <2>. QED
    BY <2>2
<1>4. PICK g : Tallies(s, g)
  BY OKTallies
<1>5. Sums(C, g) /\ \A i \in 1..n : Explained(C, s.mode, g, i)
  BY <1>1, <1>2, <1>4 DEF Tallies, Blamed, Excuses
<1>6. SUFFICES ASSUME NEW h, Sums(D, h), NEW i \in 1..k
               PROVE  Explained(D, N, h, i)
  BY <1>1, <1>3 DEF Excuses
<1>7. \A j \in 0..k : h[j] = g[j]
  <2>1. Len(C) \in Nat /\ Len(D) \in Nat /\ k <= Len(C) /\ k <= Len(D)
    BY <1>2, <1>3
  <2>2. \A j \in 1..k : D[j] = C[j]
    BY <1>3
  <2>. QED
    BY <1>5, <1>6, <2>1, <2>2, SameSums
<1>8. i \in Nat \ {0} /\ i \in 1..n /\ i < n /\ \A j \in 1..i : D[j] = C[j] /\ h[j] = g[j]
  BY <1>2, <1>3, <1>7
<1>9. ASSUME Pending(C, s.mode, i) PROVE Pending(D, N, i)
  <2>1. C[i + 1].k = "errormsg"
    BY <1>2, <1>8, <1>9 DEF Pending
  <2>2. i # k
    BY <1>1, <2>1
  <2>3. i < k /\ i + 1 \in 1..k
    BY <2>2
  <2>. QED
    BY <1>3, <2>1, <2>3 DEF Pending
<1>10. Explained(C, s.mode, g, i)
  BY <1>5, <1>8
<1>. QED
  BY <1>8, <1>9, <1>10, ExplainedAlike

(* The stack stays, and code goes on only above an error handler.          *)
LEMMA SameBlamed ==
    ASSUME NEW s, OK(s), Blamed(s), NEW N,
           N = "run" => s.mode = "run" \/ (s.cs # <<>> /\ TopOf(s).k = "errormsg")
    PROVE  Excuses(s.cs, N)
<1>1. PICK C \in Seq(Activation) : C = s.cs
  BY OwnFacts
<1>2. PICK n \in Nat : n = Len(C)
  OBVIOUS
<1>3. SUFFICES ASSUME NEW g, Sums(C, g), NEW i \in 1..n
               PROVE  Explained(C, N, g, i)
  BY <1>1, <1>2 DEF Excuses
<1>4. Explained(C, s.mode, g, i)
  BY <1>1, <1>2, <1>3 DEF Blamed, Excuses
<1>5. ASSUME Pending(C, s.mode, i) PROVE Pending(C, N, i) \/ Excused(C, g, i)
  <2>1. CASE i < n
    BY <1>2, <1>5, <2>1 DEF Pending
  <2>2. CASE i = n
    <3>1. s.mode # "run"
      BY <1>2, <1>5, <2>2 DEF Pending
    <3>2. N = "run" => C[n].k = "errormsg"
      BY <1>1, <1>2, <3>1 DEF TopOf
    <3>3. N # "run" => Pending(C, N, i)
      BY <1>2, <2>2 DEF Pending
    <3>4. N = "run" => Excused(C, g, i)
      BY <2>2, <3>2 DEF Excused, Excuse
    <3>. QED
      BY <3>3, <3>4
  <2>. QED
    BY <2>1, <2>2
<1>. QED
  BY <1>4, <1>5, ExplainedAlike

-----------------------------------------------------------------------------
(* The moves.                                                              *)
LEMMA SetsBlamed ==
    ASSUME NEW s, NEW l, NEW D, NEW N, Excuses(D, N), N # "errerr",
           NEW r, r = Sets(s, l, D, N)
    PROVE  Blamed(r)
BY DEF Blamed, Sets

(* A coroutine that counts up to the limit is the one that runs.           *)
LEMMA ExcusedReason ==
    ASSUME NEW s, OK(s), Blamed(s), NEW g, Tallies(s, g), s.cs # <<>>,
           Excused(s.cs, g, Len(s.cs))
    PROVE  Reason(s)
<1>1. PICK C \in Seq(Activation) : C = s.cs
  BY OwnFacts
<1>2. PICK n \in Nat \ {0} : n = Len(C)
  BY <1>1, OwnFacts
<1>3. Sums(C, g) /\ (\A i \in 1..n : Explained(C, s.mode, g, i))
  BY <1>1, <1>2 DEF Tallies, Blamed, Excuses
<1>4. PICK j \in 1..n : Excuse(C[j], g[j])
  BY <1>1, <1>2 DEF Excused
<1>5. CASE C[j].k = "errormsg" \/ (C[j].k = "parse" /\ C[j].level > 0)
  BY <1>1, <1>2, <1>5 DEF Reason
<1>6. CASE IsResume(C[j]) /\ g[j] = MaxCCalls
  <2>1. PICK m \in 1..n : Base(C, m, n)
    <3>1. n \in 1..n
      OBVIOUS
    <3>2. Based(C, n)
      BY <1>1, <1>2, <3>1 DEF Tallies
    <3>. QED
      BY <3>2 DEF Based
  <2>2. ~(j > m)
    <3>1. j > m => j \in (m + 1)..n
      OBVIOUS
    <3>. QED
      BY <1>6, <2>1, <3>1 DEF Base
  <2>3. ASSUME j < m PROVE FALSE
    <3>1. IsResume(C[m])
      BY <2>1, <2>3 DEF Base
    <3>2. CCallsOf(C[m]) = 1
      BY <3>1 DEF CCallsOf
    <3>3. g[m] = g[m - 1] + 1
      BY <1>2, <1>3, <3>2 DEF Sums
    <3>4. m - 1 \in 1..n /\ j \in 0..(m - 1) /\ g[m - 1] \in Nat /\ g[m] \in Nat
      <4>1. m - 1 \in 1..n /\ j \in 0..(m - 1) /\ m - 1 \in 0..Len(C) /\ m \in 0..Len(C)
        BY <1>2, <2>3
      <4>. QED
        BY <1>3, <4>1, SumsFacts
    <3>5. g[j] <= g[m - 1]
      BY <1>1, <1>2, <3>4 DEF Tallies
    <3>6. g[m] <= MaxCCalls
      BY <1>3, <3>1 DEF Explained
    <3>. QED
      BY <1>6, <3>3, <3>4, <3>5, <3>6, CallsAssumption
  <2>4. j = m
    BY <2>2, <2>3
  <2>5. C[j].t = TopThread(C)
    <3>1. m \in m..n /\ n # 0
      OBVIOUS
    <3>2. C[m].t = C[n].t
      BY <2>1, <3>1 DEF Base
    <3>. QED
      BY <1>2, <2>4, <3>1, <3>2 DEF TopThread
  <2>6. s.th[C[j].t].baseCcalls = g[j]
    BY <1>1, <1>2, <1>6 DEF Tallies
  <2>. QED
    BY <1>1, <1>6, <2>5, <2>6 DEF Reason, Own
<1>. QED
  BY <1>4, <1>5, <1>6 DEF Excuse

LEMMA ModeMoveBlamed ==
    ASSUME NEW s, OK(s), Blamed(s), NEW r, ModeMove(s, r)
    PROVE  Blamed(r)
<1>1. PICK N \in Mode : Acts(s) /\ Turns(s, N) /\ r = [s EXCEPT !.mode = N]
  BY DEF ModeMove
<1>2. r.th = s.th /\ r.cs = s.cs /\ r.mode = N
  BY <1>1 DEF OK, State
<1>3. Excuses(s.cs, N)
  BY <1>1, SameBlamed DEF Turns, Acts
<1>4. N = "errerr" => Reason(r)
  BY <1>1, <1>2 DEF Turns, Reason, Own
<1>. QED
  BY <1>2, <1>3, <1>4 DEF Blamed

LEMMA CallMoveBlamed ==
    ASSUME NEW s, OK(s), Blamed(s), NEW r, CallMove(s, r)
    PROVE  Blamed(r)
<1>1. PICK N \in Mode :
       /\ Acts(s) /\ ~IsResume(TopOf(s)) /\ s.mode = "run"
       /\ Counts(Own(s).nCcalls + 1, N)
       /\ r = Sets(s, [Own(s) EXCEPT !.nCcalls = @ + 1],
                   Append(s.cs, [k |-> "call", t |-> TopThread(s.cs)]), N)
  BY DEF CallMove
<1>2. PICK o \in LuaState : o = Own(s)
  BY OwnFacts
<1>3. PICK t \in Thread : t = TopThread(s.cs)
  BY OwnFacts
<1>. DEFINE l == [o EXCEPT !.nCcalls = @ + 1]  a == [k |-> "call", t |-> t]
<1>4. a \in Activation /\ a.t = t /\ ~IsResume(a) /\ a.k = "call" /\ CCallsOf(a) = 1
  BY DEF Activation, Plain, IsResume, CCallsOf
<1>5. l.ci = o.ci /\ l.errfunc = o.errfunc /\ l.baseCcalls = o.baseCcalls
  BY DEF LuaState
<1>6. r = Sets(s, l, Append(s.cs, a), N)
  BY <1>1, <1>2, <1>3
<1>. HIDE DEF l, a
<1>7. Excuses(Append(s.cs, a), N)
  BY <1>1, <1>4, PushBlamed DEF Counts
<1>8. ASSUME N = "errerr" PROVE Reason(r)
  <2>1. PICK C \in Seq(Activation) : C = s.cs
    BY OwnFacts
  <2>2. PICK n \in Nat \ {0} : n = Len(C)
    BY <1>1, <2>1, OwnFacts DEF Acts
  <2>3. PICK g : Tallies(s, g)
    BY OKTallies
  <2>4. o.nCcalls = g[n] /\ o.nCcalls \in Nat /\ o.nCcalls >= MaxCCalls
    <3>1. o.nCcalls \in Nat
      BY CountsFacts
    <3>2. o.nCcalls + 1 >= MaxCCalls + ErrorRoom
      BY <1>1, <1>2, <1>8 DEF Counts
    <3>. QED
      BY <1>2, <2>1, <2>2, <2>3, <3>1, <3>2, CallsAssumption DEF Tallies
  <2>5. Explained(C, "run", g, n)
    BY <1>1, <2>1, <2>2, <2>3 DEF Tallies, Blamed, Excuses
  <2>6. Excused(C, g, n)
    BY <2>2, <2>4, <2>5 DEF Explained, Pending
  <2>7. Reason(s)
    BY <1>1, <2>1, <2>2, <2>3, <2>6, ExcusedReason DEF Acts
  <2>8. PICK D \in Seq(Activation) :
           /\ D = Append(C, a) /\ Len(D) = n + 1 /\ D[n + 1] = a /\ \A i \in 1..n : D[i] = C[i]
    BY <1>4, <2>2, AppendFacts
  <2>9. r.cs = D /\ Own(r) = l
    <3>1. r.th = [s.th EXCEPT ![t] = l] /\ r.cs = D
      BY <1>3, <1>6, <2>1, <2>8 DEF Sets
    <3>2. TopThread(D) = t
      BY <1>4, <2>8 DEF TopThread
    <3>. QED
      BY <3>1, <3>2, OwnFacts DEF Own
  <2>10. \A i \in 1..n : i \in 1..Len(D) /\ D[i] = C[i]
    BY <2>8
  <2>. QED
    BY <1>2, <1>5, <2>1, <2>2, <2>7, <2>9, <2>10 DEF Reason
<1>9. r.cs = Append(s.cs, a) /\ r.mode = N
  BY <1>6 DEF Sets
<1>. QED
  BY <1>7, <1>8, <1>9 DEF Blamed

LEMMA EnterMoveBlamed ==
    ASSUME NEW s, OK(s), Blamed(s), NEW r, EnterMove(s, r)
    PROVE  Blamed(r)
<1>1. PICK f \in Frame :
       /\ s.mode = "run"
       /\ r = Sets(s, [Own(s) EXCEPT !.ci = Append(@, f)],
                   Append(s.cs, Entry(f, TopThread(s.cs))), s.mode)
  BY DEF EnterMove
<1>2. PICK a \in Activation : a = Entry(f, TopThread(s.cs)) /\ CCallsOf(a) = 0 /\ ~IsResume(a)
  <2>1. PICK t \in Thread : t = TopThread(s.cs)
    BY OwnFacts
  <2>2. Entry(f, t) \in CFun \cup Exec
    BY DEF Frame, Entry, Exec, CFun
  <2>3. /\ Entry(f, t) \in Activation /\ CCallsOf(Entry(f, t)) = 0 /\ ~IsResume(Entry(f, t))
    BY <2>2 DEF Activation, Exec, CFun, CCallsOf, IsResume
  <2>. QED
    BY <2>1, <2>3
<1>3. Excuses(Append(s.cs, a), "run")
  BY <1>1, <1>2, PushBlamed DEF Mode
<1>. QED
  BY <1>1, <1>2, <1>3, SetsBlamed

LEMMA ReenterMoveBlamed ==
    ASSUME NEW s, OK(s), Blamed(s), NEW r, ReenterMove(s, r)
    PROVE  Blamed(r)
<1>1. PICK a \in Exec : a = TopOf(s)
  <2>1. TopOf(s) \in Exec
    BY OwnFacts, ActivationFacts DEF ReenterMove, Acts
  <2>. QED
    BY <2>1
<1>2. Acts(s) /\ s.mode = "run"
  BY DEF ReenterMove
<1>3. \E l : \E b \in Exec : r = Sets(s, l, [s.cs EXCEPT ![Len(s.cs)] = b], "run")
  <2>1. [a EXCEPT !.n = @ + 1] \in Exec /\ (a.n > 1 => [a EXCEPT !.n = @ - 1] \in Exec)
    BY DEF Exec
  <2>2. \E l : \/ r = Sets(s, l, [s.cs EXCEPT ![Len(s.cs)] = [a EXCEPT !.n = @ + 1]], "run")
               \/ /\ a.n > 1
                  /\ r = Sets(s, l, [s.cs EXCEPT ![Len(s.cs)] = [a EXCEPT !.n = @ - 1]], "run")
    BY <1>1, <1>2 DEF ReenterMove
  <2>. QED
    BY <2>1, <2>2
<1>4. PICK l : \E b \in Exec : r = Sets(s, l, [s.cs EXCEPT ![Len(s.cs)] = b], "run")
  BY <1>3
<1>5. PICK b \in Exec : r = Sets(s, l, [s.cs EXCEPT ![Len(s.cs)] = b], "run")
  BY <1>4
<1>6. /\ b \in Activation /\ b.k = "exec" /\ a.k = "exec" /\ ~IsTry(b) /\ CCallsOf(b) = 0
      /\ b.k # "errormsg"
  BY DEF Exec, Activation, IsTry, IsResume, CCallsOf
<1>7. Excuses([s.cs EXCEPT ![Len(s.cs)] = b], "run")
  BY <1>1, <1>2, <1>6, TopBlamed DEF Mode
<1>. QED
  BY <1>5, <1>7, SetsBlamed

LEMMA ThroughMoveBlamed ==
    ASSUME NEW s, OK(s), Blamed(s), NEW r, ThroughMove(s, r)
    PROVE  Blamed(r)
<1>1. PICK a \in CFun : a = TopOf(s)
  <2>1. TopOf(s) \in CFun
    BY OwnFacts, ActivationFacts DEF ThroughMove, Acts
  <2>. QED
    BY <2>1
<1>2. Acts(s) /\ s.mode = "run"
  BY DEF ThroughMove
<1>3. PICK b \in CFun : b = [a EXCEPT !.st = "done"]
  BY DEF CFun
<1>4. r = [s EXCEPT !.cs = [s.cs EXCEPT ![Len(s.cs)] = b]]
  BY <1>1, <1>3 DEF ThroughMove, TopOf
<1>5. /\ b \in Activation /\ b.k = "cfun" /\ a.k = "cfun" /\ ~IsTry(b) /\ CCallsOf(b) = 0
      /\ b.k # "errormsg"
  BY DEF CFun, Activation, IsTry, IsResume, CCallsOf
<1>6. Excuses([s.cs EXCEPT ![Len(s.cs)] = b], "run")
  BY <1>1, <1>2, <1>5, TopBlamed DEF Mode
<1>7. r.cs = [s.cs EXCEPT ![Len(s.cs)] = b] /\ r.mode = "run"
  BY <1>2, <1>4 DEF OK, State
<1>. QED
  BY <1>6, <1>7 DEF Blamed

LEMMA LevelMoveBlamed ==
    ASSUME NEW s, OK(s), Blamed(s), NEW r, LevelMove(s, r)
    PROVE  Blamed(r)
<1>1. PICK a \in Parse : a = TopOf(s)
  <2>1. TopOf(s) \in Parse
    BY OwnFacts, ActivationFacts DEF LevelMove, Acts
  <2>. QED
    BY <2>1
<1>2. PICK d \in {1, -1}, N \in {"run", "throw"} :
       /\ Acts(s) /\ s.mode = "run" /\ a.level + d >= 0
       /\ r = Sets(s, [Own(s) EXCEPT !.nCcalls = @ + d],
                   [s.cs EXCEPT ![Len(s.cs)] = [a EXCEPT !.level = @ + d]], N)
  BY <1>1 DEF LevelMove
<1>3. PICK b \in Parse : b = [a EXCEPT !.level = @ + d]
  BY <1>2 DEF Parse
<1>4. /\ b \in Activation /\ b.k = "parse" /\ a.k = "parse" /\ ~IsTry(b) /\ b.k # "errormsg"
      /\ CCallsOf(b) = 0 \/ b.level > 0
  BY DEF Parse, Activation, IsTry, IsResume, CCallsOf
<1>5. N \in Mode /\ N # "errerr"
  BY DEF Mode
<1>6. Excuses([s.cs EXCEPT ![Len(s.cs)] = b], N)
  BY <1>1, <1>2, <1>4, <1>5, TopBlamed
<1>. QED
  BY <1>2, <1>3, <1>5, <1>6, SetsBlamed

LEMMA BeginMoveBlamed ==
    ASSUME NEW s, OK(s), Blamed(s), NEW r, BeginMove(s, r)
    PROVE  Blamed(r)
<1>1. PICK a \in Activation, h \in BOOLEAN :
       /\ Acts(s) /\ (s.mode = "run" \/ a.k = "errormsg")
       /\ a.k \in {"hook", "gctm", "errormsg"} \/ (a.k = "parse" /\ a.level = 0)
       /\ r = Sets(s, [Own(s) EXCEPT !.allowhook = h], Append(s.cs, a), s.mode)
  BY DEF BeginMove
<1>2. CCallsOf(a) = 0 /\ ~IsResume(a) /\ s.mode \in Mode
  BY <1>1, OwnFacts DEF CCallsOf, IsResume
<1>3. Excuses(Append(s.cs, a), s.mode)
  BY <1>1, <1>2, PushBlamed
<1>4. r.cs = Append(s.cs, a) /\ r.mode = s.mode
  BY <1>1 DEF Sets
<1>5. s.mode = "errerr" => Reason(r)
  <2>1. PICK C \in Seq(Activation) : C = s.cs
    BY OwnFacts
  <2>2. Len(Append(C, a)) \in 1..Len(Append(C, a)) /\ Append(C, a)[Len(Append(C, a))] = a
    BY AppendFacts
  <2>. QED
    BY <1>1, <1>4, <2>1, <2>2 DEF Reason
<1>. QED
  BY <1>3, <1>4, <1>5 DEF Blamed

(* What is put back with code at work is no error in error handling.       *)
LEMMA CutTo ==
    ASSUME NEW s, OK(s), Blamed(s), NEW e \in 1..Len(s.cs), s.cs[e].k # "errormsg",
           NEW l, NEW r, r = Sets(s, l, SubSeq(s.cs, 1, e - 1), "run")
    PROVE  Blamed(r)
<1>1. PICK n \in Nat : n = Len(s.cs)
  BY OwnFacts
<1>2. PICK k \in Nat : k < n /\ e = k + 1 /\ e - 1 = k
  <2>1. e - 1 \in Nat /\ e - 1 < n /\ e = (e - 1) + 1
    BY <1>1
  <2>. QED
    BY <2>1
<1>3. Excuses(SubSeq(s.cs, 1, k), "run")
  BY <1>1, <1>2, CutBlamed
<1>4. r = Sets(s, l, SubSeq(s.cs, 1, k), "run")
  BY <1>2
<1>. QED
  BY <1>3, <1>4, SetsBlamed

LEMMA LeaveMoveBlamed ==
    ASSUME NEW s, OK(s), Blamed(s), NEW r, LeaveMove(s, r)
    PROVE  Blamed(r)
<1>1. PICK l \in LuaState :
         /\ s.cs # <<>> /\ TopOf(s).k \in {"cfun", "exec", "call", "parse", "hook", "gctm"}
         /\ r = Sets(s, l, SubSeq(s.cs, 1, Len(s.cs) - 1), "run")
  BY DEF LeaveMove, Acts
<1>2. Len(s.cs) \in 1..Len(s.cs) /\ s.cs[Len(s.cs)].k # "errormsg"
  <2>1. Len(s.cs) \in Nat \ {0}
    BY <1>1, OwnFacts
  <2>. QED
    BY <1>1, <2>1 DEF TopOf
<1>. QED
  BY <1>1, <1>2, CutTo

LEMMA PcallMoveBlamed ==
    ASSUME NEW s, OK(s), Blamed(s), NEW r, PcallMove(s, r)
    PROVE  Blamed(r)
<1>1. PICK o \in LuaState : o = Own(s)
  BY OwnFacts
<1>2. PICK t \in Thread : t = TopThread(s.cs)
  BY OwnFacts
<1>3. PICK a \in Try : a = TryOf("pcall", t, o)
  BY TryFacts
<1>4. a.kind = "pcall" /\ a.k = "try" /\ a \in Activation
  BY <1>3, TryFacts DEF Try, Activation
<1>5. CCallsOf(a) = 0 /\ ~IsResume(a)
  BY <1>4 DEF CCallsOf, IsResume
<1>6. /\ s.mode = "run"
      /\ r = Sets(s, [o EXCEPT !.errorJmp = Len(s.cs) + 1, !.errfunc = HandlerFor(s)],
                  Append(s.cs, a), "run")
  BY <1>1, <1>2, <1>3 DEF PcallMove
<1>7. Excuses(Append(s.cs, a), "run")
  BY <1>4, <1>5, <1>6, PushBlamed DEF Mode
<1>. QED
  BY <1>6, <1>7, SetsBlamed

LEMMA EndPcallMoveBlamed ==
    ASSUME NEW s, OK(s), Blamed(s), NEW r, EndPcallMove(s, r)
    PROVE  Blamed(r)
<1>1. PICK C \in Seq(Activation) : C = s.cs
  BY OwnFacts
<1>2. PICK n \in Nat \ {0} : n = Len(C)
  BY <1>1, OwnFacts DEF EndPcallMove
<1>3. PICK t \in Thread : t = TopThread(s.cs)
  BY OwnFacts
<1>4. PICK e : e = Own(s).errorJmp
  OBVIOUS
<1>5. /\ e = s.th[t].errorJmp /\ t = C[n].t /\ C[e].kind = "pcall" /\ Good(s.th, C, s.mode)
      /\ n = Len(C) /\ n # 0
  BY <1>1, <1>2, <1>3, <1>4, OwnFacts DEF EndPcallMove, Own, TopOf, OK
<1>6. PcallFacts(s.th, C, n, t, e)
  BY <1>5, EndOfPcall
<1>7. e \in 1..Len(s.cs) /\ s.cs[e].k # "errormsg"
  BY <1>1, <1>2, <1>6 DEF PcallFacts, Try
<1>8. \E l : r = Sets(s, l, SubSeq(s.cs, 1, e - 1), "run")
  BY <1>4 DEF EndPcallMove
<1>9. PICK l : r = Sets(s, l, SubSeq(s.cs, 1, e - 1), "run")
  BY <1>8
<1>. QED
  BY <1>7, <1>9, CutTo

LEMMA ResumeMoveBlamed ==
    ASSUME NEW s, OK(s), Blamed(s), NEW r, ResumeMove(s, r)
    PROVE  Blamed(r)
<1>1. PICK c \in Thread \ {MainThread} :
       LET m == Own(s).nCcalls
           l == [s.th[c] EXCEPT !.nCcalls = m + 1, !.baseCcalls = m + 1,
                              !.fn = @ /\ s.th[c].status = "yield"]
       IN /\ s.mode = "run" /\ s.th[c].errorJmp = 0 /\ m < MaxCCalls
          /\ r = [th |-> [s.th EXCEPT ![c] = [l EXCEPT !.errorJmp = Len(s.cs) + 1]],
                  cs |-> Append(s.cs, TryOf("resume", c, l)), mode |-> "run"]
  BY DEF ResumeMove
<1>2. PICK o \in LuaState : o = s.th[c]
  BY OwnFacts
<1>3. PICK m \in Nat : m = Own(s).nCcalls
  BY OwnFacts DEF LuaState
<1>. DEFINE k == [o EXCEPT !.nCcalls = m + 1, !.baseCcalls = m + 1, !.fn = @ /\ o.status = "yield"]
<1>4. k \in LuaState
  <2>1. m + 1 \in Nat
    OBVIOUS
  <2>. QED
    BY <2>1 DEF LuaState
<1>5. r.cs = Append(s.cs, TryOf("resume", c, k)) /\ r.mode = "run"
  BY <1>1, <1>2, <1>3
<1>. HIDE DEF k
<1>6. PICK a \in Try : a = TryOf("resume", c, k) /\ a.kind = "resume"
  BY <1>4, TryFacts
<1>7. a \in Activation /\ IsResume(a) /\ CCallsOf(a) = 1
  BY <1>6 DEF Try, Activation, IsResume, CCallsOf
<1>8. Own(s).nCcalls < MaxCCalls /\ s.mode = "run"
  BY <1>1
<1>9. Excuses(Append(s.cs, a), "run")
  BY <1>7, <1>8, PushBlamed DEF Mode
<1>. QED
  BY <1>5, <1>6, <1>9 DEF Blamed

LEMMA ContinueMoveBlamed ==
    ASSUME NEW s, OK(s), Blamed(s), NEW r, ContinueMove(s, r)
    PROVE  Blamed(r)
<1>1. PICK t \in Thread : t = TopThread(s.cs)
  BY OwnFacts
<1>2. PICK k \in Nat \ {0} : Len(Own(s).ci) - 1 = k
  <2>1. PICK o \in LuaState : o = Own(s)
    BY OwnFacts
  <2>2. PICK n \in Nat \ {0} : n = Len(s.cs)
    BY OwnFacts DEF ContinueMove
  <2>3. PICK C \in Seq(Activation) : C = s.cs
    BY OwnFacts
  <2>4. /\ o = s.th[t] /\ t = C[n].t /\ IsResume(C[n]) /\ o.status = "yield" /\ s.cs # <<>>
    BY <1>1, <2>1, <2>2, <2>3, OwnFacts DEF ContinueMove, Own, TopOf
  <2>5. Len(o.ci) >= 2
    BY <1>1, <2>4, YieldedFrames DEF OK
  <2>6. PICK q \in Nat : q = Len(o.ci)
    BY CountsFacts
  <2>7. q - 1 \in Nat \ {0}
    <3>1. q >= 2
      BY <2>5, <2>6
    <3>. QED
      BY <3>1
  <2>. QED
    BY <2>1, <2>6, <2>7
<1>3. PICK a \in Exec : a = [k |-> "exec", t |-> t, n |-> k]
  BY DEF Exec
<1>4. a \in Activation /\ CCallsOf(a) = 0 /\ ~IsResume(a)
  BY DEF Exec, Activation, CCallsOf, IsResume
<1>5. s.mode = "run" /\ \E l : r = Sets(s, l, Append(s.cs, a), "run")
  BY <1>1, <1>2, <1>3 DEF ContinueMove
<1>6. PICK l : r = Sets(s, l, Append(s.cs, a), "run")
  BY <1>5
<1>7. Excuses(Append(s.cs, a), "run")
  BY <1>4, <1>5, PushBlamed DEF Mode
<1>. QED
  BY <1>6, <1>7, SetsBlamed

LEMMA YieldMoveBlamed ==
    ASSUME NEW s, OK(s), Blamed(s), NEW r, YieldMove(s, r)
    PROVE  Blamed(r)
<1>1. PICK o \in LuaState : o = Own(s)
  BY OwnFacts
<1>2. PICK t \in Thread : t = TopThread(s.cs)
  BY OwnFacts
<1>3. PICK n \in Nat \ {0} : n = Len(s.cs)
  BY OwnFacts DEF YieldMove, Acts
<1>4. PICK C \in Seq(Activation) : C = s.cs
  BY OwnFacts
<1>5. /\ o = s.th[t] /\ t = C[n].t /\ C[n].k = "cfun"
      /\ o.nCcalls <= o.baseCcalls /\ Good(s.th, C, s.mode)
  BY <1>1, <1>2, <1>3, <1>4, OwnFacts DEF YieldMove, Own, TopOf, OK, Acts
<1>6. PICK F, G, H : Shape(s.th, C, s.mode, F, G, H)
  BY <1>5 DEF Good
<1>7. Yields(C, n, t)
  BY <1>3, <1>4, <1>5, <1>6, YieldPlace
<1>8. PICK e \in 1..Len(s.cs) : e = n - 1 /\ e - 1 = n - 2
  <2>1. n - 1 \in 1..n /\ (n - 1) - 1 = n - 2
    BY <1>7 DEF Yields
  <2>. QED
    BY <1>3, <2>1
<1>9. s.cs[e].k # "errormsg"
  BY <1>4, <1>7, <1>8 DEF Yields
<1>10. \E l : r = Sets(s, l, SubSeq(s.cs, 1, e - 1), "run")
  BY <1>3, <1>8 DEF YieldMove
<1>11. PICK l : r = Sets(s, l, SubSeq(s.cs, 1, e - 1), "run")
  BY <1>10
<1>. QED
  BY <1>9, <1>11, CutTo

LEMMA EndResumeMoveBlamed ==
    ASSUME NEW s, OK(s), Blamed(s), NEW r, EndResumeMove(s, r)
    PROVE  Blamed(r)
<1>1. PICK t \in Thread : t = TopThread(s.cs)
  BY OwnFacts
<1>2. PICK C \in Seq(Activation) : C = s.cs
  BY OwnFacts
<1>3. PICK n \in Nat \ {0} : n = Len(C)
  BY <1>2, OwnFacts DEF EndResumeMove
<1>4. PICK e : e = Own(s).errorJmp
  OBVIOUS
<1>5. /\ e = s.th[t].errorJmp /\ t = C[n].t /\ IsResume(C[e]) /\ Good(s.th, C, s.mode)
  BY <1>1, <1>2, <1>3, <1>4, OwnFacts DEF EndResumeMove, Own, TopOf, OK
<1>6. PICK F, G, H : Shape(s.th, C, s.mode, F, G, H)
  BY <1>5 DEF Good
<1>7. TopReady(s.th, C, s.mode, n, t, e)
  BY <1>2, <1>3, <1>5, <1>6, OwnFacts, TopFacts
<1>8. e \in 1..Len(s.cs) /\ s.cs[e].k # "errormsg"
  BY <1>2, <1>3, <1>5, <1>7 DEF TopReady, IsResume
<1>9. \E l : r = Sets(s, l, SubSeq(s.cs, 1, e - 1), "run")
  BY <1>4 DEF EndResumeMove
<1>10. PICK l : r = Sets(s, l, SubSeq(s.cs, 1, e - 1), "run")
  BY <1>9
<1>. QED
  BY <1>8, <1>10, CutTo

(* Only threads change.                                                    *)
LEMMA ThreadsBlamed ==
    ASSUME NEW s, OK(s), Blamed(s), NEW r, SizeMove(s, r) \/ OtherMove(s, r)
    PROVE  Blamed(r)
<1>1. r.cs = s.cs /\ r.mode = "run" /\ s.mode = "run"
  <2>1. CASE SizeMove(s, r)
    BY <2>1 DEF SizeMove, OK, State
  <2>2. CASE OtherMove(s, r)
    BY <2>2 DEF OtherMove, OK, State
  <2>. QED
    BY <2>1, <2>2
<1>. QED
  BY <1>1 DEF Blamed

(* The finalizers are called with no C call counted.                       *)
LEMMA CloseMoveBlamed ==
    ASSUME NEW s, OK(s), NEW r, CloseMove(s, r)
    PROVE  Blamed(r)
<1>1. PICK l \in LuaState :
         r = Sets(s, [l EXCEPT !.errorJmp = 1], <<TryOf("close", MainThread, l)>>, "run")
  BY DEF CloseMove
<1>2. PICK a \in Try : a = TryOf("close", MainThread, l) /\ a.kind = "close"
  <2>1. MainThread \in Thread
    BY CallsAssumption
  <2>2. TryOf("close", MainThread, l) \in Try /\ TryOf("close", MainThread, l).kind = "close"
    BY <2>1, TryFacts
  <2>. QED
    BY <2>2
<1>3. CCallsOf(a) = 0 /\ ~IsResume(a)
  BY <1>2 DEF Try, CCallsOf, IsResume
<1>4. PICK D : D = <<a>> /\ Len(D) = 1 /\ D[1] = a
  <2>1. Len(<<a>>) = 1 /\ <<a>>[1] = a
    BY SMT
  <2>. QED
    BY <2>1
<1>5. ASSUME NEW g, Sums(D, g), NEW i \in 1..1 PROVE Explained(D, "run", g, i)
  <2>1. i = 1 /\ g[1] = g[1 - 1] + 0 /\ g[0] = 0
    BY <1>3, <1>4, <1>5 DEF Sums
  <2>2. g[1] = 0 /\ ~(g[1] >= MaxCCalls)
    BY <2>1, CallsAssumption
  <2>. QED
    BY <1>3, <1>4, <2>1, <2>2 DEF Explained
<1>6. Excuses(D, "run")
  BY <1>4, <1>5 DEF Excuses
<1>. QED
  BY <1>1, <1>2, <1>4, <1>6, SetsBlamed

LEMMA ClosedMoveBlamed ==
    ASSUME NEW s, OK(s), Blamed(s), NEW r, ClosedMove(s, r)
    PROVE  Blamed(r)
<1>1. PICK n \in Nat \ {0} : n = Len(s.cs)
  BY OwnFacts DEF ClosedMove, Acts
<1>2. n \in 1..Len(s.cs) /\ s.cs[n].k # "errormsg"
  BY <1>1 DEF ClosedMove, IsTry, TopOf
<1>3. \E l : r = Sets(s, l, SubSeq(s.cs, 1, n - 1), "run")
  BY <1>1 DEF ClosedMove
<1>4. PICK l : r = Sets(s, l, SubSeq(s.cs, 1, n - 1), "run")
  BY <1>3
<1>. QED
  BY <1>2, <1>4, CutTo

LEMMA MoveBlamed ==
    ASSUME NEW s, OK(s), Blamed(s), NEW r, Move(s, r)
    PROVE  Blamed(r)
BY ModeMoveBlamed, CallMoveBlamed, EnterMoveBlamed, ReenterMoveBlamed,
   ThroughMoveBlamed, LevelMoveBlamed, BeginMoveBlamed, LeaveMoveBlamed, PcallMoveBlamed,
   ResumeMoveBlamed, ContinueMoveBlamed, YieldMoveBlamed, EndResumeMoveBlamed, ThreadsBlamed
   DEF Move

LEMMA MovesBlamed ==
    ASSUME NEW s, Fine(s), Blamed(s), NEW r, Moves(s, r)
    PROVE  Blamed(r)
<1>. DEFINE I == {x \in State : Fine(x) /\ Blamed(x)}
<1>1. s \in I
  BY DEF Fine, OK
<1>2. Closed(I)
  <2>1. ASSUME NEW x \in I, NEW y, Move(x, y) PROVE y \in I
    <3>1. Fine(y)
      BY <2>1, MoveKeepsRoom
    <3>2. Blamed(y)
      BY <2>1, MoveBlamed DEF Fine
    <3>. QED
      BY <3>1, <3>2 DEF Fine, OK
  <2>. QED
    BY <2>1 DEF Closed
<1>3. r \in I
  BY <1>1, <1>2 DEF Moves
<1>. QED
  BY <1>3

LEMMA EndsBlamed ==
    ASSUME NEW s, Fine(s), Blamed(s), NEW r, EndsPcall(s, r)
    PROVE  Blamed(r)
<1>1. PICK x : EndPcallMove(s, x) /\ (r = x \/ ThroughMove(x, r))
  BY DEF EndsPcall
<1>2. OK(s) /\ OK(x) /\ Blamed(x)
  BY <1>1, EndPcallMoveBlamed, MoveKeepsRoom DEF Fine
<1>. QED
  BY <1>1, <1>2, ThroughMoveBlamed

(* Every step keeps the reasons.                                           *)
LEMMA StepBlamed == ASSUME Fine(Now), Blamed(Now), [Next]_vars PROVE Blamed(Then)
<1>1. OK(Now)
  BY DEF Fine
<1>2. CASE UNCHANGED vars
  <2>1. Then = Now
    BY <1>2 DEF vars, Then, Now
  <2>. QED
    BY <2>1
<1>3. CASE Next
  <2>1. \/ Moves(Now, Then) \/ EndsPcall(Now, Then) \/ CloseMove(Now, Then)
        \/ ClosedMove(Now, Then)
    BY <1>3, NextMoves DEF Closes
  <2>. QED
    BY <1>1, <2>1, MovesBlamed, EndsBlamed, CloseMoveBlamed, ClosedMoveBlamed
<1>. QED
  BY <1>2, <1>3

AllBlamed == Fine(Now) /\ Blamed(Now)

(* Wherever code runs with LUAI_MAXCCALLS C calls or more counted, and     *)
(* whenever an error turns into LUA_ERRERR, there is an error handler, a   *)
(* parser, or a coroutine that counts from there to answer for it.         *)
THEOREM ErrorsExplained == Spec => []AllBlamed
<1>1. Init => Blamed(Now)
  <2>1. SUFFICES ASSUME Init PROVE Blamed(Now)
    OBVIOUS
  <2>2. Now.cs = <<>> /\ Now.mode = "run"
    BY <2>1 DEF Init, Now
  <2>3. PICK C : C = <<>> /\ Len(C) = 0
    OBVIOUS
  <2>. QED
    BY <2>2, <2>3 DEF Blamed, Excuses
<1>2. Fine(Now) /\ Blamed(Now) /\ [Next]_vars => Blamed(Now)'
  <2>1. SUFFICES ASSUME Fine(Now), Blamed(Now), [Next]_vars PROVE Blamed(Now)'
    OBVIOUS
  <2>2. Now' = Then
    BY DEF Now, Then
  <2>3. Blamed(Then)
    BY <2>1, StepBlamed
  <2>. QED
    BY <2>2, <2>3 DEF Blamed, Reason, Own, Excuses
<1>. QED
  BY StackMeasured, <1>1, <1>2, PTL DEF Spec, AllBlamed

LEMMA BlamedErrErr == ASSUME AllBlamed PROVE ErrErrInHandler
<1>1. Reason(Now) => ErrErrInHandler
  <2>1. SUFFICES ASSUME Reason(Now), mode = "errerr" PROVE ErrErrInHandler
    BY DEF ErrErrInHandler
  <2>2. cstack # <<>> /\ cstack \in Seq(Activation) /\ Now.cs = cstack /\ Own(Now) = th[Top.t]
    <3>1. PICK F, G, H : Shape(th, cstack, mode, F, G, H)
      BY NowFacts DEF AllBlamed, OK, Good
    <3>2. Len(cstack) > 0
      BY <2>1, <3>1 DEF Shape, Alive
    <3>3. cstack # <<>>
      BY <3>2
    <3>. QED
      BY <3>3, NowFacts DEF AllBlamed
  <2>3. DOMAIN cstack = 1..Len(cstack)
    BY <2>2
  <2>. QED
    BY <2>1, <2>2, <2>3 DEF Reason, ErrErrInHandler
<1>2. mode = "errerr" => Reason(Now)
  BY DEF AllBlamed, Blamed, Now
<1>. QED
  BY <1>1, <1>2 DEF ErrErrInHandler

(* LUA_ERRERR is for an error while another is being handled.  The program *)
(* can get it otherwise only in a coroutine that begins to count at        *)
(* LUAI_MAXCCALLS, in a parser, or with LUAI_MAXCALLS frames, whatever the *)
(* limits are.                                                             *)
THEOREM ErrErrOnlyInHandlers == Spec => []ErrErrInHandler
BY ErrorsExplained, BlamedErrErr, PTL
=============================================================================
