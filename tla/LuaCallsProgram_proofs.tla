------------------------ MODULE LuaCallsProgram_proofs ------------------------
(***************************************************************************)
(* Every step of LuaCalls is a chain of the moves of LuaCalls_proofs,      *)
(* or lua_close: the operators that stand for luaD_call, luaD_pcall,       *)
(* lua_resume and luaD_throw are taken apart once, here.                   *)
(***************************************************************************)
EXTENDS LuaCalls_proofs

Then == [th |-> th', cs |-> cstack', mode |-> mode']

-----------------------------------------------------------------------------
(* Calls.                                                                  *)

LEMMA StateFields ==
    ASSUME NEW s \in State, NEW w, NEW D, NEW N
    PROVE  /\ s = [th |-> s.th, cs |-> s.cs, mode |-> s.mode]
           /\ [s EXCEPT !.mode = N] = [th |-> s.th, cs |-> s.cs, mode |-> N]
           /\ [s EXCEPT !.cs = D] = [th |-> s.th, cs |-> D, mode |-> s.mode]
           /\ [s EXCEPT !.th = w] = [th |-> w, cs |-> s.cs, mode |-> s.mode]
BY DEF State

LEMMA PushState ==
    ASSUME NEW s \in State, NEW a
    PROVE  Push(s, a) = [th |-> s.th, cs |-> Append(s.cs, a), mode |-> s.mode]
BY StateFields DEF Push

LEMMA PushFields ==
    ASSUME NEW w, NEW D, NEW N, NEW a
    PROVE  Push([th |-> w, cs |-> D, mode |-> N], a) = [th |-> w, cs |-> Append(D, a), mode |-> N]
BY DEF Push

LEMMA PushedTop ==
    ASSUME NEW C \in Seq(Activation), NEW a \in Activation
    PROVE  /\ Append(C, a) # <<>> /\ Len(Append(C, a)) # 0
           /\ Append(C, a)[Len(Append(C, a))] = a /\ TopThread(Append(C, a)) = a.t
<1>1. Len(Append(C, a)) = Len(C) + 1 /\ Append(C, a)[Len(C) + 1] = a /\ Len(C) \in Nat
  BY AppendFacts
<1>. QED
  BY <1>1 DEF TopThread

LEMMA BecomeThen ==
    ASSUME NEW s, Fine(s), Become(s)
    PROVE  Then = s
BY StateFields DEF Become, Then, Fine, OK

LEMMA ModeStep ==
    ASSUME NEW s, NEW x, Moves(s, x), Acts(x), NEW N \in Mode, Turns(x, N)
    PROVE  Moves(s, [x EXCEPT !.mode = N])
<1>1. ModeMove(x, [x EXCEPT !.mode = N])
  BY DEF ModeMove
<1>. QED
  BY <1>1, OneMove DEF Move

(* x has grown its CallInfos, or has an error instead.                     *)
Grown(x, g, t) ==
    /\ Moves(x, g) /\ Fine(g) /\ Acts(g) /\ g.cs = x.cs /\ g.th[t].ci = x.th[t].ci
    /\ g.mode = "run" => Len(g.th[t].ci) + 1 < g.th[t].size_ci

Grow(x, t) == IF Len(x.th[t].ci) = x.th[t].size_ci - 1 THEN growCI(x, t) ELSE x

LEMMA GrowFacts ==
    ASSUME NEW x, Fine(x), Acts(x), x.mode = "run", NEW t, t = TopThread(x.cs)
    PROVE  Grown(x, Grow(x, t), t)
<1>1. /\ t \in Thread /\ Own(x) = x.th[t] /\ x.th \in [Thread -> LuaState] /\ x \in State
      /\ x.mode \in Mode
  BY OwnFacts DEF Fine, Own, OK
<1>2. PICK o \in LuaState : o = x.th[t]
  BY <1>1
<1>3. PICK q \in Nat : q = Len(o.ci)
  BY <1>1, <1>2, RoomOwn
<1>4. PICK z \in Nat : z = o.size_ci
  BY DEF LuaState
<1>5. q < z
  BY <1>1, <1>2, <1>3, <1>4, RoomOwn
<1>. DEFINE big == [x EXCEPT !.th[t].size_ci = 2 * z]
            l == [o EXCEPT !.size_ci = 2 * z]
<1>6. /\ big = [th |-> [x.th EXCEPT ![t] = l], cs |-> x.cs, mode |-> x.mode]
      /\ l.ci = o.ci /\ l.size_ci = 2 * z /\ l.status = o.status
  <2>1. big = [x EXCEPT !.th = [x.th EXCEPT ![t] = l]]
    BY <1>1, <1>2
  <2>2. l.ci = o.ci /\ l.size_ci = 2 * z /\ l.status = o.status
    BY DEF LuaState
  <2>. QED
    BY <1>1, <2>1, <2>2, StateFields
<1>7. Moves(x, big) /\ Fine(big) /\ Acts(big)
  <2>1. 2 * z \in Nat /\ Len(x.th[t].ci) < 2 * z
    BY <1>2, <1>3, <1>5
  <2>2. SizeMove(x, big)
    BY <1>1, <2>1 DEF SizeMove
  <2>3. Moves(x, big)
    BY <2>2, NoMove, OneMove DEF Move
  <2>4. big.cs = x.cs /\ big.th[t].status = o.status
    BY ZenonT(60), <1>1, <1>6
  <2>. HIDE DEF big
  <2>5. Acts(big)
    BY <1>1, <1>2, <2>4 DEF Acts, Own
  <2>. QED
    BY <2>3, <2>5, MovesKeep
<1>8. big.cs = x.cs /\ big.th[t].ci = o.ci /\ big.th[t].size_ci = 2 * z
  BY <1>1, <1>6
<1>9. ASSUME NEW y, Moves(x, y), Acts(y), NEW N \in Mode, y \in State, Turns(y, N)
      PROVE  LET e == [y EXCEPT !.mode = N]
             IN Moves(x, e) /\ Fine(e) /\ Acts(e) /\ e.cs = y.cs /\ e.th = y.th /\ e.mode = N
  <2>1. Moves(x, [y EXCEPT !.mode = N])
    BY <1>9, ModeStep
  <2>2. /\ [y EXCEPT !.mode = N].cs = y.cs /\ [y EXCEPT !.mode = N].th = y.th
        /\ [y EXCEPT !.mode = N].mode = N
    BY <1>9 DEF State
  <2>. QED
    BY <1>9, <2>1, <2>2, MovesKeep DEF Acts, Own
<1>. HIDE DEF big, l
<1>10. CASE q # z - 1
  <2>1. Grow(x, t) = x
    BY <1>2, <1>3, <1>4, <1>10 DEF Grow
  <2>2. q + 1 < z
    BY <1>5, <1>10
  <2>. QED
    BY <1>2, <1>3, <1>4, <2>1, <2>2, NoMove DEF Grown
<1>11. CASE q = z - 1 /\ z > MaxCalls
  <2>1. Grow(x, t) = ErrErr(x)
    BY <1>2, <1>3, <1>4, <1>11 DEF Grow, growCI
  <2>2. "errerr" \in Mode /\ Turns(x, "errerr")
    <3>1. q >= MaxCalls
      BY <1>11, CallsAssumption
    <3>2. Len(Own(x).ci) >= MaxCalls
      BY <1>1, <1>2, <1>3, <3>1
    <3>. QED
      BY <3>2 DEF Turns, Working, Mode
  <2>. QED
    BY <1>1, <1>9, <2>1, <2>2, NoMove DEF Grown, ErrErr
<1>12. CASE q = z - 1 /\ ~(z > MaxCalls) /\ 2 * z > MaxCalls
  <2>1. Grow(x, t) = Raise(big)
    BY <1>2, <1>3, <1>4, <1>12 DEF Grow, growCI, big
  <2>2. "error" \in Mode /\ big \in State /\ Turns(big, "error")
    BY <1>6, <1>7 DEF Mode, Fine, OK, Turns, Working, big
  <2>. QED
    BY <1>2, <1>7, <1>8, <1>9, <2>1, <2>2 DEF Grown, Raise
<1>13. CASE q = z - 1 /\ ~(z > MaxCalls) /\ ~(2 * z > MaxCalls)
  <2>1. Grow(x, t) = big
    BY <1>2, <1>3, <1>4, <1>13 DEF Grow, growCI, big
  <2>2. q + 1 < 2 * z
    BY <1>5, <1>13
  <2>. QED
    BY <1>2, <1>3, <1>7, <1>8, <2>1, <2>2 DEF Grown
<1>. QED
  BY <1>10, <1>11, <1>12, <1>13

LEMMA PushFrameFacts ==
    ASSUME NEW g \in State, NEW t \in Thread, t = TopThread(g.cs), NEW f, NEW act
    PROVE  LET l == [Own(g) EXCEPT !.ci = Append(@, f)]
           IN /\ PushFrame(g, t, f) = Sets(g, l, g.cs, g.mode)
              /\ Push(PushFrame(g, t, f), act) = Sets(g, l, Append(g.cs, act), g.mode)
              /\ PushFrame(g, t, f).mode = g.mode
<1>. DEFINE l == [Own(g) EXCEPT !.ci = Append(@, f)]
<1>1. g.th \in [Thread -> LuaState]
  BY DEF State
<1>2. PushFrame(g, t, f) = [g EXCEPT !.th = [g.th EXCEPT ![t] = l]]
  BY <1>1 DEF PushFrame, Own
<1>. HIDE DEF l
<1>3. PushFrame(g, t, f) = Sets(g, l, g.cs, g.mode)
  <2>1. PushFrame(g, t, f) = [th |-> [g.th EXCEPT ![t] = l], cs |-> g.cs, mode |-> g.mode]
    BY <1>2, StateFields
  <2>. QED
    BY <2>1 DEF Sets
<1>4. Push(Sets(g, l, g.cs, g.mode), act) = Sets(g, l, Append(g.cs, act), g.mode)
  BY PushFields DEF Sets
<1>5. Sets(g, l, g.cs, g.mode).mode = g.mode
  BY DEF Sets
<1>. QED
  BY <1>3, <1>4, <1>5 DEF l

CanEnter(x, f) ==
    IF f = "lua" THEN TopOf(x).k = "call" \/ (IsResume(TopOf(x)) /\ Own(x).ci = <<>>)
    ELSE TopOf(x).k \in {"exec", "call"}

(* luaD_precall, and luaV_execute for a Lua function.                      *)
Entered(x, t, f) ==
    LET p == luaD_precall(x, t, f)
    IN IF f = "lua" /\ p.mode = "run" THEN Execute(p, t, 1) ELSE p

LEMMA EnterFacts ==
    ASSUME NEW x, Fine(x), Acts(x), x.mode = "run", NEW t, t = TopThread(x.cs),
           NEW f \in Frame, CanEnter(x, f)
    PROVE  Moves(x, Entered(x, t, f))
<1>. DEFINE g == Grow(x, t)
<1>1. Grown(x, g, t) /\ t \in Thread /\ x.th \in [Thread -> LuaState]
  BY GrowFacts, OwnFacts DEF Fine
<1>2. inc_ci(x, t, f) = IF g.mode = "run" THEN PushFrame(g, t, f) ELSE g
  BY DEF inc_ci, Grow
<1>. HIDE DEF g
<1>3. CASE g.mode # "run"
  <2>1. luaD_precall(x, t, f) = g
    BY <1>2, <1>3 DEF luaD_precall
  <2>. QED
    BY <1>1, <1>3, <2>1 DEF Entered, Grown
<1>4. CASE g.mode = "run"
  <2>1. g \in State /\ t = TopThread(g.cs) /\ Acts(g) /\ Moves(x, g) /\ Own(g) = g.th[t]
    BY <1>1 DEF Grown, Fine, OK, Own
  <2>2. PushFrame(g, t, f).mode = "run"
    BY <1>1, <1>4, <2>1, PushFrameFacts
  <2>3. Entered(x, t, f) = Push(PushFrame(g, t, f), Entry(f, t))
    <3>1. CASE f = "lua"
      <4>1. luaD_precall(x, t, f) = PushFrame(g, t, f)
        BY <1>2, <1>4, <2>2, <3>1 DEF luaD_precall
      <4>. QED
        BY <2>2, <3>1, <4>1 DEF Entered, Execute, Entry
    <3>2. CASE f # "lua"
      <4>1. luaD_precall(x, t, f) = Push(PushFrame(g, t, f), Entry(f, t))
        BY <1>2, <1>4, <2>2, <3>2 DEF luaD_precall, Entry
      <4>. QED
        BY <3>2, <4>1 DEF Entered
    <3>. QED
      BY <3>1, <3>2
  <2>4. Entered(x, t, f) =
          Sets(g, [Own(g) EXCEPT !.ci = Append(@, f)], Append(g.cs, Entry(f, t)), g.mode)
    BY <1>1, <2>1, <2>3, PushFrameFacts
  <2>5. TopOf(g) = TopOf(x) /\ Own(g).ci = Own(x).ci /\ Len(Own(g).ci) + 1 < Own(g).size_ci
    BY <1>1, <1>4, <2>1 DEF Grown, TopOf, Own
  <2>6. EnterMove(g, Entered(x, t, f))
    BY <1>4, <2>1, <2>4, <2>5 DEF EnterMove, CanEnter
  <2>. QED
    BY <2>1, <2>6, OneMove DEF Move
<1>. QED
  BY <1>3, <1>4

(* luaD_call, from a C function or luaV_execute.                           *)
LEMMA CallFacts ==
    ASSUME NEW x, Fine(x), Acts(x), x.mode = "run", ~IsResume(TopOf(x)),
           NEW t, t = TopThread(x.cs), NEW f \in Frame
    PROVE  Moves(x, luaD_call(x, t, f)) /\ Fine(luaD_call(x, t, f))
<1>. DEFINE m == x.th[t].nCcalls + 1
            a == [k |-> "call", t |-> t]
            v == [x EXCEPT !.th[t].nCcalls = m]
            y == Push(v, a)
<1>1. /\ t \in Thread /\ x.th \in [Thread -> LuaState] /\ x.cs \in Seq(Activation)
      /\ x \in State /\ Own(x) = x.th[t] /\ x.cs # <<>>
  BY OwnFacts DEF Fine, OK, Own, Acts
<1>2. PICK o \in LuaState : o = x.th[t]
  BY <1>1
<1>. DEFINE l == [o EXCEPT !.nCcalls = @ + 1]
<1>3. y = Sets(x, l, Append(x.cs, a), x.mode)
  <2>1. v = [x EXCEPT !.th = [x.th EXCEPT ![t] = l]]
    BY <1>1, <1>2
  <2>. HIDE DEF l, a, v
  <2>2. v = [th |-> [x.th EXCEPT ![t] = l], cs |-> x.cs, mode |-> x.mode]
    BY <1>1, <2>1, StateFields
  <2>. QED
    BY <2>2, PushFields DEF Sets
<1>4. ASSUME NEW N \in Mode, Counts(m, N)
      PROVE  Moves(x, [y EXCEPT !.mode = N])
  <2>1. PICK z : z = [y EXCEPT !.mode = N]
    OBVIOUS
  <2>2. z = Sets(x, l, Append(x.cs, a), N)
    <3>. HIDE DEF l, a, y
    <3>. QED
      BY <1>3, <2>1 DEF Sets
  <2>3. CallMove(x, z)
    BY <1>1, <1>2, <1>4, <2>2 DEF CallMove
  <2>. QED
    BY <2>1, <2>3, NoMove, OneMove DEF Move
<1>5. m < MaxCCalls + ErrorRoom /\ m # MaxCCalls => Moves(x, y) /\ Fine(y)
  <2>1. ASSUME m < MaxCCalls + ErrorRoom, m # MaxCCalls PROVE Moves(x, y)
    <3>0. "run" \in Mode /\ Counts(m, "run")
      BY <2>1 DEF Mode, Counts
    <3>1. Moves(x, [y EXCEPT !.mode = "run"])
      BY <1>4, <3>0
    <3>2. [y EXCEPT !.mode = "run"] = y
      <4>1. PICK u, D : u = [x.th EXCEPT ![TopThread(x.cs)] = l] /\ D = Append(x.cs, a)
        OBVIOUS
      <4>. HIDE DEF l, a, y
      <4>2. y = [th |-> u, cs |-> D, mode |-> "run"]
        BY <1>3, <4>1 DEF Sets
      <4>. QED
        BY <4>2
    <3>. QED
      BY <3>1, <3>2
  <2>. QED
    BY <2>1, MovesKeep
<1>6. /\ Acts(y) /\ TopThread(y.cs) = t /\ y.mode = "run" /\ TopOf(y).k = "call"
  <2>1. l.status = "ok"
    BY <1>1, <1>2 DEF Acts, LuaState
  <2>2. /\ Append(x.cs, a) # <<>> /\ Append(x.cs, a)[Len(Append(x.cs, a))] = a
        /\ TopThread(Append(x.cs, a)) = a.t
    <3>1. a \in Activation
      BY <1>1 DEF Activation, Plain
    <3>. QED
      BY <1>1, <3>1, PushedTop
  <2>4. a.t = t /\ a.k = "call"
    OBVIOUS
  <2>. HIDE DEF y, l, a
  <2>3. y.th = [x.th EXCEPT ![t] = l] /\ y.cs = Append(x.cs, a) /\ y.mode = "run"
    BY <1>3 DEF Sets
  <2>5. TopThread(y.cs) = t /\ TopOf(y).k = "call"
    BY <2>2, <2>3, <2>4 DEF TopOf
  <2>6. y.th[t].status = "ok"
    BY <1>1, <2>1, <2>3
  <2>. QED
    BY <2>2, <2>3, <2>5, <2>6 DEF Acts, Own
<1>7. m < MaxCCalls + ErrorRoom /\ m # MaxCCalls => Moves(x, Entered(y, t, f))
  <2>1. CanEnter(y, f)
    BY <1>6 DEF CanEnter
  <2>2. ASSUME m < MaxCCalls + ErrorRoom, m # MaxCCalls PROVE Moves(y, Entered(y, t, f))
    BY <1>5, <1>6, <2>1, <2>2, EnterFacts
  <2>. QED
    BY <1>5, <2>2, MovesOn
<1>8. /\ m >= MaxCCalls + ErrorRoom => Moves(x, ErrErr(y))
      /\ m = MaxCCalls => Moves(x, Raise(y))
  <2>1. m >= MaxCCalls + ErrorRoom => Counts(m, "errerr")
    BY DEF Counts, Working
  <2>2. m = MaxCCalls => Counts(m, "error")
    BY CallsAssumption DEF Counts
  <2>3. "error" \in Mode /\ "errerr" \in Mode
    BY DEF Mode
  <2>. HIDE DEF m, y
  <2>. QED
    BY <1>4, <2>1, <2>2, <2>3 DEF Raise, ErrErr
<1>9. \/ m = MaxCCalls /\ luaD_call(x, t, f) = Raise(y)
      \/ m >= MaxCCalls + ErrorRoom /\ luaD_call(x, t, f) = ErrErr(y)
      \/ /\ ~(m = MaxCCalls) /\ ~(m >= MaxCCalls + ErrorRoom)
         /\ luaD_call(x, t, f) = Entered(y, t, f)
  BY DEF luaD_call, Entered
<1>10. m \in Nat
  <2>1. o.nCcalls \in Nat
    BY DEF LuaState
  <2>. QED
    BY <1>2, <2>1
<1>11. ~(m >= MaxCCalls + ErrorRoom) => m < MaxCCalls + ErrorRoom
  <2>. HIDE DEF m
  <2>. QED
    BY <1>10, CallsAssumption
<1>. HIDE DEF m, y
<1>. QED
  BY <1>7, <1>8, <1>9, <1>11, MovesKeep

LEMMA RawFields ==
    ASSUME NEW s \in State, NEW t \in Thread, NEW kind
    PROVE  luaD_rawrunprotected(s, t, kind) =
             [th |-> [s.th EXCEPT ![t] = [s.th[t] EXCEPT !.errorJmp = Len(s.cs) + 1]],
              cs |-> Append(s.cs, TryOf(kind, t, s.th[t])), mode |-> s.mode]
<1>. DEFINE a == TryOf(kind, t, s.th[t])
            e == Len(s.cs) + 1
<1>1. luaD_rawrunprotected(s, t, kind) = [Push(s, a) EXCEPT !.th[t].errorJmp = e]
  BY DEF luaD_rawrunprotected, TryOf
<1>. HIDE DEF a, e
<1>2. Push(s, a) = [th |-> s.th, cs |-> Append(s.cs, a), mode |-> s.mode]
  BY PushState
<1>3. [Push(s, a) EXCEPT !.th[t].errorJmp = e] =
         [th |-> [s.th EXCEPT ![t] = [s.th[t] EXCEPT !.errorJmp = e]],
          cs |-> Append(s.cs, a), mode |-> s.mode]
  <2>1. s.th \in [Thread -> LuaState]
    BY DEF State
  <2>2. PICK y : y = Push(s, a)
    OBVIOUS
  <2>3. PICK D, N : D = Append(s.cs, a) /\ N = s.mode
    OBVIOUS
  <2>4. y = [th |-> s.th, cs |-> D, mode |-> N]
    BY <1>2, <2>2, <2>3
  <2>5. [y EXCEPT !.th[t].errorJmp = e] =
           [th |-> [s.th EXCEPT ![t] = [s.th[t] EXCEPT !.errorJmp = e]], cs |-> D, mode |-> N]
    BY <2>1, <2>4
  <2>. QED
    BY <2>2, <2>3, <2>5
<1>. QED
  BY <1>1, <1>3 DEF a, e

LEMMA PcallFields ==
    ASSUME NEW s \in State, NEW t \in Thread, t = TopThread(s.cs), NEW ef
    PROVE  luaD_pcall(s, t, ef) =
             Sets(s, [Own(s) EXCEPT !.errorJmp = Len(s.cs) + 1, !.errfunc = ef],
                  Append(s.cs, TryOf("pcall", t, Own(s))), s.mode)
<1>. DEFINE a == TryOf("pcall", t, s.th[t])
            e == Len(s.cs) + 1
<1>1. luaD_rawrunprotected(s, t, "pcall") =
             [th |-> [s.th EXCEPT ![t] = [s.th[t] EXCEPT !.errorJmp = e]],
              cs |-> Append(s.cs, a), mode |-> s.mode]
  BY RawFields
<1>2. s.th \in [Thread -> LuaState]
  BY DEF State
<1>. HIDE DEF a, e
<1>3. luaD_pcall(s, t, ef) =
         [th |-> [s.th EXCEPT ![t] = [s.th[t] EXCEPT !.errorJmp = e, !.errfunc = ef]],
          cs |-> Append(s.cs, a), mode |-> s.mode]
  <2>1. PICK v \in [Thread -> LuaState] : v = s.th
    BY <1>2
  <2>. DEFINE w == [v EXCEPT ![t] = [v[t] EXCEPT !.errorJmp = e]]
  <2>2. e \in Nat
    BY DEF State, e
  <2>3. w \in [Thread -> LuaState]
    BY ZenonT(60), <2>2 DEF LuaState
  <2>4. luaD_pcall(s, t, ef) = [th |-> [w EXCEPT ![t] = [w[t] EXCEPT !.errfunc = ef]],
                                cs |-> Append(s.cs, a), mode |-> s.mode]
    <3>1. luaD_rawrunprotected(s, t, "pcall") = [th |-> w, cs |-> Append(s.cs, a), mode |-> s.mode]
      BY <1>1, <2>1
    <3>. HIDE DEF w
    <3>2. PICK y : y = luaD_rawrunprotected(s, t, "pcall")
      OBVIOUS
    <3>3. PICK D, N : D = Append(s.cs, a) /\ N = s.mode
      OBVIOUS
    <3>4. y = [th |-> w, cs |-> D, mode |-> N]
      BY <3>1, <3>2, <3>3
    <3>5. [y EXCEPT !.th[t].errfunc = ef] =
            [th |-> [w EXCEPT ![t] = [w[t] EXCEPT !.errfunc = ef]], cs |-> D, mode |-> N]
      BY <2>3, <3>4
    <3>. QED
      BY <3>2, <3>3, <3>5 DEF luaD_pcall
  <2>5. [w EXCEPT ![t] = [w[t] EXCEPT !.errfunc = ef]] =
          [v EXCEPT ![t] = [v[t] EXCEPT !.errorJmp = e, !.errfunc = ef]]
    OBVIOUS
  <2>. QED
    BY <2>1, <2>4, <2>5
<1>. QED
  BY <1>3 DEF Sets, Own, a, e

(* A protected call has begun.                                             *)
Began(x, p, t) ==
    /\ Moves(x, p) /\ Fine(p) /\ Acts(p) /\ TopThread(p.cs) = t
    /\ IsTry(TopOf(p)) /\ ~IsResume(TopOf(p)) /\ p.mode = x.mode
    /\ Own(p).allowhook = Own(x).allowhook

LEMMA PcallStep ==
    ASSUME NEW x, Fine(x), Own(x).status = "ok", x.mode = "run",
           x.cs = <<>> \/ (TopOf(x).k = "cfun" /\ TopOf(x).f \in Protecting),
           NEW t, t = TopThread(x.cs), NEW ef, ef = HandlerFor(x)
    PROVE  Began(x, luaD_pcall(x, t, ef), t)
<1>. DEFINE p == luaD_pcall(x, t, ef)
            a == TryOf("pcall", t, Own(x))
            l == [Own(x) EXCEPT !.errorJmp = Len(x.cs) + 1, !.errfunc = ef]
<1>1. /\ t \in Thread /\ x.th \in [Thread -> LuaState] /\ x.cs \in Seq(Activation)
      /\ x \in State /\ Own(x) = x.th[t] /\ Own(x) \in LuaState
  BY OwnFacts DEF Fine, OK, Own
<1>2. p = Sets(x, l, Append(x.cs, a), x.mode)
  BY Zenon, <1>1, PcallFields
<1>3. PcallMove(x, p)
  BY <1>2 DEF PcallMove
<1>4. Moves(x, p) /\ Fine(p)
  BY <1>3, NoMove, OneMove, MovesKeep DEF Move
<1>5. a \in Try /\ a.t = t /\ a.kind = "pcall"
  BY <1>1, TryFacts
<1>6. a \in Activation /\ IsTry(a) /\ ~IsResume(a)
  BY <1>5 DEF Activation, Try, IsTry, IsResume
<1>7. l.status = "ok" /\ l.allowhook = Own(x).allowhook
  <2>1. PICK o \in LuaState : o = Own(x)
    BY <1>1
  <2>. QED
    BY <2>1 DEF LuaState
<1>. HIDE DEF p, a, l
<1>8. p.th = [x.th EXCEPT ![t] = l] /\ p.cs = Append(x.cs, a) /\ p.mode = x.mode
  BY <1>1, <1>2 DEF Sets
<1>9. p.cs # <<>> /\ TopThread(p.cs) = t /\ TopOf(p) = a
  BY <1>1, <1>5, <1>6, <1>8, PushedTop DEF TopOf
<1>10. Own(p) = l
  BY <1>1, <1>8, <1>9 DEF Own
<1>11. Acts(p)
  BY <1>7, <1>9, <1>10 DEF Acts
<1>12. Began(x, p, t)
  BY <1>4, <1>6, <1>7, <1>8, <1>9, <1>10, <1>11 DEF Began
<1>. QED
  BY <1>12 DEF p

LEMMA PcallCall ==
    ASSUME NEW x, Fine(x), Own(x).status = "ok", x.mode = "run",
           x.cs = <<>> \/ (TopOf(x).k = "cfun" /\ TopOf(x).f \in Protecting),
           NEW t, t = TopThread(x.cs), NEW ef, ef = HandlerFor(x), NEW f \in Frame
    PROVE  Moves(x, luaD_call(luaD_pcall(x, t, ef), t, f))
<1>1. Began(x, luaD_pcall(x, t, ef), t)
  BY PcallStep
<1>2. Moves(luaD_pcall(x, t, ef), luaD_call(luaD_pcall(x, t, ef), t, f))
  BY <1>1, CallFacts DEF Began
<1>. QED
  BY <1>1, <1>2, MovesOn DEF Began

(* A hook, a finalizer, an error handler or the parser begins.             *)
LEMMA BeginStep ==
    ASSUME NEW x, Fine(x), Acts(x), NEW a \in Activation, NEW h \in BOOLEAN,
           NEW l, l = [Own(x) EXCEPT !.allowhook = h],
           NEW y, y = Sets(x, l, Append(x.cs, a), x.mode),
           BeginMove(x, y), a.t = TopThread(x.cs)
    PROVE  Moves(x, y) /\ Fine(y) /\ Acts(y) /\ TopOf(y) = a
           /\ TopThread(y.cs) = a.t /\ y.mode = x.mode
<1>1. /\ a.t \in Thread /\ x.th \in [Thread -> LuaState] /\ x.cs \in Seq(Activation)
      /\ Own(x) = x.th[a.t] /\ Own(x) \in LuaState
  BY OwnFacts DEF Fine, OK, Own
<1>2. Moves(x, y) /\ Fine(y)
  BY NoMove, OneMove, MovesKeep DEF Move
<1>3. l.status = "ok"
  <2>1. PICK o \in LuaState : o = Own(x)
    BY <1>1
  <2>. QED
    BY <2>1 DEF LuaState, Acts
<1>4. y.th = [x.th EXCEPT ![a.t] = l] /\ y.cs = Append(x.cs, a) /\ y.mode = x.mode
  <2>1. PICK t : t = a.t
    OBVIOUS
  <2>2. TopThread(x.cs) = t
    BY <2>1
  <2>. QED
    BY <2>1, <2>2 DEF Sets
<1>5. y.cs # <<>> /\ TopThread(y.cs) = a.t /\ TopOf(y) = a
  <2>1. PICK D \in Seq(Activation) : D = x.cs
    BY <1>1
  <2>2. /\ Append(D, a) # <<>> /\ TopThread(Append(D, a)) = a.t
        /\ Append(D, a)[Len(Append(D, a))] = a
    BY PushedTop
  <2>3. y.cs = Append(D, a)
    BY <1>4, <2>1
  <2>. QED
    BY <2>2, <2>3 DEF TopOf
<1>6. Acts(y)
  BY ZenonT(60), <1>1, <1>3, <1>4, <1>5 DEF Acts, Own
<1>. QED
  BY <1>2, <1>4, <1>5, <1>6

LEMMA ActsFacts ==
    ASSUME NEW s, OK(s), s.cs # <<>>,
           ~IsResume(TopOf(s)) \/ s.mode # "run" \/ Own(s).status # "yield"
    PROVE  Acts(s)
<1>1. PICK F, G, H : Shape(s.th, s.cs, s.mode, F, G, H)
  BY DEF OK, Good
<1>2. PICK n \in Nat \ {0} : n = Len(s.cs)
  BY OwnFacts
<1>3. /\ s.th \in [Thread -> LuaState] /\ s.cs \in Seq(Activation)
      /\ TopThread(s.cs) = s.cs[n].t /\ Own(s) = s.th[s.cs[n].t]
  BY <1>2, OwnFacts DEF TopOf, Own
<1>4. PICK t, e : t = s.cs[n].t /\ e = s.th[t].errorJmp
  OBVIOUS
<1>5. TopReady(s.th, s.cs, s.mode, n, t, e)
  BY Zenon, <1>1, <1>2, <1>3, <1>4, TopFacts
<1>6. Own(s).status = "ok" \/ Switching(Own(s), s.cs, s.mode)
  BY Zenon, <1>3, <1>4, <1>5 DEF TopReady
<1>7. Switching(Own(s), s.cs, s.mode) => s.mode = "run" /\ Own(s).status = "yield" /\ IsResume(TopOf(s))
  BY DEF Switching, TopOf
<1>. QED
  BY <1>6, <1>7 DEF Acts

LEMMA DoneStep ==
    ASSUME NEW x, Fine(x), Acts(x), TopOf(x).k = "cfun", x.mode = "run"
    PROVE  Moves(x, Done(x)) /\ ThroughMove(x, Done(x))
<1>1. x \in State /\ x.cs \in Seq(Activation)
  BY DEF Fine, OK, State
<1>2. PICK n \in Nat : n = Len(x.cs) /\ n \in DOMAIN x.cs
  BY <1>1, OwnFacts DEF Fine, Acts
<1>3. PICK b \in Activation : b = x.cs[n]
  BY <1>1, <1>2
<1>4. Done(x) = [x EXCEPT !.cs = [x.cs EXCEPT ![n] = [b EXCEPT !.st = "done"]]]
  BY <1>1, <1>2, <1>3 DEF Done
<1>5. ThroughMove(x, Done(x))
  BY <1>2, <1>3, <1>4 DEF ThroughMove
<1>. QED
  BY <1>5, NoMove, OneMove DEF Move

LEMMA FailedStep ==
    ASSUME NEW x, Fine(x), Acts(x), TopOf(x).k = "cfun", x.mode = "run"
    PROVE  Moves(x, ResumeFailed(x))
<1>1. Moves(x, Raise(x))
  BY NoMove, ModeStep DEF Raise, Mode, Turns, Working
<1>. QED
  BY <1>1, DoneStep DEF ResumeFailed, TopOf

-----------------------------------------------------------------------------
(* The steps.                                                              *)

LEMMA NowFacts ==
    ASSUME Fine(Now)
    PROVE  /\ Now.th = th /\ Now.cs = cstack /\ Now.mode = mode /\ OK(Now)
           /\ th \in [Thread -> LuaState] /\ cstack \in Seq(Activation) /\ mode \in Mode
           /\ Now \in State
           /\ cstack # <<>> => /\ Top = TopOf(Now) /\ Top.t = TopThread(cstack)
                               /\ Top.t \in Thread /\ Own(Now) = th[Top.t]
                               /\ Top \in Activation
           /\ cstack = <<>> => TopThread(cstack) = MainThread /\ Own(Now) = th[MainThread]
<1>1. Now.th = th /\ Now.cs = cstack /\ Now.mode = mode
  BY DEF Now
<1>2. cstack # <<>> => Top = TopOf(Now)
  BY <1>1 DEF Top, TopOf
<1>. QED
  BY <1>1, <1>2, OwnFacts DEF Fine, OK, Own

LEMMA BecomeMoves ==
    ASSUME Fine(Now), NEW r, Become(r), Moves(Now, r)
    PROVE  Moves(Now, Then)
BY BecomeThen, MovesKeep

LEMMA BecomeEnds ==
    ASSUME Fine(Now), NEW r, Become(r), EndsPcall(Now, r)
    PROVE  EndsPcall(Now, Then)
BY BecomeThen, EndsKeep

LEMMA BecomeOne ==
    ASSUME Fine(Now), NEW r, Become(r), Move(Now, r)
    PROVE  Then = r
BY MoveKeepsRoom, BecomeThen

(* Some code runs, which may call, return or raise an error.               *)
Runs == mode = "run" /\ cstack # <<>> /\ Top.k # "try"

LEMMA RunsFacts ==
    ASSUME Fine(Now), Runs
    PROVE  /\ Acts(Now) /\ ~IsResume(TopOf(Now)) /\ Now.mode = "run"
           /\ Top = TopOf(Now) /\ Top.t = TopThread(Now.cs) /\ Top.t \in Thread
           /\ Own(Now) = th[Top.t] /\ Now.th[Top.t] = th[Top.t] /\ Top \in Activation
<1>1. Top = TopOf(Now) /\ Now.cs = cstack
  BY NowFacts DEF Runs
<1>2. ~IsResume(TopOf(Now))
  BY <1>1 DEF Runs, IsResume
<1>. QED
  BY <1>1, <1>2, NowFacts, ActsFacts DEF Runs

LEMMA CallStep ==
    ASSUME Fine(Now), Runs, NEW f \in Frame, Become(luaD_call(Now, Top.t, f))
    PROVE  Moves(Now, Then)
BY RunsFacts, CallFacts, BecomeMoves

LEMMA FramesKnown == Callee \subseteq Frame /\ CFunction \subseteq Frame /\ "lua" \in Frame
BY DEF Callee, Frame, CFunction

(* luaV_execute goes on with a Lua function that it has called.            *)
Deeper(s) ==
    Sets(s, [Own(s) EXCEPT !.ci = Append(@, "lua")],
         [s.cs EXCEPT ![Len(s.cs)] = [TopOf(s) EXCEPT !.n = @ + 1]], s.mode)

LEMMA OpCallEnters ==
    ASSUME Fine(Now), OpCall
    PROVE  /\ Moves(Now, Then)
           /\ \/ \E f \in Frame : Then = Entered(Now, Top.t, f)
              \/ Then = Grow(Now, Top.t)
              \/ Grow(Now, Top.t).mode = "run" /\ Then = Deeper(Grow(Now, Top.t))
<1>1. Runs /\ Top.k = "exec" /\ cstack # <<>>
  BY DEF OpCall, InLua, Runs
<1>2. PICK f \in CFunction \cup {"lua"} :
        LET s == luaD_precall(Now, Top.t, f)
        IN Become(IF f = "lua" /\ s.mode = "run" THEN Reentry(s, 1) ELSE s)
  BY DEF OpCall
<1>3. f \in Frame
  BY <1>2 DEF Frame
<1>. DEFINE t == Top.t  g == Grow(Now, t)
<1>4. Grown(Now, g, t) /\ t \in Thread /\ TopOf(Now).k = "exec"
  BY <1>1, RunsFacts, GrowFacts
<1>5. CASE f # "lua"
  <2>1. CanEnter(Now, f)
    BY <1>4, <1>5 DEF CanEnter
  <2>2. Moves(Now, Entered(Now, t, f))
    BY <1>1, <1>3, <2>1, RunsFacts, EnterFacts
  <2>3. Entered(Now, t, f) = luaD_precall(Now, t, f)
    BY <1>5 DEF Entered
  <2>. QED
    BY <1>2, <1>3, <1>5, <2>2, <2>3, BecomeThen, MovesKeep
<1>6. CASE f = "lua" /\ g.mode # "run"
  <2>1. luaD_precall(Now, t, f) = g
    BY <1>6 DEF luaD_precall, inc_ci, Grow
  <2>. QED
    BY <1>2, <1>4, <1>6, <2>1, BecomeThen, MovesKeep DEF Grown
<1>7. CASE f = "lua" /\ g.mode = "run"
  <2>. DEFINE r == Reentry(PushFrame(g, t, f), 1)
  <2>1. g \in State /\ g.cs = cstack /\ Acts(g) /\ Moves(Now, g) /\ t = TopThread(g.cs) /\ Fine(g)
    BY <1>1, <1>4, NowFacts DEF Grown, Fine, OK
  <2>2. PushFrame(g, t, f).mode = "run"
    BY ZenonT(60), <1>4, <1>7, <2>1, PushFrameFacts
  <2>3. luaD_precall(Now, t, f) = PushFrame(g, t, f)
    BY <1>7, <2>2 DEF luaD_precall, inc_ci, Grow
  <2>4. Become(r)
    BY <1>2, <1>7, <2>2, <2>3
  <2>5. PushFrame(g, t, f) = Sets(g, [Own(g) EXCEPT !.ci = Append(@, f)], g.cs, g.mode)
    BY <1>4, <2>1, PushFrameFacts
  <2>6. PICK n : n = Len(g.cs) /\ n \in DOMAIN g.cs
    BY <1>1, <2>1, NowFacts
  <2>7. PICK b \in Activation : b = g.cs[n] /\ b = TopOf(g) /\ b = TopOf(Now)
    BY <1>1, <2>1, <2>6, NowFacts DEF TopOf
  <2>8. r = Sets(g, [Own(g) EXCEPT !.ci = Append(@, f)],
                 [g.cs EXCEPT ![n] = [b EXCEPT !.n = b.n + 1]], g.mode)
    <3>1. PICK D \in Seq(Activation) : D = g.cs /\ n \in DOMAIN D /\ b = D[n] /\ n = Len(cstack)
      BY <2>1, <2>6, <2>7 DEF State
    <3>2. PICK p, w, l : /\ p = PushFrame(g, t, f) /\ l = [Own(g) EXCEPT !.ci = Append(@, f)]
                         /\ w = [g.th EXCEPT ![TopThread(g.cs)] = l]
      OBVIOUS
    <3>3. p = [th |-> w, cs |-> D, mode |-> g.mode]
      BY <2>5, <3>1, <3>2 DEF Sets
    <3>4. p.cs = D /\ p.cs[n] = b
      BY <3>1, <3>3
    <3>5. Reentry(p, 1) = [p EXCEPT !.cs = [D EXCEPT ![n] = [b EXCEPT !.n = b.n + 1]]]
      BY <3>1, <3>4 DEF Reentry
    <3>6. Reentry(p, 1) = [th |-> w, cs |-> [D EXCEPT ![n] = [b EXCEPT !.n = b.n + 1]],
                           mode |-> g.mode]
      BY <3>3, <3>5
    <3>. QED
      BY <3>1, <3>2, <3>6 DEF Sets
  <2>9. r = Deeper(g)
    <3>1. [b EXCEPT !.n = b.n + 1] = [TopOf(g) EXCEPT !.n = @ + 1]
      BY <1>4, <2>7
    <3>. HIDE DEF r
    <3>. QED
      BY <1>7, <2>6, <2>8, <3>1 DEF Deeper
  <2>10. Len(Own(g).ci) + 1 < Own(g).size_ci
    BY <1>4, <1>7, <2>1 DEF Grown, Own
  <2>11. ReenterMove(g, r)
    <3>. HIDE DEF r
    <3>. QED
      BY <1>4, <1>7, <2>1, <2>7, <2>9, <2>10 DEF ReenterMove, Deeper
  <2>12. Moves(Now, r)
    BY <2>1, <2>11, OneMove DEF Move
  <2>. QED
    <3>1. Then = r
      BY <2>4, <2>12, BecomeThen, MovesKeep
    <3>. HIDE DEF r, g, t
    <3>. QED
      BY <1>7, <2>9, <2>12, <3>1 DEF g, t
<1>. QED
  BY <1>5, <1>6, <1>7

LEMMA PopFields ==
    ASSUME NEW w, NEW D, NEW N
    PROVE  Pop([th |-> w, cs |-> D, mode |-> N]) =
             [th |-> w, cs |-> SubSeq(D, 1, Len(D) - 1), mode |-> N]
BY DEF Pop

LEMMA PopFrameFields ==
    ASSUME NEW s \in State, NEW t \in Thread, t = TopThread(s.cs)
    PROVE  /\ PopFrame(s, t) =
                Sets(s, [Own(s) EXCEPT !.ci = SubSeq(@, 1, Len(@) - 1)], s.cs, s.mode)
           /\ Pop(PopFrame(s, t)) =
                Sets(s, [Own(s) EXCEPT !.ci = SubSeq(@, 1, Len(@) - 1)],
                     SubSeq(s.cs, 1, Len(s.cs) - 1), s.mode)
           /\ Pop(s) = [th |-> s.th, cs |-> SubSeq(s.cs, 1, Len(s.cs) - 1), mode |-> s.mode]
           /\ Sets(s, Own(s), SubSeq(s.cs, 1, Len(s.cs) - 1), s.mode) = Pop(s)
<1>. DEFINE l == [Own(s) EXCEPT !.ci = SubSeq(@, 1, Len(@) - 1)]
<1>1. s.th \in [Thread -> LuaState]
  BY DEF State
<1>2. PopFrame(s, t) = [s EXCEPT !.th = [s.th EXCEPT ![t] = l]]
  BY <1>1 DEF PopFrame, Own
<1>. HIDE DEF l
<1>3. PopFrame(s, t) = [th |-> [s.th EXCEPT ![t] = l], cs |-> s.cs, mode |-> s.mode]
  BY <1>2, StateFields
<1>4. PopFrame(s, t) = Sets(s, l, s.cs, s.mode)
  BY <1>3 DEF Sets
<1>5. PICK D : D = SubSeq(s.cs, 1, Len(s.cs) - 1)
  OBVIOUS
<1>6. Pop(PopFrame(s, t)) = Sets(s, l, D, s.mode)
  <2>1. PICK p, w, N : p = PopFrame(s, t) /\ w = [s.th EXCEPT ![t] = l] /\ N = s.mode
    OBVIOUS
  <2>2. p = [th |-> w, cs |-> s.cs, mode |-> N]
    BY <1>3, <2>1
  <2>3. Pop(p) = [th |-> w, cs |-> D, mode |-> N]
    BY <1>5, <2>2, PopFields
  <2>. QED
    BY <2>1, <2>3 DEF Sets
<1>7. Pop(s) = [th |-> s.th, cs |-> D, mode |-> s.mode]
  BY <1>5, StateFields DEF Pop
<1>8. Sets(s, Own(s), D, s.mode) = Pop(s)
  BY <1>1, <1>7 DEF Sets, Own
<1>. QED
  BY <1>4, <1>5, <1>6, <1>7, <1>8 DEF l

LEMMA OpTailCallGrows ==
    ASSUME Fine(Now), OpTailCall
    PROVE  Moves(Now, Then) /\ Then = Grow(Now, Top.t)
<1>1. Runs /\ Top.k = "exec" /\ cstack # <<>>
  BY DEF OpTailCall, InLua, Runs
<1>. DEFINE t == Top.t  g == Grow(Now, t)  s == luaD_precall(Now, Top.t, "lua")
<1>2. Become(IF s.mode = "run" THEN PopFrame(s, t) ELSE s)
  BY DEF OpTailCall
<1>3. Grown(Now, g, t) /\ t \in Thread
  BY <1>1, RunsFacts, GrowFacts
<1>4. g \in State /\ t = TopThread(g.cs) /\ Moves(Now, g)
  BY <1>1, <1>3, RunsFacts, NowFacts DEF Grown, Fine, OK
<1>5. CASE g.mode # "run"
  <2>1. s = g
    BY <1>5 DEF luaD_precall, inc_ci, Grow
  <2>. QED
    BY <1>2, <1>4, <1>5, <2>1, BecomeThen, MovesKeep
<1>6. CASE g.mode = "run"
  <2>1. s = PushFrame(g, t, "lua") /\ s.mode = "run"
    <3>1. PushFrame(g, t, "lua").mode = "run"
      BY <1>3, <1>4, <1>6, PushFrameFacts
    <3>. QED
      BY <1>6, <3>1 DEF luaD_precall, inc_ci, Grow
  <2>2. PICK o \in LuaState : o = Own(g)
    BY <1>3, OwnFacts DEF Grown, Fine
  <2>3. PICK w \in [Thread -> LuaState], D \in Seq(Activation), N \in Mode :
               g = [th |-> w, cs |-> D, mode |-> N] /\ o = w[t]
    BY <1>4, <2>2 DEF State, Own
  <2>. DEFINE l == [o EXCEPT !.ci = Append(o.ci, "lua")]
              v == [w EXCEPT ![t] = l]
  <2>4. s = [th |-> v, cs |-> D, mode |-> N]
    <3>1. PICK y : y = g /\ y = [th |-> w, cs |-> D, mode |-> N]
      BY <2>3
    <3>. HIDE DEF g, s
    <3>2. [y EXCEPT !.th[t].ci = Append(@, "lua")] = [th |-> v, cs |-> D, mode |-> N]
      BY <1>3, <2>3, <3>1
    <3>. QED
      BY <2>1, <3>1, <3>2 DEF PushFrame
  <2>5. l \in LuaState /\ l.ci = Append(o.ci, "lua") /\ o.ci \in Seq(Frame)
    BY FramesKnown, CallInfoFacts DEF LuaState
  <2>6. SubSeq(l.ci, 1, Len(l.ci) - 1) = o.ci
    BY <2>5, FramesKnown
  <2>7. [l EXCEPT !.ci = o.ci] = o
    BY <2>5 DEF LuaState
  <2>8. v \in [Thread -> LuaState] /\ v[t] = l /\ [v EXCEPT ![t] = o] = w
    BY <1>3, <2>3, <2>5
  <2>. HIDE DEF l, v, s
  <2>9. PopFrame(s, t) = [th |-> [v EXCEPT ![t] = [l EXCEPT !.ci = o.ci]], cs |-> D, mode |-> N]
    <3>1. PICK y : y = s /\ y = [th |-> v, cs |-> D, mode |-> N]
      BY <2>4
    <3>2. PICK k : k = SubSeq(l.ci, 1, Len(l.ci) - 1) /\ k = o.ci
      BY <2>6
    <3>3. [y EXCEPT !.th[t].ci = k] = [th |-> [v EXCEPT ![t] = [l EXCEPT !.ci = k]], cs |-> D, mode |-> N]
      BY <1>3, <2>8, <3>1
    <3>4. PopFrame(y, t) = [y EXCEPT !.th[t].ci = k]
      <4>1. y.th = v /\ y.th[t].ci = l.ci
        BY <2>8, <3>1
      <4>2. SubSeq(y.th[t].ci, 1, Len(y.th[t].ci) - 1) = k
        BY <3>2, <4>1
      <4>. QED
        BY <1>3, <4>2 DEF PopFrame
    <3>. QED
      BY <3>1, <3>2, <3>3, <3>4
  <2>10. PopFrame(s, t) = g
    BY <2>3, <2>7, <2>8, <2>9
  <2>. QED
    BY <1>2, <1>4, <2>1, <2>10, BecomeThen, MovesKeep
<1>. QED
  BY <1>5, <1>6

LEMMA OpReturnMoves ==
    ASSUME Fine(Now), OpReturn
    PROVE  LeaveMove(Now, Then) \/ ReenterMove(Now, Then)
<1>1. Runs /\ Top.k = "exec" /\ cstack # <<>>
  BY DEF OpReturn, InLua, Runs
<1>. DEFINE t == Top.t
<1>2. PICK r : /\ Become(r)
               /\ r = IF Top.n = 1 THEN Pop(PopFrame(Now, t)) ELSE Reentry(PopFrame(Now, t), -1)
  BY DEF OpReturn
<1>3. /\ Now \in State /\ t \in Thread /\ t = TopThread(Now.cs) /\ Acts(Now) /\ Now.mode = "run"
      /\ TopOf(Now) = Top /\ Now.cs = cstack
  BY <1>1, RunsFacts, NowFacts
<1>4. PICK o \in LuaState : o = Own(Now)
  BY OwnFacts DEF Fine
<1>. DEFINE l == [Own(Now) EXCEPT !.ci = SubSeq(@, 1, Len(@) - 1)]
<1>5. l \in LuaState
  BY <1>4, ShrinkFacts DEF LuaState
<1>6. CASE Top.n = 1
  <2>1. r = Sets(Now, l, SubSeq(Now.cs, 1, Len(Now.cs) - 1), "run")
    <3>1. PICK y \in State, M \in Mode : y = Now /\ M = Now.mode /\ M = "run" /\ t = TopThread(y.cs)
      BY <1>3, NowFacts DEF Mode
    <3>2. Pop(PopFrame(y, t)) = Sets(y, [Own(y) EXCEPT !.ci = SubSeq(@, 1, Len(@) - 1)],
                                     SubSeq(y.cs, 1, Len(y.cs) - 1), y.mode)
      BY <1>3, <3>1, PopFrameFields
    <3>. QED
      BY <1>2, <1>6, <3>1, <3>2
  <2>2. TopOf(Now).k = "exec" /\ TopOf(Now).n = 1
    BY <1>1, <1>3, <1>6
  <2>3. LeaveMove(Now, r)
    BY <1>3, <1>5, <2>1, <2>2 DEF LeaveMove
  <2>. QED
    BY <1>2, <2>3, BecomeOne DEF Move
<1>7. CASE Top.n # 1
  <2>1. PopFrame(Now, t) = Sets(Now, l, Now.cs, "run")
    BY <1>3, PopFrameFields
  <2>2. PICK n \in Nat : n = Len(cstack) /\ n \in DOMAIN cstack
    BY <1>1, NowFacts
  <2>3. PICK b \in Exec : b = cstack[n] /\ b = TopOf(Now)
    BY <1>1, <1>3, <2>2, NowFacts, ActivationFacts DEF TopOf
  <2>4. b.k = "exec" /\ b.n \in Nat \ {0} /\ b.n > 1
    BY <1>3, <1>7, <2>3 DEF Exec
  <2>5. PICK D \in Seq(Activation) : D = Now.cs /\ n \in DOMAIN D /\ b = D[n]
    BY <1>3, <2>2, <2>3, NowFacts
  <2>6. PICK p, w : p = PopFrame(Now, t) /\ w = [Now.th EXCEPT ![TopThread(Now.cs)] = l]
    OBVIOUS
  <2>. HIDE DEF l
  <2>7. p = [th |-> w, cs |-> D, mode |-> "run"]
    BY <2>1, <2>5, <2>6 DEF Sets
  <2>8. p.cs = D /\ p.cs[n] = b
    BY <2>5, <2>7
  <2>9. Reentry(p, -1) = [p EXCEPT !.cs = [D EXCEPT ![n] = [b EXCEPT !.n = b.n - 1]]]
    <3>1. b.n + (-1) = b.n - 1
      BY <2>4
    <3>. QED
      BY <2>2, <2>8, <3>1 DEF Reentry
  <2>10. Reentry(p, -1) = [th |-> w, cs |-> [D EXCEPT ![n] = [b EXCEPT !.n = b.n - 1]],
                           mode |-> "run"]
    BY <2>7, <2>9
  <2>11. r = Sets(Now, l, [Now.cs EXCEPT ![Len(Now.cs)] = [TopOf(Now) EXCEPT !.n = @ - 1]], Now.mode)
    BY <1>2, <1>3, <1>7, <2>2, <2>3, <2>5, <2>6, <2>10 DEF Sets
  <2>12. ReenterMove(Now, r)
    BY <1>3, <2>3, <2>4, <2>11 DEF ReenterMove, l
  <2>. QED
    BY <1>2, <2>12, BecomeOne DEF Move
<1>. QED
  BY <1>6, <1>7

LEMMA CallingMoves ==
    ASSUME Fine(Now), OpMeta \/ CallFromC \/ generic_reader
    PROVE  Moves(Now, Then)
<1>1. Runs
  BY DEF OpMeta, CallFromC, generic_reader, InLua, Starts, InC, InParser, Runs
<1>2. PICK f \in CFunction \cup {"lua"} : Become(luaD_call(Now, Top.t, f))
  BY DEF OpMeta, CallFromC, generic_reader, Callee, CFunction
<1>. QED
  BY <1>1, <1>2, CallStep DEF Frame

(* A C function may begin a protected call.                                *)
LEMMA StartsFacts ==
    ASSUME Fine(Now), NEW f, Starts(f)
    PROVE  /\ Runs /\ TopOf(Now).k = "cfun" /\ TopOf(Now).f = f /\ Top.f = f
           /\ Now.cs # <<>> /\ Own(Now).status = "ok"
<1>1. Runs /\ Top.k = "cfun" /\ Top.f = f
  BY DEF Starts, InC, Runs
<1>. QED
  BY <1>1, RunsFacts DEF Acts

LEMMA luaB_pcallMoves == ASSUME Fine(Now), luaB_pcall PROVE Moves(Now, Then)
<1>1. Starts("pcall")
  BY DEF luaB_pcall
<1>2. PICK f \in Callee : Become(luaD_call(luaD_pcall(Now, Top.t, 0), Top.t, f))
  BY DEF luaB_pcall
<1>3. 0 = HandlerFor(Now) /\ f \in Frame
  BY <1>1, StartsFacts, FramesKnown DEF HandlerFor
<1>4. Moves(Now, luaD_call(luaD_pcall(Now, Top.t, 0), Top.t, f))
  BY <1>1, <1>3, StartsFacts, RunsFacts, PcallCall DEF Protecting
<1>. QED
  BY <1>2, <1>4, BecomeMoves

LEMMA luaB_xpcallMoves == ASSUME Fine(Now), luaB_xpcall PROVE Moves(Now, Then)
<1>1. PICK f \in {"xpcall", "xpcallnil"} : Starts(f)
  BY DEF luaB_xpcall
<1>2. PICK ef : ef = Len(th[Top.t].ci)
  OBVIOUS
<1>3. Become(luaD_call(luaD_pcall(Now, Top.t, ef), Top.t, "lua"))
  BY <1>2 DEF luaB_xpcall
<1>4. ef = HandlerFor(Now) /\ "lua" \in Frame
  BY <1>1, <1>2, StartsFacts, RunsFacts, FramesKnown DEF HandlerFor
<1>5. Moves(Now, luaD_call(luaD_pcall(Now, Top.t, ef), Top.t, "lua"))
  BY <1>1, <1>4, StartsFacts, RunsFacts, PcallCall DEF Protecting
<1>. QED
  BY <1>3, <1>5, BecomeMoves

LEMMA ThrowStep ==
    ASSUME Fine(Now), Runs, NEW N \in {"error", "throw"}, Become([Now EXCEPT !.mode = N])
    PROVE  Moves(Now, Then)
<1>1. Moves(Now, [Now EXCEPT !.mode = N])
  BY RunsFacts, NoMove, ModeStep DEF Mode, Turns, Working
<1>. QED
  BY <1>1, BecomeMoves

LEMMA ThrowingMoves ==
    ASSUME Fine(Now), RaiseError \/ OutOfMemory \/ SyntaxError \/ HandlerReturns
    PROVE  Moves(Now, Then)
<1>1. Runs
  BY DEF RaiseError, OutOfMemory, SyntaxError, HandlerReturns, InLua, InC, InParser, Runs
<1>2. PICK N \in {"error", "throw"} : Become([Now EXCEPT !.mode = N])
  BY DEF RaiseError, OutOfMemory, SyntaxError, HandlerReturns, Raise
<1>. QED
  BY <1>1, <1>2, ThrowStep

(* What is on top ends: l is its thread from now on.                       *)
LEMMA LeaveStep ==
    ASSUME Fine(Now), Runs, NEW l \in LuaState,
           \/ /\ Top.k = "cfun" \/ (Top.k = "exec" /\ Top.n = 1)
              /\ l = [Own(Now) EXCEPT !.ci = SubSeq(@, 1, Len(@) - 1)]
           \/ Top.k = "call" /\ l = [Own(Now) EXCEPT !.nCcalls = @ - 1]
           \/ Top.k = "parse" /\ Top.level = 0 /\ l = Own(Now)
           \/ Top.k = "hook" /\ l = [Own(Now) EXCEPT !.allowhook = TRUE]
           \/ Top.k = "gctm" /\ l = [Own(Now) EXCEPT !.allowhook = Top.oldah],
           NEW r, Become(r), r = Sets(Now, l, SubSeq(cstack, 1, Len(cstack) - 1), mode)
    PROVE  LeaveMove(Now, Then)
<1>1. Acts(Now) /\ Top = TopOf(Now) /\ Now.cs = cstack /\ mode = "run" /\ Now.mode = "run"
  BY RunsFacts, NowFacts DEF Runs
<1>2. LeaveMove(Now, r)
  BY <1>1 DEF LeaveMove
<1>. QED
  BY <1>2, BecomeOne DEF Move

LEMMA ReturnFromCMoves == ASSUME Fine(Now), ReturnFromC PROVE LeaveMove(Now, Then)
<1>1. Runs /\ Top.k = "cfun" /\ mode = "run"
  BY DEF ReturnFromC, InC, Runs
<1>2. PICK r : Become(r) /\ r = Pop(PopFrame(Now, Top.t))
  BY DEF ReturnFromC
<1>3. PICK l : l = [Own(Now) EXCEPT !.ci = SubSeq(@, 1, Len(@) - 1)]
  OBVIOUS
<1>4. l \in LuaState
  <2>1. PICK o \in LuaState : o = Own(Now)
    BY OwnFacts DEF Fine
  <2>. QED
    BY <1>3, <2>1, ShrinkFacts DEF LuaState
<1>5. r = Sets(Now, l, SubSeq(cstack, 1, Len(cstack) - 1), mode)
  <2>1. PICK y \in State : y = Now /\ Top.t = TopThread(y.cs) /\ y.cs = cstack /\ y.mode = mode
    BY <1>1, RunsFacts, NowFacts
  <2>2. Pop(PopFrame(y, Top.t)) = Sets(y, [Own(y) EXCEPT !.ci = SubSeq(@, 1, Len(@) - 1)],
                                       SubSeq(y.cs, 1, Len(y.cs) - 1), y.mode)
    BY <1>1, <2>1, RunsFacts, PopFrameFields
  <2>. QED
    BY <1>2, <1>3, <2>1, <2>2
<1>. QED
  BY <1>1, <1>2, <1>3, <1>4, <1>5, LeaveStep

LEMMA luaD_callReturnsMoves == ASSUME Fine(Now), luaD_callReturns PROVE LeaveMove(Now, Then)
<1>1. Runs /\ Top.k = "call" /\ cstack # <<>>
  BY DEF luaD_callReturns, Runs
<1>. DEFINE t == Top.t  D == SubSeq(cstack, 1, Len(cstack) - 1)
<1>2. PICK r : Become(r) /\ r = [Pop(Now) EXCEPT !.th[t].nCcalls = @ - 1]
  BY DEF luaD_callReturns
<1>3. PICK o \in LuaState : o = Own(Now) /\ o = th[t]
  BY <1>1, NowFacts, OwnFacts
<1>4. PICK l : l = [o EXCEPT !.nCcalls = @ - 1]
  OBVIOUS
<1>5. o.nCcalls - 1 \in Nat
  <2>1. TopOf(Now).k = "call" /\ Now.cs # <<>> /\ o.nCcalls \in Nat
    BY <1>1, <1>3, NowFacts DEF LuaState
  <2>2. CCallsOf(TopOf(Now)) = 1 /\ ~IsResume(TopOf(Now))
    BY <2>1 DEF CCallsOf, IsResume
  <2>3. CCallsOf(TopOf(Now)) <= o.nCcalls
    <3>1. PICK n : n = Len(cstack) /\ n # 0 /\ t = cstack[n].t
      BY <1>1, NowFacts, OwnFacts DEF Top
    <3>2. Good(th, cstack, mode) /\ th[t].status = "ok" /\ TopOf(Now) = cstack[n]
      BY <1>1, <1>3, <3>1, NowFacts, RunsFacts DEF OK, Acts, TopOf
    <3>. QED
      BY <1>3, <3>1, <3>2, TopCovered
  <2>. QED
    BY <2>1, <2>2, <2>3
<1>6. l \in LuaState
  BY <1>4, <1>5 DEF LuaState
<1>7. r = Sets(Now, l, D, mode)
  <2>1. PICK y : y = Pop(Now) /\ y = [th |-> th, cs |-> D, mode |-> mode]
    BY NowFacts, PopFields DEF Now
  <2>2. PICK E : E = D
    OBVIOUS
  <2>3. y = [th |-> th, cs |-> E, mode |-> mode] /\ r = [y EXCEPT !.th[t].nCcalls = @ - 1]
    BY <1>2, <2>1, <2>2
  <2>4. r = [th |-> [th EXCEPT ![t] = l], cs |-> E, mode |-> mode]
    BY <1>1, <1>3, <1>4, <2>3, NowFacts
  <2>. QED
    BY <1>1, <2>2, <2>4, NowFacts DEF Sets
<1>. QED
  BY <1>1, <1>2, <1>3, <1>4, <1>6, <1>7, LeaveStep

LEMMA ParserReturnsMoves == ASSUME Fine(Now), ParserReturns PROVE LeaveMove(Now, Then)
<1>1. Runs /\ Top.k = "parse" /\ Top.level = 0 /\ cstack # <<>>
  BY DEF ParserReturns, InParser, Runs
<1>2. Become(Pop(Now))
  BY DEF ParserReturns
<1>3. Own(Now) \in LuaState /\ Now \in State /\ Top.t = TopThread(Now.cs)
  BY <1>1, NowFacts, OwnFacts
<1>4. Pop(Now) = Sets(Now, Own(Now), SubSeq(cstack, 1, Len(cstack) - 1), mode)
  BY <1>1, <1>3, NowFacts, PopFrameFields
<1>. QED
  BY <1>1, <1>2, <1>3, <1>4, LeaveStep

LEMMA HookReturnsMoves == ASSUME Fine(Now), HookReturns \/ GCTMReturns PROVE LeaveMove(Now, Then)
<1>1. Runs /\ Top.k \in {"hook", "gctm"} /\ cstack # <<>>
  BY DEF HookReturns, GCTMReturns, Runs
<1>. DEFINE t == Top.t  D == SubSeq(cstack, 1, Len(cstack) - 1)
<1>2. PICK v \in BOOLEAN :
         /\ \E r : Become(r) /\ r = Pop([Now EXCEPT !.th[t].allowhook = v])
         /\ v = IF Top.k = "hook" THEN TRUE ELSE Top.oldah
  <2>1. CASE HookReturns
    <3>1. PICK r : Become(r) /\ r = Pop([Now EXCEPT !.th[t].allowhook = TRUE]) /\ Top.k = "hook"
      BY <2>1 DEF HookReturns
    <3>2. PICK v \in BOOLEAN : v = TRUE
      OBVIOUS
    <3>3. r = Pop([Now EXCEPT !.th[t].allowhook = v])
      BY <3>1, <3>2
    <3>. QED
      BY <3>1, <3>2, <3>3
  <2>2. CASE GCTMReturns
    <3>1. Top.oldah \in BOOLEAN /\ Top.k = "gctm"
      BY <2>2, <1>1, NowFacts, ActivationFacts DEF GCTMReturns, Gctm
    <3>2. PICK v \in BOOLEAN : v = Top.oldah
      BY <3>1
    <3>3. PICK r : Become(r) /\ r = Pop([Now EXCEPT !.th[t].allowhook = Top.oldah])
      BY <2>2 DEF GCTMReturns
    <3>4. r = Pop([Now EXCEPT !.th[t].allowhook = v])
      BY <3>2, <3>3
    <3>5. v = IF Top.k = "hook" THEN TRUE ELSE Top.oldah
      BY <3>1, <3>2
    <3>. QED
      BY <3>3, <3>4, <3>5
  <2>. QED
    BY <2>1, <2>2
<1>5. PICK r : Become(r) /\ r = Pop([Now EXCEPT !.th[t].allowhook = v])
  BY <1>2
<1>3. PICK o \in LuaState : o = Own(Now) /\ o = th[t]
  BY <1>1, NowFacts, OwnFacts
<1>4. PICK l : l = [o EXCEPT !.allowhook = v]
  OBVIOUS
<1>6. l \in LuaState
  BY <1>4 DEF LuaState
<1>7. r = Sets(Now, l, D, mode)
  <2>1. PICK y : y = [Now EXCEPT !.th[t].allowhook = v]
    OBVIOUS
  <2>2. y = [th |-> [th EXCEPT ![t] = l], cs |-> cstack, mode |-> mode]
    BY <1>1, <1>3, <1>4, <2>1, NowFacts DEF Now
  <2>3. PICK w : w = [th EXCEPT ![t] = l]
    OBVIOUS
  <2>4. Pop(y) = [th |-> w, cs |-> D, mode |-> mode]
    BY <2>2, <2>3, PopFields
  <2>. QED
    BY <1>1, <1>5, <2>1, <2>3, <2>4, NowFacts DEF Sets
<1>8. \/ Top.k = "hook" /\ l = [Own(Now) EXCEPT !.allowhook = TRUE]
      \/ Top.k = "gctm" /\ l = [Own(Now) EXCEPT !.allowhook = Top.oldah]
  BY <1>1, <1>2, <1>3, <1>4
<1>. QED
  BY <1>1, <1>5, <1>3, <1>6, <1>7, <1>8, LeaveStep

(* An activation is put on the stack, and hooks are allowed or not.        *)
LEMMA BegunFields ==
    ASSUME NEW s \in State, NEW t \in Thread, t = TopThread(s.cs), NEW h, NEW a
    PROVE  Push([s EXCEPT !.th[t].allowhook = h], a) =
             Sets(s, [Own(s) EXCEPT !.allowhook = h], Append(s.cs, a), s.mode)
<1>1. PICK w \in [Thread -> LuaState] : w = s.th
  BY DEF State
<1>2. PICK y, l : y = [s EXCEPT !.th[t].allowhook = h] /\ l = [w[t] EXCEPT !.allowhook = h]
  OBVIOUS
<1>3. y = [th |-> [w EXCEPT ![t] = l], cs |-> s.cs, mode |-> s.mode]
  BY <1>1, <1>2 DEF State
<1>4. PICK D, N, v : D = s.cs /\ N = s.mode /\ v = [w EXCEPT ![t] = l]
  BY Zenon
<1>5. Push(y, a) = [th |-> v, cs |-> Append(D, a), mode |-> N]
  <2>1. y = [th |-> v, cs |-> D, mode |-> N]
    BY <1>3, <1>4
  <2>. QED
    BY <2>1, PushFields
<1>. QED
  BY <1>1, <1>2, <1>4, <1>5 DEF Sets, Own

LEMMA BeginCall ==
    ASSUME NEW s, Fine(s), Acts(s), s.mode = "run",
           NEW t, t = TopThread(s.cs), NEW a \in Activation, a.t = t, NEW h \in BOOLEAN,
           \/ a.k = "hook" /\ Own(s).allowhook /\ h = FALSE
           \/ a.k = "gctm" /\ a.oldah = Own(s).allowhook /\ h = FALSE,
           NEW f \in Frame, NEW y, y = Push([s EXCEPT !.th[t].allowhook = h], a)
    PROVE  Moves(s, luaD_call(y, t, f))
<1>1. t \in Thread /\ s \in State
  BY OwnFacts DEF Fine, OK
<1>2. PICK l : l = [Own(s) EXCEPT !.allowhook = h]
  OBVIOUS
<1>3. y = Sets(s, l, Append(s.cs, a), s.mode)
  <2>1. Push([s EXCEPT !.th[t].allowhook = h], a) =
             Sets(s, [Own(s) EXCEPT !.allowhook = h], Append(s.cs, a), s.mode)
    BY <1>1, BegunFields
  <2>. QED
    BY <1>2, <2>1
<1>4. BeginMove(s, y)
  BY <1>2, <1>3 DEF BeginMove
<1>5. Moves(s, y) /\ Fine(y) /\ Acts(y) /\ TopOf(y) = a /\ TopThread(y.cs) = t /\ y.mode = "run"
  BY <1>2, <1>3, <1>4, BeginStep
<1>6. ~IsResume(TopOf(y))
  BY <1>5 DEF IsResume
<1>7. Moves(y, luaD_call(y, t, f))
  BY <1>5, <1>6, CallFacts
<1>. QED
  BY <1>5, <1>7, MovesOn

LEMMA luaD_callhookMoves == ASSUME Fine(Now), luaD_callhook PROVE Moves(Now, Then)
<1>1. Runs /\ mode = "run" /\ th[Top.t].allowhook
  BY DEF luaD_callhook, InLua, Starts, InC, Runs
<1>2. PICK t, a : t = Top.t /\ a = [k |-> "hook", t |-> t]
  OBVIOUS
<1>3. PICK y : y = Push([Now EXCEPT !.th[t].allowhook = FALSE], a) /\ Become(luaD_call(y, t, "lua"))
  BY <1>2 DEF luaD_callhook
<1>4. a \in Activation /\ a.t = t /\ a.k = "hook"
  BY <1>1, <1>2, RunsFacts DEF Activation, Plain
<1>5. PICK h \in BOOLEAN : h = FALSE
  OBVIOUS
<1>6. y = Push([Now EXCEPT !.th[t].allowhook = h], a)
  BY <1>3, <1>5
<1>7. Moves(Now, luaD_call(y, t, "lua"))
  <2>1. Acts(Now) /\ Now.mode = "run" /\ t = TopThread(Now.cs) /\ Own(Now).allowhook
    BY <1>1, <1>2, RunsFacts
  <2>. QED
    BY <1>4, <1>5, <1>6, <2>1, BeginCall, FramesKnown
<1>. QED
  BY <1>3, <1>7, BecomeMoves

LEMMA GCTMMoves == ASSUME Fine(Now), GCTM PROVE Moves(Now, Then)
<1>1. /\ mode = "run" /\ cstack # <<>>
      /\ Top.k \in {"exec", "parse"} \/ (Top.k = "try" /\ Top.kind = "close")
  BY DEF GCTM, InLua, InParser
<1>2. PICK t, a, b : t = Top.t /\ b = th[t].allowhook /\ a = [k |-> "gctm", t |-> t, oldah |-> b]
  OBVIOUS
<1>3. PICK y : y = Push([Now EXCEPT !.th[t].allowhook = FALSE], a) /\ Become(luaD_call(y, t, "lua"))
  BY <1>2 DEF GCTM
<1>4. ~IsResume(TopOf(Now)) /\ Acts(Now) /\ Now.mode = "run" /\ t = TopThread(Now.cs)
      /\ t \in Thread /\ Own(Now) = th[t]
  <2>1. ~IsResume(TopOf(Now))
    BY <1>1, NowFacts DEF IsResume
  <2>. QED
    BY <1>1, <1>2, <2>1, NowFacts, ActsFacts
<1>5. a \in Activation /\ a.t = t /\ a.k = "gctm" /\ a.oldah = Own(Now).allowhook
  <2>1. b \in BOOLEAN
    BY <1>2, <1>4, NowFacts DEF LuaState
  <2>. QED
    BY <1>2, <1>4, <2>1 DEF Activation, Gctm
<1>6. PICK h \in BOOLEAN : h = FALSE
  BY Zenon
<1>7. y = Push([Now EXCEPT !.th[t].allowhook = h], a)
  BY Zenon, <1>3, <1>6
<1>8. Moves(Now, luaD_call(y, t, "lua"))
  BY <1>4, <1>5, <1>6, <1>7, BeginCall, FramesKnown
<1>. QED
  BY <1>3, <1>8, BecomeMoves

LEMMA luaD_protectedparserMoves ==
    ASSUME Fine(Now), luaD_protectedparser
    PROVE  Moves(Now, Then)
<1>1. Starts("load")
  BY DEF luaD_protectedparser
<1>2. PICK t, a, p, ef : /\ t = Top.t /\ a = [k |-> "parse", t |-> t, level |-> 0]
                         /\ ef = th[t].errfunc /\ p = luaD_pcall(Now, t, ef)
  OBVIOUS
<1>3. Become(Push(p, a))
  BY <1>2 DEF luaD_protectedparser
<1>4. Runs /\ ef = HandlerFor(Now) /\ t \in Thread /\ t = TopThread(Now.cs)
  BY <1>1, <1>2, StartsFacts, RunsFacts DEF HandlerFor
<1>5. Began(Now, p, t)
  BY <1>1, <1>2, <1>4, StartsFacts, RunsFacts, PcallStep DEF Protecting
<1>6. Moves(Now, p) /\ Fine(p) /\ Acts(p) /\ IsTry(TopOf(p)) /\ ~IsResume(TopOf(p))
      /\ p \in State /\ TopThread(p.cs) = t
  BY <1>5 DEF Began, Fine, OK
<1>7. a \in Activation /\ a.t = t /\ a.k = "parse" /\ a.level = 0
  BY <1>2, <1>4 DEF Activation, Parse
<1>8. PICK o \in LuaState : o = Own(p)
  BY <1>6, OwnFacts DEF Fine
<1>9. PICK h \in BOOLEAN : h = o.allowhook
  BY DEF LuaState
<1>10. PICK l : l = [o EXCEPT !.allowhook = h] /\ l = o
  BY <1>9 DEF LuaState
<1>11. Push(p, a) = Sets(p, l, Append(p.cs, a), p.mode)
  <2>1. Push(p, a) = [th |-> p.th, cs |-> Append(p.cs, a), mode |-> p.mode]
    BY <1>6, PushState
  <2>2. p.th \in [Thread -> LuaState] /\ p.th[t] = l
    BY <1>6, <1>8, <1>10 DEF State, Own
  <2>3. [p.th EXCEPT ![t] = l] = p.th
    BY <2>2
  <2>. QED
    BY <1>6, <2>1, <2>3 DEF Sets
<1>12. BeginMove(p, Push(p, a))
  <2>1. p.mode = "run"
    BY <1>4, <1>5, RunsFacts DEF Began
  <2>. QED
    BY <1>6, <1>7, <1>8, <1>9, <1>10, <1>11, <2>1 DEF BeginMove
<1>13. Moves(Now, Push(p, a))
  BY <1>6, <1>12, OneMove DEF Move
<1>. QED
  BY <1>3, <1>13, BecomeMoves

(* luaG_errormsg calls the handler: the code that follows the push of its  *)
(* activation runs.                                                        *)
LEMMA HandlerBegins ==
    ASSUME Fine(Now), Acts(Now), mode = "error", cstack # <<>>, NEW t, t = Top.t,
           NEW a, a = [k |-> "errormsg", t |-> t], NEW s, s = [Now EXCEPT !.mode = "run"],
           NEW z, z = Push(s, a)
    PROVE  /\ Moves(Now, z) /\ Fine(z) /\ Acts(z) /\ TopThread(z.cs) = t /\ ~IsResume(TopOf(z))
           /\ a \in Activation /\ z = [th |-> th, cs |-> Append(cstack, a), mode |-> "run"]
<1>1. /\ t \in Thread /\ t = TopThread(Now.cs) /\ Now \in State /\ Now.mode = "error"
      /\ Own(Now) = th[t] /\ Now.th = th /\ Now.cs = cstack
  BY NowFacts
<1>2. a \in Activation /\ a.t = t /\ a.k = "errormsg" /\ ~IsResume(a)
  BY <1>1 DEF Activation, Plain, IsResume
<1>3. PICK o \in LuaState : o = Own(Now)
  BY OwnFacts DEF Fine
<1>4. PICK h \in BOOLEAN : h = o.allowhook
  BY DEF LuaState
<1>5. PICK l : l = [o EXCEPT !.allowhook = h] /\ l = o
  BY <1>4 DEF LuaState
<1>6. PICK y : y = Push(Now, a)
  OBVIOUS
<1>7. y = [th |-> th, cs |-> Append(cstack, a), mode |-> "error"]
  BY <1>1, <1>6, PushState
<1>8. y = Sets(Now, l, Append(Now.cs, a), Now.mode)
  <2>1. th \in [Thread -> LuaState] /\ th[t] = l
    BY <1>1, <1>3, <1>5, NowFacts
  <2>2. [th EXCEPT ![t] = l] = th
    BY <2>1
  <2>. QED
    BY <1>1, <1>7, <2>2 DEF Sets
<1>9. BeginMove(Now, y)
  BY <1>1, <1>2, <1>3, <1>4, <1>5, <1>8 DEF BeginMove
<1>10. Moves(Now, y) /\ Acts(y) /\ TopOf(y) = a /\ TopThread(y.cs) = t /\ y.mode = "error"
  <2>1. l = [Own(Now) EXCEPT !.allowhook = h]
    BY <1>3, <1>5
  <2>2. a.t = TopThread(Now.cs)
    BY <1>1, <1>2
  <2>3. /\ Moves(Now, y) /\ Acts(y) /\ TopOf(y) = a /\ TopThread(y.cs) = a.t
        /\ y.mode = Now.mode
    BY <1>2, <1>8, <1>9, <2>1, <2>2, BeginStep
  <2>. QED
    BY <1>1, <1>2, <2>3
<1>11. z = [th |-> th, cs |-> Append(cstack, a), mode |-> "run"]
  <2>1. s \in State /\ s = [th |-> th, cs |-> cstack, mode |-> "run"]
    BY <1>1, NowFacts DEF Now, State, Mode
  <2>2. Push([th |-> th, cs |-> cstack, mode |-> "run"], a) =
          [th |-> th, cs |-> Append(cstack, a), mode |-> "run"]
    BY PushFields
  <2>. QED
    BY <2>1, <2>2
<1>12. PICK x : x = [y EXCEPT !.mode = "run"]
  OBVIOUS
<1>13. Moves(Now, x) /\ Fine(x)
  <2>1. Turns(y, "run")
    BY <1>2, <1>10 DEF Turns, Working
  <2>. QED
    BY <1>10, <1>12, <2>1, ModeStep, MovesKeep DEF Mode
<1>14. /\ x = [th |-> th, cs |-> Append(cstack, a), mode |-> "run"]
       /\ x.th = y.th /\ x.cs = y.cs
  BY <1>7, <1>12
<1>15. Acts(x) /\ TopOf(x) = a /\ TopThread(x.cs) = t
  BY <1>10, <1>14 DEF Acts, Own, TopOf
<1>16. z = x
  BY ONLY <1>11, <1>14
<1>. QED
  BY <1>2, <1>11, <1>13, <1>15, <1>16

LEMMA luaG_errormsgMoves == ASSUME Fine(Now), luaG_errormsg PROVE Moves(Now, Then)
<1>1. mode = "error" /\ cstack # <<>>
  <2>1. mode = "error"
    BY DEF luaG_errormsg
  <2>2. Alive(th, cstack, mode)
    BY NowFacts DEF OK, Good, Shape
  <2>. QED
    BY <2>1, <2>2, NowFacts, OwnFacts DEF Alive
<1>2. Acts(Now)
  BY <1>1, NowFacts, ActsFacts
<1>3. PICK t, s, a : t = Top.t /\ s = [Now EXCEPT !.mode = "run"] /\ a = [k |-> "errormsg", t |-> t]
  OBVIOUS
<1>4. PICK x : /\ Become(x)
               /\ \/ x = [Now EXCEPT !.mode = "throw"]
                  \/ x = ErrErr(Now) /\ th[t].errfunc # 0
                  \/ x = luaD_call(Push(s, a), t, "lua")
  BY <1>3 DEF luaG_errormsg
<1>5. CASE x = [Now EXCEPT !.mode = "throw"]
  <2>1. Moves(Now, x)
    BY <1>2, <1>5, NoMove, ModeStep DEF Mode, Turns, Working
  <2>. QED
    BY <1>4, <2>1, BecomeMoves
<1>6. CASE x = ErrErr(Now) /\ th[t].errfunc # 0
  <2>1. Own(Now).errfunc > 0
    <3>1. PICK o \in LuaState : o = Own(Now)
      BY OwnFacts DEF Fine
    <3>2. o.errfunc \in Nat /\ o.errfunc # 0
      BY <1>1, <1>3, <1>6, <3>1, NowFacts DEF LuaState
    <3>. QED
      BY <3>1, <3>2
  <2>2. Turns(Now, "errerr")
    BY <2>1 DEF Turns, Working
  <2>3. Moves(Now, x)
    BY <1>2, <1>6, <2>2, NoMove, ModeStep DEF Mode, ErrErr
  <2>. QED
    BY <1>4, <2>3, BecomeMoves
<1>7. CASE x = luaD_call(Push(s, a), t, "lua")
  <2>1. PICK z : z = Push(s, a) /\ x = luaD_call(z, t, "lua")
    BY <1>7
  <2>2. /\ Moves(Now, z) /\ Fine(z) /\ Acts(z) /\ TopThread(z.cs) = t /\ ~IsResume(TopOf(z))
        /\ z.mode = "run"
    BY <1>1, <1>2, <1>3, <2>1, HandlerBegins
  <2>3. Moves(Now, x)
    BY <2>1, <2>2, CallFacts, MovesOn, FramesKnown
  <2>. QED
    BY <1>4, <2>3, BecomeMoves
<1>. QED
  BY <1>4, <1>5, <1>6, <1>7

-----------------------------------------------------------------------------
(* Levels of the parser, sizes, yields.                                    *)

LEMMA HalfFacts ==
    ASSUME NEW z \in Nat, NEW q \in Nat, 4 * q < z, z > 2
    PROVE  z \div 2 \in Nat /\ q < z \div 2
<1>1. z \div 2 \in Nat /\ 2 * (z \div 2) <= z /\ z < 2 * (z \div 2) + 2
  BY Z3
<1>. QED
  BY <1>1

LEMMA LevelStep ==
    ASSUME Fine(Now), InParser, NEW d \in {1, -1}, Top.level + d >= 0,
           NEW N \in {"run", "throw"},
           Working(N) => d = -1 \/ th[Top.t].nCcalls + d <= MaxCCalls
    PROVE  LevelMove(Now, [Level(d) EXCEPT !.mode = N])
<1>1. Runs /\ Top.k = "parse" /\ mode = "run" /\ cstack # <<>>
  BY DEF InParser, Runs
<1>2. PICK n \in Nat \ {0} : n = Len(cstack) /\ n \in 1..n
  BY <1>1, NowFacts, OwnFacts
<1>3. PICK C \in Seq(Activation) : C = cstack /\ n \in DOMAIN C
  BY <1>2, NowFacts
<1>4. PICK a \in Parse : a = C[n] /\ a = Top
  BY <1>1, <1>2, <1>3, NowFacts, ActivationFacts DEF Top
<1>5. PICK t \in Thread : t = Top.t
  BY <1>1, NowFacts
<1>6. PICK w \in [Thread -> LuaState], o \in LuaState : w = th /\ o = w[t] /\ o = Own(Now)
  BY <1>1, <1>5, NowFacts
<1>. DEFINE l == [o EXCEPT !.nCcalls = @ + d]
            b == [a EXCEPT !.level = @ + d]
<1>7. Level(d) = [th |-> [w EXCEPT ![t] = l], cs |-> [C EXCEPT ![n] = b], mode |-> mode]
  <2>1. PICK y : y = Now /\ y = [th |-> w, cs |-> C, mode |-> mode]
    BY <1>3, <1>6 DEF Now
  <2>2. Level(d) = [y EXCEPT !.cs[n].level = @ + d, !.th[t].nCcalls = @ + d]
    BY <1>2, <1>5, <2>1 DEF Level
  <2>3. [y EXCEPT !.cs[n].level = @ + d, !.th[t].nCcalls = @ + d] =
            [th |-> [w EXCEPT ![t] = l], cs |-> [C EXCEPT ![n] = b], mode |-> mode]
    <3>1. PICK D, Q, u : D = [C EXCEPT ![n] = b] /\ Q = mode /\ u = [w EXCEPT ![t] = l]
      BY Zenon
    <3>. HIDE DEF l, b
    <3>2. y = [th |-> w, cs |-> C, mode |-> Q] /\ C[n] = a
      BY <1>4, <2>1, <3>1
    <3>3. [C EXCEPT ![n].level = @ + d] = D
      BY <1>3, <1>4, <3>1 DEF b
    <3>4. [w EXCEPT ![t].nCcalls = @ + d] = u
      BY <1>5, <1>6, <3>1 DEF l
    <3>5. [y EXCEPT !.cs[n].level = @ + d, !.th[t].nCcalls = @ + d] =
            [y EXCEPT !.cs = [C EXCEPT ![n].level = @ + d], !.th = [w EXCEPT ![t].nCcalls = @ + d]]
      BY <3>2
    <3>6. [y EXCEPT !.cs = D, !.th = u] = [th |-> u, cs |-> D, mode |-> Q]
      <4>1. PICK p : p = [y EXCEPT !.cs = D]
        OBVIOUS
      <4>2. p = [th |-> w, cs |-> D, mode |-> Q]
        BY <3>2, <4>1
      <4>3. [p EXCEPT !.th = u] = [th |-> u, cs |-> D, mode |-> Q]
        BY <4>2
      <4>. QED
        BY <4>1, <4>3
    <3>. QED
      BY <3>1, <3>3, <3>4, <3>5, <3>6
  <2>. QED
    BY <2>2, <2>3
<1>8. /\ Top = TopOf(Now) /\ t = TopThread(Now.cs) /\ Now.th = w /\ Now.cs = C /\ Now.mode = mode
      /\ Acts(Now)
  BY <1>1, <1>3, <1>5, <1>6, RunsFacts, NowFacts
<1>9. LevelMove(Now, [Level(d) EXCEPT !.mode = N])
  <2>1. PICK u, D : u = [w EXCEPT ![t] = l] /\ D = [C EXCEPT ![n] = b]
    BY Zenon
  <2>2. [Level(d) EXCEPT !.mode = N] = [th |-> u, cs |-> D, mode |-> N]
    <3>1. Level(d) = [th |-> u, cs |-> D, mode |-> mode]
      BY <1>7, <2>1
    <3>. QED
      BY <3>1
  <2>3. [Level(d) EXCEPT !.mode = N] =
          Sets(Now, [Own(Now) EXCEPT !.nCcalls = @ + d],
               [Now.cs EXCEPT ![Len(Now.cs)] = [TopOf(Now) EXCEPT !.level = @ + d]], N)
    BY <1>2, <1>3, <1>4, <1>6, <1>8, <2>1, <2>2 DEF Sets
  <2>4. Working(N) => d = -1 \/ Own(Now).nCcalls + d <= MaxCCalls
    BY <1>5, <1>6
  <2>5. Acts(Now) /\ TopOf(Now).k = "parse" /\ TopOf(Now).level + d >= 0 /\ Now.mode = "run"
    BY <1>1, <1>8
  <2>. QED
    BY <2>3, <2>4, <2>5 DEF LevelMove
<1>. QED
  BY <1>9

LEMMA LevelMoves == ASSUME Fine(Now), enterlevel \/ leavelevel PROVE LevelMove(Now, Then)
<1>1. CASE enterlevel
  <2>1. InParser /\ cstack # <<>>
    BY <1>1 DEF enterlevel, InParser
  <2>2. PICK N \in {"run", "throw"} :
               /\ Become([Level(1) EXCEPT !.mode = N])
               /\ N = IF th[Top.t].nCcalls + 1 > MaxCCalls THEN "throw" ELSE "run"
    BY <1>1 DEF enterlevel
  <2>3. Top.level + 1 >= 0
    BY <2>1, NowFacts, ActivationFacts DEF InParser, Parse
  <2>4. PICK d \in {1, -1} : d = 1
    OBVIOUS
  <2>5. Working(N) => d = -1 \/ th[Top.t].nCcalls + d <= MaxCCalls
    <3>1. th[Top.t].nCcalls \in Nat
      BY <2>1, NowFacts DEF LuaState
    <3>2. th[Top.t].nCcalls + 1 > MaxCCalls \/ th[Top.t].nCcalls + 1 <= MaxCCalls
      BY <3>1, CallsAssumption
    <3>. QED
      BY <2>2, <2>4, <3>2 DEF Working
  <2>6. LevelMove(Now, [Level(1) EXCEPT !.mode = N])
    BY <2>1, <2>3, <2>4, <2>5, LevelStep
  <2>. QED
    BY <2>2, <2>6, BecomeOne DEF Move
<1>2. CASE leavelevel
  <2>1. InParser /\ Top.level > 0 /\ Become(Level(-1)) /\ cstack # <<>>
    BY <1>2 DEF leavelevel, InParser
  <2>3. Top.level + (-1) >= 0
    BY <2>1, NowFacts, ActivationFacts DEF InParser, Parse
  <2>4. PICK d \in {1, -1} : d = -1
    OBVIOUS
  <2>5. LevelMove(Now, [Level(-1) EXCEPT !.mode = "run"])
    BY <2>1, <2>3, <2>4, LevelStep
  <2>6. [Level(-1) EXCEPT !.mode = "run"] = Level(-1)
    <3>1. PICK x : x = [Now EXCEPT !.cs[Len(cstack)].level = @ + (-1)]
      OBVIOUS
    <3>2. Level(-1) = [x EXCEPT !.th[Top.t].nCcalls = @ + (-1)]
      BY <3>1 DEF Level
    <3>. QED
      BY <2>1, <3>1, <3>2 DEF InParser, Now
  <2>. QED
    BY <2>1, <2>5, <2>6, BecomeOne DEF Move
<1>. QED
  BY <1>1, <1>2

LEMMA checkstacksizesMoves ==
    ASSUME Fine(Now), NEW t \in Thread, checkstacksizes(t)
    PROVE  SizeMove(Now, Then)
<1>1. PICK o \in LuaState : o = th[t]
  BY NowFacts
<1>2. PICK q \in Nat : q = Len(o.ci)
  <2>1. o.ci \in Seq(Frame)
    BY DEF LuaState
  <2>. QED
    BY <2>1
<1>3. PICK size \in Nat : size = o.size_ci
  BY DEF LuaState
<1>4. 4 * q < size /\ size > 2 * BasicCI /\ Become([Now EXCEPT !.th[t].size_ci = size \div 2])
  BY <1>1, <1>2, <1>3 DEF checkstacksizes
<1>5. size \div 2 \in Nat /\ q < size \div 2
  <2>1. 4 * q < size /\ size > 2
    BY <1>4, CallsAssumption
  <2>. QED
    BY <2>1, HalfFacts
<1>6. PICK z \in Nat : z = size \div 2
  BY <1>5
<1>7. SizeMove(Now, [Now EXCEPT !.th[t].size_ci = z])
  <2>1. mode = "run"
    BY DEF checkstacksizes, InLua
  <2>. QED
    BY <1>1, <1>2, <1>5, <1>6, <2>1, NowFacts DEF SizeMove
<1>. QED
  BY <1>4, <1>6, <1>7, BecomeOne DEF Move

LEMMA lua_yieldMoves ==
    ASSUME Fine(Now), lua_yield
    PROVE  YieldMove(Now, Then) \/ (Then = Raise(Now) /\ Moves(Now, Then))
<1>1. Starts("yield") /\ mode = "run" /\ cstack # <<>>
  BY DEF lua_yield, Starts, InC
<1>2. PICK t \in Thread : t = Top.t
  BY <1>1, NowFacts
<1>3. PICK w \in [Thread -> LuaState], o \in LuaState : w = th /\ o = w[t] /\ o = Own(Now)
  BY <1>1, <1>2, NowFacts
<1>. DEFINE v == [Now EXCEPT !.th[t].status = "yield"]
            s == Pop(v)
<1>4. Become(IF o.nCcalls > o.baseCcalls THEN Raise(Now)
             ELSE IF s.cs[Len(s.cs)].k = "exec" THEN Pop(s) ELSE s)
  BY <1>2, <1>3 DEF lua_yield
<1>5. CASE o.nCcalls > o.baseCcalls
  <2>1. Become([Now EXCEPT !.mode = "error"])
    BY <1>4, <1>5 DEF Raise
  <2>2. Moves(Now, Then)
    BY <1>1, <2>1, StartsFacts, ThrowStep
  <2>3. Then = Raise(Now)
    BY <2>1, NowFacts, StateFields DEF Raise, Become, Then, Now
  <2>. QED
    BY <2>2, <2>3
<1>6. CASE ~(o.nCcalls > o.baseCcalls)
  <2>1. PICK n \in Nat \ {0} : n = Len(cstack) /\ n # 0
    BY <1>1, NowFacts, OwnFacts
  <2>2. PICK C \in Seq(Activation) : C = cstack
    BY NowFacts
  <2>3. o.nCcalls <= o.baseCcalls
    BY <1>6 DEF LuaState
  <2>4. Yields(C, n, t)
    <3>1. Good(th, C, mode) /\ t = C[n].t /\ C[n].k = "cfun" /\ th[t].nCcalls <= th[t].baseCcalls
      BY <1>1, <1>2, <1>3, <2>1, <2>2, <2>3, NowFacts, StartsFacts DEF OK, TopOf, Top
    <3>2. PICK F, G, H : Shape(th, C, mode, F, G, H)
      BY <3>1 DEF Good
    <3>. QED
      BY <2>1, <2>2, <3>1, <3>2, YieldPlace
  <2>5. n > 2 /\ C[n - 1].k = "exec"
    BY <2>4 DEF Yields
  <2>. DEFINE l == [o EXCEPT !.status = "yield"]
              u == [w EXCEPT ![t] = l]
              D == SubSeq(C, 1, n - 1)
              E == SubSeq(C, 1, n - 2)
  <2>6. v = [th |-> u, cs |-> C, mode |-> "run"]
    <3>1. PICK y : y = Now /\ y = [th |-> w, cs |-> C, mode |-> "run"]
      BY <1>1, <1>3, <2>2 DEF Now
    <3>2. [y EXCEPT !.th[t].status = "yield"] = [th |-> u, cs |-> C, mode |-> "run"]
      <4>1. y.th = w /\ [w EXCEPT ![t].status = "yield"] = u
        BY <1>2, <1>3, <3>1
      <4>2. [y EXCEPT !.th[t].status = "yield"] = [y EXCEPT !.th = [w EXCEPT ![t].status = "yield"]]
        BY <4>1
      <4>3. PICK x : x = u
        BY Zenon
      <4>4. [y EXCEPT !.th = x] = [th |-> x, cs |-> C, mode |-> "run"]
        BY <3>1
      <4>. QED
        BY <4>1, <4>2, <4>3, <4>4
    <3>. QED
      BY <3>1, <3>2
  <2>7. Len(D) = n - 1 /\ D[n - 1] = C[n - 1] /\ SubSeq(D, 1, n - 2) = E
    <3>1. n - 1 \in 0..Len(C) /\ n - 2 \in 0..Len(C) /\ n - 1 \in 1..(n - 1)
      BY <2>1, <2>2, <2>5
    <3>2. Len(D) = n - 1 /\ D[n - 1] = C[n - 1]
      BY <3>1, CutFacts
    <3>3. SubSeq(D, 1, n - 2) = E
      BY <2>1, <2>2, <3>1
    <3>. QED
      BY <3>2, <3>3
  <2>. HIDE DEF v, u, l, D, E
  <2>8. s = [th |-> u, cs |-> D, mode |-> "run"]
    BY <2>1, <2>2, <2>6, PopFields DEF D
  <2>9. Pop(s) = [th |-> u, cs |-> E, mode |-> "run"]
    <3>1. (n - 1) - 1 = n - 2
      BY <2>1
    <3>. QED
      BY <2>7, <2>8, <3>1, PopFields
  <2>10. s.cs = D
    BY <2>8
  <2>. HIDE DEF s
  <2>11. Become(Pop(s))
    BY <1>4, <1>6, <2>5, <2>7, <2>10
  <2>12. Pop(s) = Sets(Now, l, SubSeq(Now.cs, 1, Len(Now.cs) - 2), "run")
    BY <1>1, <1>2, <1>3, <2>1, <2>2, <2>9, NowFacts DEF Sets, E, u
  <2>13. YieldMove(Now, Pop(s))
    BY <1>1, <1>3, <2>3, <2>12, StartsFacts, RunsFacts DEF YieldMove, l
  <2>. QED
    BY <2>11, <2>13, BecomeOne DEF Move
<1>. QED
  BY <1>5, <1>6

-----------------------------------------------------------------------------
(* Protected calls and lua_resume end.                                     *)

(* What luaD_throw and the end of a protected call find: e is the place of *)
(* the handler a of the running thread t, and it is a try.                 *)
Handled(n, t, e, a) ==
    /\ n = Len(cstack) /\ n \in Nat \ {0} /\ t = Top.t /\ t \in Thread /\ e = th[t].errorJmp
    /\ e \in 1..n /\ a = cstack[e] /\ a \in Try /\ a.t = t
    /\ \A j \in e..n : cstack[j].t = t
    /\ a.kind = "resume" => e > 1 /\ cstack[e - 1].k = "cfun" /\ a.previous = 0
    /\ a.kind = "close" => e = 1 /\ t = MainThread /\ a.previous = 0
    /\ IsTry(Top) => e = n

LEMMA HandledFacts ==
    ASSUME Fine(Now), cstack # <<>>, NEW n, n = Len(cstack), NEW t, t = Top.t,
           NEW e, e = th[t].errorJmp, NEW a, a = cstack[e]
    PROVE  Handled(n, t, e, a)
<1>1. PICK F, G, H : Shape(th, cstack, mode, F, G, H)
  BY NowFacts DEF OK, Good
<1>2. n \in Nat \ {0} /\ t \in Thread /\ t = cstack[n].t
  BY NowFacts, OwnFacts DEF Top
<1>3. PICK C \in Seq(Activation) : C = cstack
  BY NowFacts
<1>4. TopReady(th, C, mode, n, t, e)
  BY <1>1, <1>2, <1>3, NowFacts, TopFacts
<1>5. PICK i \in 1..n : i = e
  BY <1>4 DEF TopReady
<1>6. a \in Try /\ a.t = t /\ IsTry(a)
  <2>1. C[i] \in Activation
    BY <1>3, <1>5
  <2>. QED
    BY <1>3, <1>4, <1>5, <2>1, ActivationFacts DEF TopReady
<1>7. Stacked(C, i) /\ Linked(C, i)
  BY <1>1, <1>3, <1>5 DEF Shape, Measured, Placed
<1>8. a.kind = "resume" => e > 1 /\ cstack[e - 1].k = "cfun" /\ a.previous = 0
  BY <1>3, <1>5, <1>6, <1>7 DEF Stacked
<1>9. a.kind = "close" => e = 1 /\ t = MainThread /\ a.previous = 0
  <2>1. a.kind = "close" => i = 1 /\ t = MainThread
    BY <1>3, <1>5, <1>6, <1>7 DEF Stacked
  <2>2. a.previous \in 0..(i - 1)
    BY <1>3, <1>5, <1>6, <1>7 DEF Linked, Innermost
  <2>. QED
    BY <1>5, <2>1, <2>2
<1>10. IsTry(Top) => e = n
  <2>1. ASSUME i # n PROVE ~IsTry(C[n])
    <3>1. n \in (i + 1)..n
      BY <1>2, <1>5, <2>1
    <3>. QED
      BY <1>4, <1>5, <3>1 DEF TopReady
  <2>. QED
    BY <1>3, <1>5, <2>1 DEF Top
<1>. QED
  BY Zenon, <1>2, <1>3, <1>4, <1>5, <1>6, <1>8, <1>9, <1>10 DEF Handled, TopReady

(* The stack below the handler.                                            *)
LEMMA BelowFacts ==
    ASSUME Fine(Now), cstack # <<>>, NEW n, NEW t, NEW e, NEW a, Handled(n, t, e, a),
           NEW r, OK(r), r.cs = SubSeq(cstack, 1, e - 1), r.cs # <<>>,
           cstack[e - 1].k = "cfun"
    PROVE  Acts(r) /\ TopOf(r).k = "cfun"
<1>1. e - 1 \in 0..Len(cstack) /\ n = Len(cstack) /\ n \in Nat \ {0} /\ e \in 1..n
  BY DEF Handled
<1>2. PICK C \in Seq(Activation) : C = cstack
  BY NowFacts
<1>3. Len(r.cs) = e - 1 /\ \A i \in 1..(e - 1) : r.cs[i] = C[i]
  BY <1>1, <1>2, CutFacts
<1>4. Len(r.cs) # 0
  BY OwnFacts
<1>5. e - 1 \in 1..(e - 1)
  BY <1>1, <1>3, <1>4
<1>6. TopOf(r).k = "cfun"
  BY <1>2, <1>3, <1>5 DEF TopOf
<1>. QED
  BY <1>6, ActsFacts DEF IsResume

(* The thread after a protected call, with z CallInfos, and the coroutine  *)
(* after lua_resume.                                                       *)
PcallEnded(o, a, z) ==
    [o EXCEPT !.ci = SubSeq(@, 1, a.old_ci), !.nCcalls = a.oldnCcalls,
              !.allowhook = a.old_allowhooks, !.errfunc = a.old_errfunc,
              !.errorJmp = a.previous, !.size_ci = z]

ResumeEnded(o, code) == [o EXCEPT !.status = code, !.nCcalls = @ - 1, !.errorJmp = 0]

LEMMA AfterPcall ==
    ASSUME Fine(Now), cstack # <<>>, NEW n, NEW t, NEW e, NEW a, Handled(n, t, e, a),
           a.kind = "pcall", NEW z \in Nat, a.old_ci < z,
           NEW l, l = PcallEnded(th[t], a, z),
           NEW r, r = [th |-> [th EXCEPT ![t] = l], cs |-> SubSeq(cstack, 1, e - 1), mode |-> "run"]
    PROVE  EndsPcall(Now, IF r.cs = <<>> THEN r ELSE Done(r))
<1>1. e = Own(Now).errorJmp /\ a = Now.cs[e] /\ t = TopThread(Now.cs) /\ Now.cs = cstack /\ Now.th = th
  BY NowFacts DEF Handled
<1>2. r = Sets(Now, l, SubSeq(Now.cs, 1, e - 1), "run")
  BY <1>1 DEF Sets
<1>3. EndPcallMove(Now, r)
  BY ZenonT(60), <1>1, <1>2, NowFacts DEF EndPcallMove, PcallEnded, Handled
<1>4. Fine(r) /\ OK(r) /\ r.cs = SubSeq(cstack, 1, e - 1)
  <2>2. Fine(r) /\ OK(r)
    BY <1>3, MoveKeepsRoom DEF Fine
  <2>3. r.cs = SubSeq(cstack, 1, e - 1)
    OBVIOUS
  <2>. QED
    BY <2>2, <2>3
<1>5. CASE r.cs = <<>>
  BY <1>3, <1>5 DEF EndsPcall
<1>6. CASE r.cs # <<>>
  <2>1. cstack[e - 1].k = "cfun"
    <3>1. PcallFacts(th, cstack, n, t, e)
      <4>1. n = Len(cstack) /\ n # 0 /\ t = cstack[n].t /\ e = th[t].errorJmp
            /\ cstack[e].kind = "pcall" /\ Good(th, cstack, mode)
        BY NowFacts DEF Handled, Top, OK
      <4>. QED
        BY <4>1, EndOfPcall
    <3>2. e # 1
      BY <1>4, <1>6, NowFacts
    <3>. QED
      BY <3>1, <3>2 DEF PcallFacts
  <2>2. Acts(r) /\ TopOf(r).k = "cfun"
    BY <1>4, <1>6, <2>1, BelowFacts
  <2>3. r.mode = "run"
    OBVIOUS
  <2>4. ThroughMove(r, Done(r))
    BY <1>4, <2>2, <2>3, DoneStep
  <2>. QED
    BY <1>3, <1>6, <2>4 DEF EndsPcall
<1>. QED
  BY <1>5, <1>6

(* A coroutine has yielded, returned or failed.                            *)
LEMMA AfterResume ==
    ASSUME Fine(Now), cstack # <<>>, NEW n, NEW t, NEW e, NEW a, Handled(n, t, e, a),
           a.kind = "resume", NEW code \in Status,
           code \in {"throw", "errerr"} \/ (e = n /\ code = th[t].status),
           NEW l, l = ResumeEnded(th[t], code),
           NEW r, r = [th |-> [th EXCEPT ![t] = l], cs |-> SubSeq(cstack, 1, e - 1), mode |-> "run"]
    PROVE  /\ Moves(Now, r) /\ Fine(r) /\ Acts(r) /\ TopOf(r).k = "cfun" /\ r.mode = "run"
           /\ EndResumeMove(Now, r)
<1>1. /\ e = Own(Now).errorJmp /\ a = Now.cs[e] /\ t = TopThread(Now.cs) /\ Now.cs = cstack
      /\ Now.th = th /\ n = Len(Now.cs) /\ Own(Now) = th[t] /\ IsResume(Now.cs[e])
  BY NowFacts DEF Handled, IsResume, Try
<1>2. r = Sets(Now, l, SubSeq(Now.cs, 1, e - 1), "run")
  BY <1>1 DEF Sets
<1>3. EndResumeMove(Now, r)
  BY Zenon, <1>1, <1>2 DEF EndResumeMove, ResumeEnded
<1>4. Moves(Now, r) /\ Fine(r) /\ OK(r) /\ r.cs = SubSeq(cstack, 1, e - 1)
  <2>1. Moves(Now, r)
    BY <1>3, NoMove, OneMove DEF Move
  <2>2. Fine(r) /\ OK(r)
    BY <2>1, MovesKeep DEF Fine
  <2>3. r.cs = SubSeq(cstack, 1, e - 1)
    OBVIOUS
  <2>. QED
    BY <2>1, <2>2, <2>3
<1>5. cstack[e - 1].k = "cfun" /\ e > 1
  BY DEF Handled
<1>6. r.cs # <<>>
  <2>1. e - 1 \in 0..Len(cstack) /\ e - 1 # 0
    BY <1>5 DEF Handled
  <2>2. Len(r.cs) = e - 1
    BY <1>4, <2>1, NowFacts, CutFacts
  <2>. QED
    BY <2>1, <2>2
<1>7. Acts(r) /\ TopOf(r).k = "cfun"
  BY <1>4, <1>5, <1>6, BelowFacts
<1>8. r.mode = "run"
  OBVIOUS
<1>. QED
  BY <1>3, <1>4, <1>7, <1>8

(* lua_close calls the finalizers that are left.                           *)
LEMMA CallAllGCTMFields ==
    ASSUME NEW w \in [Thread -> LuaState], w[MainThread].errorJmp = 0,
           NEW s, s = [th |-> w, cs |-> <<>>, mode |-> "run"],
           NEW l, l = [w[MainThread] EXCEPT !.ci = <<>>, !.nCcalls = 0, !.baseCcalls = 0]
    PROVE  CallAllGCTM(s) = [th |-> [w EXCEPT ![MainThread] = [l EXCEPT !.errorJmp = 1]],
                             cs |-> <<TryOf("close", MainThread, l)>>, mode |-> "run"]
<1>1. MainThread \in Thread
  BY CallsAssumption
<1>2. l \in LuaState
  <2>1. <<>> \in Seq(Frame)
    OBVIOUS
  <2>. QED
    BY <1>1, <2>1 DEF LuaState
<1>3. PICK v : v = [w EXCEPT ![MainThread] = l]
  BY Zenon
<1>4. v \in [Thread -> LuaState] /\ v[MainThread] = l
  BY <1>1, <1>2, <1>3
<1>5. PICK x : x = [s EXCEPT !.th[MainThread] = [@ EXCEPT !.ci = <<>>, !.nCcalls = 0, !.baseCcalls = 0]]
  BY Zenon
<1>6. x = [th |-> v, cs |-> <<>>, mode |-> "run"]
  <2>1. x = [s EXCEPT !.th[MainThread] = l]
    BY <1>1, <1>5
  <2>2. s.th = w /\ [w EXCEPT ![MainThread] = l] = v
    BY <1>3
  <2>3. [s EXCEPT !.th[MainThread] = l] = [s EXCEPT !.th = [w EXCEPT ![MainThread] = l]]
    BY <2>2
  <2>4. [s EXCEPT !.th = v] = [th |-> v, cs |-> <<>>, mode |-> "run"]
    OBVIOUS
  <2>. QED
    BY <2>1, <2>2, <2>3, <2>4
<1>7. x \in State
  <2>1. <<>> \in Seq(Activation) /\ "run" \in Mode
    BY DEF Mode
  <2>. QED
    BY <1>4, <1>6, <2>1 DEF State
<1>8. CallAllGCTM(s) = luaD_rawrunprotected(x, MainThread, "close")
  BY <1>5 DEF CallAllGCTM
<1>9. x.th = v /\ x.cs = <<>> /\ x.mode = "run" /\ Len(x.cs) + 1 = 1
  BY <1>6
<1>10. CallAllGCTM(s) = [th |-> [v EXCEPT ![MainThread] = [v[MainThread] EXCEPT !.errorJmp = 1]],
                         cs |-> Append(<<>>, TryOf("close", MainThread, v[MainThread])),
                         mode |-> "run"]
  BY <1>1, <1>7, <1>8, <1>9, RawFields
<1>11. [v EXCEPT ![MainThread] = [l EXCEPT !.errorJmp = 1]] =
         [w EXCEPT ![MainThread] = [l EXCEPT !.errorJmp = 1]]
  BY <1>3
<1>12. \A b : Append(<<>>, b) = <<b>>
  OBVIOUS
<1>. QED
  BY <1>4, <1>10, <1>11, <1>12

(* restore_stack_limit after luaD_pcall has put back the rest.             *)
LEMMA CaughtFields ==
    ASSUME NEW o \in LuaState, NEW a \in Try, a.old_ci <= Len(o.ci), Len(o.ci) < o.size_ci
    PROVE  \E z \in Nat : /\ a.old_ci < z
                          /\ CaughtByPcall(o, a) = PcallEnded(o, a, z)
<1>. DEFINE l == [o EXCEPT !.ci = SubSeq(@, 1, a.old_ci), !.nCcalls = a.oldnCcalls,
                           !.allowhook = a.old_allowhooks, !.errfunc = a.old_errfunc,
                           !.errorJmp = a.previous]
<1>1. CaughtByPcall(o, a) = IF l.size_ci > MaxCalls /\ Len(l.ci) + 1 < MaxCalls
                            THEN [l EXCEPT !.size_ci = MaxCalls] ELSE l
  BY DEF CaughtByPcall, restore_stack_limit
<1>2. PICK q \in Nat : q = Len(o.ci)
  <2>1. o.ci \in Seq(Frame)
    BY DEF LuaState
  <2>. QED
    BY <2>1
<1>3. a.old_ci \in 0..Len(o.ci) /\ o.ci \in Seq(Frame) /\ a.old_ci \in Nat
  BY <1>2 DEF Try, LuaState
<1>4. Len(l.ci) = a.old_ci /\ l.size_ci = o.size_ci /\ o.size_ci \in Nat
  <2>1. Len(SubSeq(o.ci, 1, a.old_ci)) = a.old_ci
    BY <1>3, CutFacts
  <2>2. l.ci = SubSeq(o.ci, 1, a.old_ci)
    BY DEF LuaState
  <2>. QED
    BY <2>1, <2>2 DEF LuaState
<1>5. l = PcallEnded(o, a, o.size_ci) /\ [l EXCEPT !.size_ci = MaxCalls] = PcallEnded(o, a, MaxCalls)
  BY DEF LuaState, PcallEnded
<1>6. a.old_ci < o.size_ci /\ MaxCalls \in Nat
  BY <1>2, <1>3, <1>4, CallsAssumption
<1>. HIDE DEF l
<1>7. \E z \in Nat : a.old_ci < z /\ CaughtByPcall(o, a) = PcallEnded(o, a, z)
  <2>1. CASE l.size_ci > MaxCalls /\ Len(l.ci) + 1 < MaxCalls
    <3>1. a.old_ci < MaxCalls
      BY <1>3, <1>4, <1>6, <2>1
    <3>. QED
      BY <1>1, <1>5, <1>6, <2>1, <3>1
  <2>2. CASE ~(l.size_ci > MaxCalls /\ Len(l.ci) + 1 < MaxCalls)
    BY <1>1, <1>4, <1>5, <1>6, <2>2
  <2>. QED
    BY <2>1, <2>2
<1>. QED
  BY <1>7

LEMMA ThrowFacts ==
    ASSUME Fine(Now), mode # "run"
    PROVE  cstack # <<>>
<1>1. Alive(th, cstack, mode)
  BY NowFacts DEF OK, Good, Shape
<1>. QED
  BY <1>1, NowFacts, OwnFacts DEF Alive

LEMMA ThreadFields ==
    ASSUME NEW w \in [Thread -> LuaState], NEW t \in Thread, NEW D, NEW N,
           NEW s, s = [th |-> w, cs |-> D, mode |-> N], NEW l, NEW r, r = [s EXCEPT !.th[t] = l]
    PROVE  r = [th |-> [w EXCEPT ![t] = l], cs |-> D, mode |-> N]
<1>1. s.th = w
  OBVIOUS
<1>2. r = [s EXCEPT !.th = [w EXCEPT ![t] = l]]
  BY <1>1
<1>3. PICK v : v = [w EXCEPT ![t] = l]
  OBVIOUS
<1>4. [s EXCEPT !.th = v] = [th |-> v, cs |-> D, mode |-> N]
  OBVIOUS
<1>. QED
  BY <1>2, <1>3, <1>4

LEMMA PcallThrown ==
    ASSUME Fine(Now), cstack # <<>>, NEW n, NEW t, NEW e, NEW a, Handled(n, t, e, a),
           a.kind = "pcall", NEW r,
           r = [th |-> [th EXCEPT ![t] = CaughtByPcall(th[t], a)],
                cs |-> SubSeq(cstack, 1, e - 1), mode |-> "run"]
    PROVE  EndsPcall(Now, IF r.cs = <<>> THEN r ELSE Done(r))
<1>1. PICK o \in LuaState : o = th[t] /\ o = Own(Now) /\ Len(o.ci) < o.size_ci
  BY NowFacts, RoomOwn DEF Handled
<1>2. a \in Try /\ a.old_ci <= Len(o.ci)
  <2>1. n = Len(cstack) /\ n # 0 /\ t = cstack[n].t /\ e = th[t].errorJmp
        /\ cstack[e].kind = "pcall" /\ Good(th, cstack, mode) /\ a = cstack[e]
    BY NowFacts DEF Handled, Top, OK
  <2>2. PcallFacts(th, cstack, n, t, e)
    BY <2>1, EndOfPcall
  <2>. QED
    BY Zenon, <1>1, <2>1, <2>2 DEF PcallFacts
<1>3. PICK z \in Nat : a.old_ci < z /\ CaughtByPcall(o, a) = PcallEnded(o, a, z)
  BY <1>1, <1>2, CaughtFields
<1>4. PICK l : l = CaughtByPcall(o, a)
  OBVIOUS
<1>5. l = PcallEnded(th[t], a, z)
  BY <1>1, <1>3, <1>4
<1>6. r = [th |-> [th EXCEPT ![t] = l], cs |-> SubSeq(cstack, 1, e - 1), mode |-> "run"]
  BY <1>1, <1>4
<1>. QED
  BY <1>3, <1>5, <1>6, AfterPcall

(* lua_resume ends, and the C function that called it is through, or       *)
(* raises the error again.                                                 *)
EndsResume(s, r) ==
    \E x : /\ EndResumeMove(s, x) /\ Fine(x) /\ Acts(x) /\ TopOf(x).k = "cfun" /\ x.mode = "run"
           /\ ThroughMove(x, r) \/ r = Raise(x)

LEMMA EndsResumeMoves ==
    ASSUME NEW s, Fine(s), NEW r, EndsResume(s, r)
    PROVE  Moves(s, r)
<1>1. PICK x : /\ EndResumeMove(s, x) /\ Fine(x) /\ Acts(x) /\ TopOf(x).k = "cfun"
               /\ x.mode = "run" /\ (ThroughMove(x, r) \/ r = Raise(x))
  BY DEF EndsResume
<1>2. Moves(s, x)
  BY <1>1, NoMove, OneMove DEF Move
<1>3. Moves(x, Raise(x))
  BY <1>1, NoMove, ModeStep DEF Raise, Mode, Turns, Working
<1>4. ThroughMove(x, r) => Moves(x, r)
  BY NoMove, OneMove DEF Move
<1>. QED
  BY <1>1, <1>2, <1>3, <1>4, MovesOn

LEMMA BecomeBack ==
    ASSUME Fine(Now), NEW r, Become(r), EndsResume(Now, r)
    PROVE  EndsResume(Now, Then)
BY EndsResumeMoves, MovesKeep, BecomeThen

LEMMA luaD_throwEnds ==
    ASSUME Fine(Now), luaD_throw
    PROVE  \/ EndsResume(Now, Then) \/ EndsPcall(Now, Then)
           \/ cstack[1].kind = "close" /\ CloseMove(Now, Then)
<1>1. mode \in {"throw", "errerr"} /\ cstack # <<>>
  BY ThrowFacts DEF luaD_throw
<1>2. PICK n, t, e, a : n = Len(cstack) /\ t = Top.t /\ e = th[t].errorJmp /\ a = cstack[e]
  OBVIOUS
<1>3. Handled(n, t, e, a)
  BY <1>1, <1>2, HandledFacts
<1>4. PICK D : D = SubSeq(cstack, 1, e - 1)
  OBVIOUS
<1>5. PICK w \in [Thread -> LuaState], o \in LuaState : w = th /\ o = w[t] /\ o = Own(Now)
  BY <1>1, <1>2, NowFacts
<1>6. PICK s : s = [Now EXCEPT !.cs = SubSeq(@, 1, e - 1), !.mode = "run"]
  OBVIOUS
<1>7. s = [th |-> w, cs |-> D, mode |-> "run"]
  <2>1. PICK y : y = Now /\ y = [th |-> w, cs |-> cstack, mode |-> mode]
    BY <1>5 DEF Now
  <2>2. PICK u : u = [y EXCEPT !.cs = D]
    OBVIOUS
  <2>3. u = [th |-> w, cs |-> D, mode |-> mode]
    BY <2>1, <2>2
  <2>4. [u EXCEPT !.mode = "run"] = [th |-> w, cs |-> D, mode |-> "run"]
    BY <2>3
  <2>5. y.cs = cstack
    BY <2>1
  <2>6. s = [u EXCEPT !.mode = "run"]
    BY <1>4, <1>6, <2>1, <2>2, <2>5
  <2>. QED
    BY <2>4, <2>6
<1>8. t \in Thread /\ a.kind \in {"pcall", "resume", "close"}
  BY <1>3 DEF Handled, Try
<1>9. CASE a.kind = "pcall"
  <2>1. PICK s1 : /\ s1 = [s EXCEPT !.th[t] = CaughtByPcall(@, a)]
                  /\ Become(IF s1.cs = <<>> THEN s1 ELSE Done(s1))
    BY <1>2, <1>6, <1>9 DEF luaD_throw
  <2>2. PICK l : l = CaughtByPcall(o, a)
    OBVIOUS
  <2>3. s1 = [s EXCEPT !.th[t] = l]
    <3>1. s.th = w /\ s.th[t] = o
      BY <1>5, <1>7
    <3>. QED
      BY <2>1, <2>2, <3>1
  <2>4. s1 = [th |-> [w EXCEPT ![t] = l], cs |-> D, mode |-> "run"]
    BY <1>5, <1>7, <1>8, <2>3, ThreadFields
  <2>5. s1 = [th |-> [th EXCEPT ![t] = CaughtByPcall(th[t], a)],
              cs |-> SubSeq(cstack, 1, e - 1), mode |-> "run"]
    BY <1>4, <1>5, <2>2, <2>4
  <2>6. EndsPcall(Now, IF s1.cs = <<>> THEN s1 ELSE Done(s1))
    BY <1>1, <1>3, <1>9, <2>5, PcallThrown
  <2>. QED
    BY <2>1, <2>6, BecomeEnds
<1>10. CASE a.kind = "resume"
  <2>1. PICK s1 : /\ s1 = [s EXCEPT !.th[t] = CaughtByResume(@, a, mode)]
                  /\ Become(ResumeFailed(s1))
    BY <1>2, <1>6, <1>10 DEF luaD_throw
  <2>2. PICK l : l = CaughtByResume(o, a, mode)
    OBVIOUS
  <2>3. s1 = [s EXCEPT !.th[t] = l]
    <3>1. s.th = w /\ s.th[t] = o
      BY Zenon, <1>5, <1>7
    <3>. QED
      BY <2>1, <2>2, <3>1
  <2>4. s1 = [th |-> [w EXCEPT ![t] = l], cs |-> D, mode |-> "run"]
    BY <1>5, <1>7, <1>8, <2>3, ThreadFields
  <2>5. l = [o EXCEPT !.status = mode, !.nCcalls = @ - 1, !.errorJmp = 0]
    BY <1>3, <1>10, <2>2 DEF CaughtByResume, Handled
  <2>6. PICK code \in Status : code = mode /\ code \in {"throw", "errerr"}
    BY <1>1 DEF Status
  <2>7. l = ResumeEnded(th[t], code)
    BY <1>5, <2>5, <2>6 DEF ResumeEnded
  <2>8. s1 = [th |-> [th EXCEPT ![t] = l], cs |-> SubSeq(cstack, 1, e - 1), mode |-> "run"]
    BY <1>4, <1>5, <2>4
  <2>9. Fine(s1) /\ Acts(s1) /\ TopOf(s1).k = "cfun" /\ s1.mode = "run" /\ EndResumeMove(Now, s1)
    BY <1>1, <1>3, <1>10, <2>6, <2>7, <2>8, AfterResume
  <2>10. ResumeFailed(s1) = Raise(s1) \/ ThroughMove(s1, ResumeFailed(s1))
    BY <2>9, DoneStep DEF ResumeFailed
  <2>11. EndsResume(Now, ResumeFailed(s1))
    BY <2>9, <2>10 DEF EndsResume
  <2>. QED
    BY <2>1, <2>11, BecomeBack
<1>11. CASE a.kind = "close"
  <2>1. PICK s1 : s1 = [s EXCEPT !.th[t].errorJmp = a.previous] /\ Become(CallAllGCTM(s1))
    BY <1>2, <1>6, <1>11 DEF luaD_throw
  <2>2. e = 1 /\ t = MainThread /\ a.previous = 0 /\ cstack[1].kind = "close" /\ th[t].errorJmp = 1
        /\ \A j \in 1..Len(cstack) : cstack[j].t = MainThread
    BY <1>3, <1>11 DEF Handled
  <2>3. PICK x : x = [o EXCEPT !.errorJmp = 0]
    OBVIOUS
  <2>4. x \in LuaState /\ x.errorJmp = 0
    BY <2>3 DEF LuaState
  <2>5. s1 = [s EXCEPT !.th[t] = x]
    <3>1. s.th = w /\ s.th[t] = o
      BY Zenon, <1>5, <1>7
    <3>. QED
      BY <2>1, <2>2, <2>3, <3>1
  <2>6. s1 = [th |-> [w EXCEPT ![t] = x], cs |-> D, mode |-> "run"]
    BY <1>5, <1>7, <1>8, <2>5, ThreadFields
  <2>7. PICK v \in [Thread -> LuaState] : v = [w EXCEPT ![t] = x] /\ v[MainThread] = x
    <3>1. [w EXCEPT ![t] = x] \in [Thread -> LuaState] /\ [w EXCEPT ![t] = x][t] = x
      BY <1>8, <2>4
    <3>. QED
      BY Zenon, <2>2, <3>1
  <2>8. D = <<>>
    BY <1>4, <2>2, NowFacts
  <2>9. s1 = [th |-> v, cs |-> <<>>, mode |-> "run"]
    BY <2>6, <2>7, <2>8
  <2>10. PICK y : y = [v[MainThread] EXCEPT !.ci = <<>>, !.nCcalls = 0, !.baseCcalls = 0]
    OBVIOUS
  <2>11. CallAllGCTM(s1) = [th |-> [v EXCEPT ![MainThread] = [y EXCEPT !.errorJmp = 1]],
                            cs |-> <<TryOf("close", MainThread, y)>>, mode |-> "run"]
    BY ZenonT(60), <2>4, <2>7, <2>9, <2>10, CallAllGCTMFields
  <2>12. PICK f \in Nat : f = o.errfunc
    BY DEF LuaState
  <2>13. y = [Own(Now) EXCEPT !.ci = <<>>, !.nCcalls = 0, !.baseCcalls = 0,
                              !.errfunc = f, !.errorJmp = 0]
         /\ y \in LuaState
    <3>1. y = [o EXCEPT !.ci = <<>>, !.nCcalls = 0, !.baseCcalls = 0,
                        !.errfunc = f, !.errorJmp = 0]
      <4>1. y = [x EXCEPT !.ci = <<>>, !.nCcalls = 0, !.baseCcalls = 0]
        BY <2>7, <2>10
      <4>. QED
        BY <2>3, <2>12, <4>1 DEF LuaState
    <3>2. <<>> \in Seq(Frame)
      OBVIOUS
    <3>. QED
      BY <1>5, <3>1, <3>2 DEF LuaState
  <2>14. CallAllGCTM(s1) = Sets(Now, [y EXCEPT !.errorJmp = 1], <<TryOf("close", MainThread, y)>>, "run")
    <3>1. TopThread(Now.cs) = MainThread /\ Now.th = w
      BY <1>1, <1>2, <1>5, <2>2, NowFacts
    <3>2. PICK b : b = [y EXCEPT !.errorJmp = 1]
      OBVIOUS
    <3>3. [v EXCEPT ![MainThread] = b] = [w EXCEPT ![MainThread] = b]
      BY <2>2, <2>7
    <3>. QED
      BY <2>11, <3>1, <3>2, <3>3 DEF Sets
  <2>15. CloseMove(Now, CallAllGCTM(s1))
    BY ZenonT(60), <1>1, <1>2, <1>5, <2>2, <2>12, <2>13, <2>14, NowFacts DEF CloseMove
  <2>. QED
    BY <2>1, <2>2, <2>15, ClosingKeepsRoom, BecomeThen
<1>. QED
  BY <1>8, <1>9, <1>10, <1>11

LEMMA ProtectedReturnsEnds ==
    ASSUME Fine(Now), ProtectedReturns
    PROVE  EndsResume(Now, Then) \/ EndsPcall(Now, Then)
<1>1. mode = "run" /\ cstack # <<>> /\ IsTry(Top) /\ Top.kind # "close"
  BY DEF ProtectedReturns, IsTry
<1>2. PICK n, t, e, a : n = Len(cstack) /\ t = Top.t /\ e = th[t].errorJmp /\ a = cstack[e]
  BY Zenon
<1>3. Handled(n, t, e, a)
  BY <1>1, <1>2, HandledFacts
<1>4. e = n /\ a = Top /\ t \in Thread /\ a \in Try
  BY <1>1, <1>2, <1>3 DEF Handled, Top
<1>5. PICK D : D = SubSeq(cstack, 1, n - 1)
  BY Zenon
<1>6. PICK w \in [Thread -> LuaState], o \in LuaState : w = th /\ o = w[t] /\ o = Own(Now)
  BY <1>1, <1>2, NowFacts
<1>7. PICK p : p = Pop(Now) /\ p = [th |-> w, cs |-> D, mode |-> "run"]
  BY <1>1, <1>2, <1>5, <1>6, PopFields DEF Now
<1>8. PICK s : s = [p EXCEPT !.th[t].errorJmp = a.previous]
  OBVIOUS
<1>9. PICK x \in LuaState : x = [o EXCEPT !.errorJmp = a.previous]
  BY <1>4 DEF LuaState, Try
<1>10. s = [th |-> [w EXCEPT ![t] = x], cs |-> D, mode |-> "run"]
  <2>1. p.th = w /\ p.th[t] = o
    <3>1. p = [th |-> w, cs |-> D, mode |-> "run"]
      BY <1>7
    <3>2. p.th = w
      BY <3>1
    <3>. QED
      BY <1>6, <3>2
  <2>2. s = [p EXCEPT !.th[t] = x]
    BY <1>8, <1>9, <2>1
  <2>. QED
    BY <1>4, <1>7, <2>2, ThreadFields
<1>11. PICK v \in [Thread -> LuaState] : v = [w EXCEPT ![t] = x] /\ v[t] = x
  <2>1. [w EXCEPT ![t] = x] \in [Thread -> LuaState] /\ [w EXCEPT ![t] = x][t] = x
    BY <1>4
  <2>. QED
    BY Zenon, <2>1
<1>12. s = [th |-> v, cs |-> D, mode |-> "run"] /\ s.th = v /\ s.th[t] = x
  BY <1>10, <1>11
<1>13. CASE a.kind = "pcall"
  <2>1. PICK s1 : /\ s1 = [s EXCEPT !.th[t].errfunc = a.old_errfunc]
                  /\ Become(IF s1.cs = <<>> THEN s1 ELSE Done(s1))
    BY <1>2, <1>4, <1>7, <1>8, <1>13 DEF ProtectedReturns
  <2>2. PICK l : l = [x EXCEPT !.errfunc = a.old_errfunc]
    OBVIOUS
  <2>3. s1 = [s EXCEPT !.th[t] = l]
    BY <1>12, <2>1, <2>2
  <2>4. s1 = [th |-> [v EXCEPT ![t] = l], cs |-> D, mode |-> "run"]
    BY <1>4, <1>12, <2>3, ThreadFields
  <2>5. s1 = [th |-> [th EXCEPT ![t] = l], cs |-> SubSeq(cstack, 1, e - 1), mode |-> "run"]
    <3>1. [v EXCEPT ![t] = l] = [w EXCEPT ![t] = l]
      BY <1>11
    <3>. QED
      BY <1>4, <1>5, <1>6, <2>4, <3>1
  <2>6. PICK z \in Nat : z = o.size_ci
    BY DEF LuaState
  <2>7. a.old_ci = Len(o.ci) /\ a.oldnCcalls = o.nCcalls /\ a.old_allowhooks = o.allowhook
    <3>1. n = Len(cstack) /\ n # 0 /\ t = cstack[n].t /\ e = th[t].errorJmp
          /\ cstack[e].kind = "pcall" /\ Good(th, cstack, mode) /\ a = cstack[e]
      BY <1>2, <1>3, <1>13, NowFacts DEF Handled, Top, OK
    <3>2. PcallFacts(th, cstack, n, t, e)
      BY <3>1, EndOfPcall
    <3>. QED
      BY <1>4, <1>6, <3>1, <3>2 DEF PcallFacts
  <2>8. l = PcallEnded(th[t], a, z)
    <3>1. SubSeq(o.ci, 1, a.old_ci) = o.ci
      <4>1. o.ci \in Seq(Frame)
        BY DEF LuaState
      <4>. QED
        BY <2>7, <4>1
    <3>2. l = [o EXCEPT !.ci = o.ci, !.nCcalls = a.oldnCcalls,
                        !.allowhook = a.old_allowhooks, !.errfunc = a.old_errfunc,
                        !.errorJmp = a.previous, !.size_ci = z]
      BY <1>9, <2>2, <2>6, <2>7 DEF LuaState
    <3>. QED
      BY <1>6, <3>1, <3>2 DEF PcallEnded
  <2>9. a.old_ci < z
    <3>1. Len(o.ci) < o.size_ci
      BY <1>6, RoomOwn
    <3>. QED
      BY <2>6, <2>7, <3>1
  <2>10. EndsPcall(Now, IF s1.cs = <<>> THEN s1 ELSE Done(s1))
    BY <1>1, <1>3, <1>13, <2>5, <2>8, <2>9, AfterPcall
  <2>. QED
    BY <2>1, <2>10, BecomeEnds
<1>14. CASE a.kind = "resume"
  <2>1. PICK s1 : s1 = [s EXCEPT !.th[t].nCcalls = @ - 1] /\ Become(Done(s1))
    BY <1>2, <1>4, <1>7, <1>8, <1>14 DEF ProtectedReturns
  <2>2. PICK l : l = [x EXCEPT !.nCcalls = x.nCcalls - 1]
    OBVIOUS
  <2>3. s1 = [s EXCEPT !.th[t] = l]
    BY <1>12, <2>1, <2>2
  <2>4. s1 = [th |-> [v EXCEPT ![t] = l], cs |-> D, mode |-> "run"]
    BY <1>4, <1>12, <2>3, ThreadFields
  <2>5. s1 = [th |-> [th EXCEPT ![t] = l], cs |-> SubSeq(cstack, 1, e - 1), mode |-> "run"]
    <3>1. [v EXCEPT ![t] = l] = [w EXCEPT ![t] = l]
      BY Zenon, <1>11
    <3>. QED
      BY Zenon, <1>4, <1>5, <1>6, <2>4, <3>1
  <2>6. PICK code \in Status : code = o.status
    BY DEF LuaState
  <2>7. l = ResumeEnded(th[t], code)
    <3>1. a.previous = 0
      BY <1>3, <1>14 DEF Handled
    <3>2. l = [o EXCEPT !.status = code, !.nCcalls = o.nCcalls - 1, !.errorJmp = 0]
      BY <1>9, <2>2, <2>6, <3>1 DEF LuaState
    <3>. QED
      BY <1>6, <3>2 DEF ResumeEnded
  <2>8. Fine(s1) /\ Acts(s1) /\ TopOf(s1).k = "cfun" /\ s1.mode = "run" /\ EndResumeMove(Now, s1)
    <3>1. e = n /\ code = th[t].status
      BY <1>4, <1>6, <2>6
    <3>. QED
      BY <1>1, <1>3, <1>14, <2>5, <2>7, <3>1, AfterResume
  <2>9. EndsResume(Now, Done(s1))
    BY <2>8, DoneStep DEF EndsResume
  <2>. QED
    BY <2>1, <2>9, BecomeBack
<1>. QED
  BY <1>1, <1>4, <1>13, <1>14 DEF Try

LEMMA ReturningMoves ==
    ASSUME Fine(Now), luaD_throw \/ ProtectedReturns
    PROVE  \/ Moves(Now, Then) \/ EndsPcall(Now, Then)
           \/ cstack[1].kind = "close" /\ CloseMove(Now, Then)
BY luaD_throwEnds, ProtectedReturnsEnds, EndsResumeMoves

-----------------------------------------------------------------------------
(* Coroutines.                                                             *)

(* A coroutine that waits to be resumed, or is dead, has no handler.       *)
LEMMA IdleFacts ==
    ASSUME Fine(Now), cstack # <<>>, NEW c \in Thread,
           costatus(Top.t, c) \in {"suspended", "dead"}
    PROVE  c # Top.t /\ th[c].errorJmp = 0
<1>1. c # Top.t
  BY DEF costatus
<1>2. PICK o \in LuaState : o = th[c]
  BY NowFacts
<1>3. o.status # "ok" \/ o.ci = <<>>
  BY <1>1, <1>2 DEF costatus
<1>4. TopThread(cstack) # c
  BY <1>1, NowFacts
<1>5. Alive(th, cstack, mode)
  BY NowFacts DEF OK, Good, Shape
<1>. QED
  BY <1>1, <1>2, <1>3, <1>4, <1>5 DEF Alive

LEMMA luaB_cocreateMoves ==
    ASSUME Fine(Now), NEW c \in Thread \ {MainThread}, luaB_cocreate(c)
    PROVE  OtherMove(Now, Then)
<1>1. Starts("c") /\ costatus(Top.t, c) = "dead"
  BY DEF luaB_cocreate
<1>2. cstack # <<>> /\ Top.t = TopThread(Now.cs) /\ Now.mode = "run"
  BY <1>1, StartsFacts, RunsFacts, NowFacts
<1>3. c # Top.t /\ th[c].errorJmp = 0 /\ c \in Thread
  BY <1>1, <1>2, IdleFacts
<1>4. PICK o \in LuaState : o = th[c]
  BY <1>3, NowFacts
<1>5. o.status \in {"throw", "errerr"} \/ (o.status = "ok" /\ o.ci = <<>> /\ ~o.fn)
  BY <1>1, <1>3, <1>4 DEF costatus, LuaState, Status
<1>6. PICK l : l = NewThread(TRUE)
  OBVIOUS
<1>7. l \in LuaState
  <2>1. <<>> \in Seq(Frame)
    OBVIOUS
  <2>. QED
    BY <1>6, <2>1, CallsAssumption DEF NewThread, LuaState, Status
<1>8. PICK r : r = [Now EXCEPT !.th[c] = l] /\ Become(r)
  BY <1>6 DEF luaB_cocreate
<1>9. r = [Now EXCEPT !.th = [Now.th EXCEPT ![c] = l]]
  BY <1>3, <1>8
<1>10. OtherMove(Now, r)
  BY Zenon, <1>2, <1>3, <1>4, <1>5, <1>6, <1>7, <1>9, NowFacts DEF OtherMove
<1>. QED
  BY <1>8, <1>10, BecomeOne DEF Move

(* The function resume() of ldo.c: a coroutine starts,                      *)
LEMMA ContinueFresh ==
    ASSUME NEW r, Fine(r), r.mode = "run", r.cs # <<>>,
           NEW c, c = TopThread(r.cs), Own(r).status = "ok", ~Own(r).fn
    PROVE  Continue(r, c) = Entered(r, c, "lua")
<1>1. /\ c \in Thread /\ r.th \in [Thread -> LuaState] /\ r.cs \in Seq(Activation)
      /\ r \in State /\ Own(r) = r.th[c]
  BY OwnFacts DEF Fine, OK, Own
<1>2. PICK w \in [Thread -> LuaState], D \in Seq(Activation), N \in Mode :
             w = r.th /\ D = r.cs /\ N = "run"
  BY <1>1 DEF Mode
<1>3. PICK o \in LuaState : o = w[c] /\ o = Own(r) /\ o = r.th[c]
  BY <1>1, <1>2
<1>4. r = [th |-> w, cs |-> D, mode |-> N]
  BY <1>1, <1>2, StateFields
<1>5. [o EXCEPT !.fn = FALSE] = o
  BY <1>3 DEF LuaState
<1>6. [r EXCEPT !.th[c].fn = FALSE] = r
  <2>1. [w EXCEPT ![c] = o] = w
    BY <1>1, <1>3
  <2>2. [r EXCEPT !.th[c].fn = FALSE] = [r EXCEPT !.th[c] = o]
    BY <1>3, <1>5
  <2>. QED
    BY <1>1, <1>4, <2>1, <2>2, ThreadFields
<1>. QED
  BY <1>3, <1>6 DEF Continue, Entered

(* or goes on after a yield.                                               *)
LEMMA ContinueYielded ==
    ASSUME NEW r, Fine(r), r.mode = "run", r.cs # <<>>, IsResume(TopOf(r)),
           NEW c, c = TopThread(r.cs), Own(r).status = "yield"
    PROVE  ContinueMove(r, Continue(r, c))
<1>1. /\ c \in Thread /\ r.th \in [Thread -> LuaState] /\ r.cs \in Seq(Activation)
      /\ r \in State /\ Own(r) = r.th[c]
  BY OwnFacts DEF Fine, OK, Own
<1>2. PICK w \in [Thread -> LuaState], D \in Seq(Activation), N \in Mode :
             w = r.th /\ D = r.cs /\ N = "run"
  BY <1>1 DEF Mode
<1>3. PICK o \in LuaState : o = w[c] /\ o = Own(r) /\ o = r.th[c]
  BY <1>1, <1>2
<1>4. r = [th |-> w, cs |-> D, mode |-> N]
  BY <1>1, <1>2, StateFields
<1>6. o.status = "yield"
  BY <1>3
<1>11. Len(o.ci) >= 2 /\ o.ci \in Seq(Frame)
  <2>1. Good(r.th, r.cs, r.mode) /\ r.th[c].status = "yield"
    BY <1>3, <1>6 DEF Fine, OK
  <2>2. Len(r.th[c].ci) >= 2
    BY <1>1, <2>1, YieldedFrames
  <2>. QED
    BY <1>3, <2>2 DEF LuaState
<1>12. PICK q \in Nat : q = Len(o.ci) - 1
  <2>1. PICK m \in Nat : m = Len(o.ci)
    BY <1>11
  <2>2. m - 1 \in Nat
    BY <1>11, <2>1
  <2>. QED
    BY <2>1, <2>2
<1>13. PICK k \in Seq(Frame) : k = SubSeq(o.ci, 1, Len(o.ci) - 1) /\ Len(k) = q
  <2>1. q \in 0..Len(o.ci)
    BY <1>11, <1>12
  <2>. QED
    BY ZenonT(60), <1>11, <1>12, <2>1, CutFacts
<1>14. PICK m \in LuaState : m = [o EXCEPT !.status = "ok"] /\ m.ci = o.ci
  <2>1. [o EXCEPT !.status = "ok"] \in LuaState /\ [o EXCEPT !.status = "ok"].ci = o.ci
    BY DEF LuaState, Status
  <2>. QED
    BY <2>1
<1>15. PICK l \in LuaState : l = [m EXCEPT !.ci = k] /\ l.ci = k
  <2>1. [m EXCEPT !.ci = k] \in LuaState /\ [m EXCEPT !.ci = k].ci = k
    BY DEF LuaState
  <2>. QED
    BY <2>1
<1>16. PICK u \in [Thread -> LuaState] : u = [w EXCEPT ![c] = m] /\ u[c] = m
  <2>1. [w EXCEPT ![c] = m] \in [Thread -> LuaState] /\ [w EXCEPT ![c] = m][c] = m
    BY <1>1
  <2>. QED
    BY Zenon, <2>1
<1>17. PICK v \in [Thread -> LuaState] : v = [w EXCEPT ![c] = l] /\ v[c] = l
  <2>1. [w EXCEPT ![c] = l] \in [Thread -> LuaState] /\ [w EXCEPT ![c] = l][c] = l
    BY <1>1
  <2>. QED
    BY Zenon, <2>1
<1>18. PICK x : x = [r EXCEPT !.th[c].status = "ok"]
  OBVIOUS
<1>19. x = [th |-> u, cs |-> D, mode |-> N]
  <2>1. x = [r EXCEPT !.th[c] = m]
    BY <1>3, <1>14, <1>18
  <2>. QED
    BY <1>1, <1>4, <1>16, <2>1, ThreadFields
<1>20. PICK y : y = PopFrame(x, c)
  OBVIOUS
<1>21. y = [th |-> v, cs |-> D, mode |-> N]
  <2>1. x.th = u /\ x.th[c] = m /\ SubSeq(m.ci, 1, Len(m.ci) - 1) = k
    BY <1>13, <1>14, <1>16, <1>19
  <2>2. y = [x EXCEPT !.th[c] = l]
    BY <1>15, <1>20, <2>1 DEF PopFrame
  <2>3. y = [th |-> [u EXCEPT ![c] = l], cs |-> D, mode |-> N]
    BY <1>1, <1>19, <2>2, ThreadFields
  <2>4. [u EXCEPT ![c] = l] = v
    BY <1>16, <1>17
  <2>. QED
    BY <2>3, <2>4
<1>22. PICK a : a = [k |-> "exec", t |-> c, n |-> q]
  OBVIOUS
<1>23. y.th[c].ci = k
  BY <1>15, <1>17, <1>21
<1>24. Continue(r, c) = Push(y, a)
  <2>1. r.th[c].status # "ok"
    BY <1>3, <1>6
  <2>2. Continue(r, c) = Execute(y, c, Len(y.th[c].ci))
    BY <1>18, <1>20, <2>1 DEF Continue
  <2>3. Len(y.th[c].ci) = q
    BY <1>13, <1>23
  <2>. QED
    BY <1>22, <2>2, <2>3 DEF Execute
<1>25. Continue(r, c) = [th |-> v, cs |-> Append(D, a), mode |-> N]
  <2>1. Push([th |-> v, cs |-> D, mode |-> N], a) = [th |-> v, cs |-> Append(D, a), mode |-> N]
    BY PushFields
  <2>. QED
    BY <1>21, <1>24, <2>1
<1>26. l = [o EXCEPT !.ci = k, !.status = "ok"]
  BY <1>14, <1>15 DEF LuaState
<1>27. Continue(r, c) =
         Sets(r, [Own(r) EXCEPT !.ci = SubSeq(@, 1, Len(@) - 1), !.status = "ok"],
              Append(r.cs, [k |-> "exec", t |-> TopThread(r.cs), n |-> Len(Own(r).ci) - 1]), "run")
  <2>1. l = [Own(r) EXCEPT !.ci = SubSeq(@, 1, Len(@) - 1), !.status = "ok"]
    BY <1>3, <1>13, <1>26
  <2>2. a = [k |-> "exec", t |-> TopThread(r.cs), n |-> Len(Own(r).ci) - 1]
    BY <1>3, <1>12, <1>22
  <2>. QED
    BY <1>2, <1>17, <1>25, <2>1, <2>2 DEF Sets
<1>. QED
  BY <1>3, <1>6, <1>27 DEF ContinueMove

LEMMA ContinueStep ==
    ASSUME NEW r, Fine(r), r.mode = "run", r.cs # <<>>, IsResume(TopOf(r)),
           NEW c, c = TopThread(r.cs),
           Own(r).status = "yield" \/ (Own(r).status = "ok" /\ Own(r).ci = <<>> /\ ~Own(r).fn)
    PROVE  Moves(r, Continue(r, c))
<1>1. CASE Own(r).status = "yield"
  BY <1>1, ContinueYielded, NoMove, OneMove DEF Move
<1>2. CASE Own(r).status = "ok" /\ Own(r).ci = <<>> /\ ~Own(r).fn
  <2>1. Acts(r) /\ CanEnter(r, "lua")
    BY <1>2 DEF Acts, CanEnter
  <2>2. Moves(r, Entered(r, c, "lua"))
    BY <2>1, EnterFacts, FramesKnown
  <2>. QED
    BY <1>2, <2>2, ContinueFresh
<1>. QED
  BY <1>1, <1>2

(* lua_resume goes ahead.                                                  *)
LEMMA ResumeBegins ==
    ASSUME Fine(Now), NEW c \in Thread \ {MainThread}, auxresume(c),
           costatus(Top.t, c) = "suspended", Own(Now).nCcalls < MaxCCalls
    PROVE  \E r : /\ ResumeMove(Now, r) /\ Fine(r) /\ Become(Continue(r, c))
                  /\ r.mode = "run" /\ r.cs # <<>> /\ IsResume(TopOf(r)) /\ TopThread(r.cs) = c
                  /\ \E a \in Activation : IsResume(a) /\ a.t = c /\ r.cs = Append(cstack, a)
                  /\ \A u \in Thread : u # c => r.th[u] = th[u]
                  /\ Own(r).ci = th[c].ci /\ Own(r).status = th[c].status
                  /\ \/ Own(r).status = "yield"
                     \/ Own(r).status = "ok" /\ Own(r).ci = <<>> /\ ~Own(r).fn
<1>1. PICK f \in {"resume", "wrap"} : Starts(f)
  BY DEF auxresume
<1>2. /\ Runs /\ TopOf(Now).k = "cfun" /\ TopOf(Now).f \in {"resume", "wrap"} /\ Now.cs # <<>>
      /\ mode = "run" /\ cstack # <<>>
  BY <1>1, StartsFacts DEF Starts, InC
<1>3. PICK t \in Thread : t = Top.t /\ t = TopThread(Now.cs)
  BY <1>2, RunsFacts
<1>4. PICK w \in [Thread -> LuaState], D \in Seq(Activation) :
          w = th /\ D = cstack /\ Now = [th |-> w, cs |-> D, mode |-> "run"]
  BY <1>2, NowFacts DEF Now
<1>5. PICK o \in LuaState : o = w[c]
  OBVIOUS
<1>6. PICK n \in Nat : n = w[t].nCcalls /\ n = Own(Now).nCcalls
  BY <1>2, <1>3, <1>4, RunsFacts DEF LuaState
<1>7. Become(lua_resume(Now, t, c)) /\ costatus(t, c) = "suspended"
  BY <1>3 DEF auxresume
<1>8. c # t /\ o.errorJmp = 0
  BY <1>2, <1>3, <1>4, <1>5, <1>7, IdleFacts
<1>9. o.status = "yield" \/ (o.status = "ok" /\ o.ci = <<>>)
  BY <1>4, <1>5, <1>7, <1>8 DEF costatus
<1>10. Now.th = w /\ Now.th[c] = o /\ Now.cs = D /\ Acts(Now) /\ Now.mode = "run" /\ n < MaxCCalls
  BY <1>2, <1>4, <1>5, <1>6, NowFacts, RunsFacts
<1>11. ~(n >= MaxCCalls)
  BY <1>10, CallsAssumption
<1>12. PICK m \in LuaState : m = [o EXCEPT !.nCcalls = n + 1, !.baseCcalls = n + 1]
  <2>1. n + 1 \in Nat
    OBVIOUS
  <2>. QED
    BY <2>1 DEF LuaState
<1>13. m.ci = o.ci /\ m.status = o.status /\ m.fn = o.fn /\ m.fn \in BOOLEAN
  BY <1>12 DEF LuaState
<1>14. PICK x : x = [Now EXCEPT !.th[c].nCcalls = n + 1, !.th[c].baseCcalls = n + 1]
  OBVIOUS
<1>15. PICK y : y = luaD_rawrunprotected(x, c, "resume")
  OBVIOUS
<1>16. lua_resume(Now, t, c) = Continue(y, c)
  BY <1>4, <1>6, <1>9, <1>10, <1>11, <1>14, <1>15 DEF lua_resume
<1>17. PICK v \in [Thread -> LuaState] : v = [w EXCEPT ![c] = m] /\ v[c] = m
  <2>1. [w EXCEPT ![c] = m] \in [Thread -> LuaState] /\ [w EXCEPT ![c] = m][c] = m
    OBVIOUS
  <2>. QED
    BY Zenon, <2>1
<1>18. x = [th |-> v, cs |-> D, mode |-> "run"]
  <2>1. x = [Now EXCEPT !.th = [Now.th EXCEPT ![c] = m]]
    BY <1>10, <1>12, <1>14
  <2>2. x = [Now EXCEPT !.th = v]
    BY <1>10, <1>17, <2>1
  <2>. QED
    BY <1>4, <2>2
<1>19. x \in State /\ x.th = v /\ x.cs = D /\ x.mode = "run"
  BY <1>18 DEF State, Mode
<1>20. PICK e \in Nat : e = Len(D) + 1
  OBVIOUS
<1>21. PICK p \in LuaState : /\ p = [m EXCEPT !.errorJmp = e] /\ p.ci = o.ci
                             /\ p.status = o.status /\ p.fn = o.fn
  <2>1. /\ [m EXCEPT !.errorJmp = e] \in LuaState /\ [m EXCEPT !.errorJmp = e].ci = m.ci
        /\ [m EXCEPT !.errorJmp = e].status = m.status /\ [m EXCEPT !.errorJmp = e].fn = m.fn
    BY DEF LuaState
  <2>. QED
    BY <1>13, <2>1
<1>22. PICK q \in [Thread -> LuaState] : q = [w EXCEPT ![c] = p] /\ q[c] = p
  <2>1. [w EXCEPT ![c] = p] \in [Thread -> LuaState] /\ [w EXCEPT ![c] = p][c] = p
    OBVIOUS
  <2>. QED
    BY Zenon, <2>1
<1>23. PICK a \in Activation : a = TryOf("resume", c, m) /\ a.t = c /\ IsResume(a)
  BY TryFacts DEF Activation, Try, IsResume
<1>24. y = [th |-> q, cs |-> Append(D, a), mode |-> "run"]
  <2>1. luaD_rawrunprotected(x, c, "resume") =
          [th |-> [x.th EXCEPT ![c] = [x.th[c] EXCEPT !.errorJmp = Len(x.cs) + 1]],
           cs |-> Append(x.cs, TryOf("resume", c, x.th[c])), mode |-> x.mode]
    BY <1>19, RawFields
  <2>2. [v EXCEPT ![c] = p] = q
    BY <1>17, <1>22
  <2>. QED
    BY <1>15, <1>17, <1>19, <1>20, <1>21, <1>23, <2>1, <2>2
(* The state that ResumeMove leads to.                                     *)
<1>25. PICK k \in LuaState : k = [m EXCEPT !.fn = @ /\ o.status = "yield"]
  BY <1>13 DEF LuaState
<1>26. PICK l \in LuaState : /\ l = [k EXCEPT !.errorJmp = e] /\ l = [p EXCEPT !.fn = @ /\ o.status = "yield"]
                             /\ l.ci = o.ci /\ l.status = o.status /\ (o.status = "ok" => ~l.fn)
                             /\ (o.status = "yield" => l = p) /\ [l EXCEPT !.fn = FALSE] = [p EXCEPT !.fn = FALSE]
  <2>1. PICK l \in LuaState : l = [k EXCEPT !.errorJmp = e]
    BY DEF LuaState
  <2>2. l = [p EXCEPT !.fn = @ /\ o.status = "yield"]
    BY <1>21, <1>25, <2>1 DEF LuaState
  <2>3. l.ci = o.ci /\ l.status = o.status /\ l.fn = (p.fn /\ o.status = "yield")
    BY <1>21, <2>2 DEF LuaState
  <2>4. o.status = "ok" => ~l.fn
    BY <2>3
  <2>5. ASSUME o.status = "yield" PROVE l = p
    <3>1. l.fn = p.fn /\ p.fn \in BOOLEAN
      BY <2>3, <2>5 DEF LuaState
    <3>2. l = [p EXCEPT !.fn = l.fn]
      BY <2>2, <2>3
    <3>. QED
      BY <3>1, <3>2 DEF LuaState
  <2>6. [l EXCEPT !.fn = FALSE] = [p EXCEPT !.fn = FALSE]
    BY <2>2 DEF LuaState
  <2>. QED
    BY <2>1, <2>2, <2>3, <2>4, <2>5, <2>6
<1>27. PICK z \in [Thread -> LuaState] : z = [w EXCEPT ![c] = l] /\ z[c] = l
  <2>1. [w EXCEPT ![c] = l] \in [Thread -> LuaState] /\ [w EXCEPT ![c] = l][c] = l
    OBVIOUS
  <2>. QED
    BY Zenon, <2>1
<1>28. PICK r : r = [th |-> z, cs |-> Append(D, a), mode |-> "run"]
  OBVIOUS
<1>29. r.th = z /\ r.cs = Append(D, a) /\ r.mode = "run"
  BY <1>28
<1>30. ResumeMove(Now, r)
  <2>1. k = [Now.th[c] EXCEPT !.nCcalls = Own(Now).nCcalls + 1, !.baseCcalls = Own(Now).nCcalls + 1,
                              !.fn = @ /\ Now.th[c].status = "yield"]
    BY <1>6, <1>10, <1>12, <1>25
  <2>2. TryOf("resume", c, k) = a
    BY <1>23, <1>25 DEF TryOf, LuaState
  <2>3. r = [th |-> [Now.th EXCEPT ![c] = [k EXCEPT !.errorJmp = Len(Now.cs) + 1]],
             cs |-> Append(Now.cs, TryOf("resume", c, k)), mode |-> "run"]
    BY <1>10, <1>20, <1>26, <1>27, <1>28, <2>2
  <2>. QED
    BY Zenon, <1>2, <1>3, <1>6, <1>8, <1>9, <1>10, <2>1, <2>3, RunsFacts DEF ResumeMove
<1>31. Fine(r)
  BY <1>30, MoveKeepsRoom DEF Move
<1>32. r.cs # <<>> /\ TopOf(r) = a /\ TopThread(r.cs) = c
  BY <1>23, <1>29, PushedTop DEF TopOf
<1>33. Own(r) = l
  BY <1>27, <1>29, <1>32 DEF Own
<1>34. Continue(y, c) = Continue(r, c)
  <2>1. CASE o.status = "yield"
    <3>1. q = z
      BY <1>22, <1>26, <1>27, <2>1
    <3>. QED
      BY <1>24, <1>28, <3>1
  <2>2. CASE o.status = "ok"
    <3>1. PICK A : A = Append(D, a)
      OBVIOUS
    <3>2. y = [th |-> q, cs |-> A, mode |-> "run"] /\ r = [th |-> z, cs |-> A, mode |-> "run"]
      BY <1>24, <1>28, <3>1
    <3>3. PICK g : g = [p EXCEPT !.fn = FALSE] /\ g = [l EXCEPT !.fn = FALSE]
      BY <1>26
    <3>4. [q EXCEPT ![c] = g] = [w EXCEPT ![c] = g] /\ [z EXCEPT ![c] = g] = [w EXCEPT ![c] = g]
      BY <1>22, <1>27
    <3>5. [y EXCEPT !.th[c].fn = FALSE] = [r EXCEPT !.th[c].fn = FALSE]
      <4>1. y.th[c] = p /\ r.th[c] = l
        BY <1>22, <1>27, <3>2
      <4>2. [y EXCEPT !.th[c].fn = FALSE] = [y EXCEPT !.th[c] = g]
        BY <3>3, <4>1
      <4>3. [r EXCEPT !.th[c].fn = FALSE] = [r EXCEPT !.th[c] = g]
        BY <3>3, <4>1
      <4>4. [y EXCEPT !.th[c] = g] = [th |-> [q EXCEPT ![c] = g], cs |-> A, mode |-> "run"]
        <5>1. PICK h : h = [y EXCEPT !.th[c] = g]
          OBVIOUS
        <5>2. h = [th |-> [q EXCEPT ![c] = g], cs |-> A, mode |-> "run"]
          BY ONLY <3>2, <5>1, q \in [Thread -> LuaState], c \in Thread, ThreadFields
        <5>. QED
          BY <5>1, <5>2
      <4>5. [r EXCEPT !.th[c] = g] = [th |-> [z EXCEPT ![c] = g], cs |-> A, mode |-> "run"]
        <5>1. PICK h : h = [r EXCEPT !.th[c] = g]
          OBVIOUS
        <5>2. h = [th |-> [z EXCEPT ![c] = g], cs |-> A, mode |-> "run"]
          BY ONLY <3>2, <5>1, z \in [Thread -> LuaState], c \in Thread, ThreadFields
        <5>. QED
          BY <5>1, <5>2
      <4>. QED
        BY <3>4, <4>2, <4>3, <4>4, <4>5
    <3>6. y.th[c].status = "ok" /\ r.th[c].status = "ok"
      BY <1>21, <1>22, <1>26, <1>27, <2>2, <3>2
    <3>. QED
      BY <3>5, <3>6 DEF Continue
  <2>. QED
    BY <1>9, <2>1, <2>2
<1>35. Become(Continue(r, c))
  BY <1>7, <1>16, <1>34
<1>36. \A u \in Thread : u # c => r.th[u] = th[u]
  BY <1>4, <1>27, <1>29
<1>37. Own(r).ci = th[c].ci /\ Own(r).status = th[c].status
  BY <1>4, <1>5, <1>26, <1>33
<1>38. Own(r).status = "yield" \/ (Own(r).status = "ok" /\ Own(r).ci = <<>> /\ ~Own(r).fn)
  BY <1>9, <1>26, <1>33
<1>39. \E b \in Activation : IsResume(b) /\ b.t = c /\ r.cs = Append(cstack, b)
  BY <1>4, <1>23, <1>29
<1>. QED
  BY Zenon, <1>23, <1>29, <1>30, <1>31, <1>32, <1>35, <1>36, <1>37, <1>38, <1>39

(* lua_resume refuses: there have been too many C calls.                   *)
LEMMA ResumeRefused ==
    ASSUME Fine(Now), NEW c \in Thread \ {MainThread}, auxresume(c),
           costatus(Top.t, c) = "suspended", ~(Own(Now).nCcalls < MaxCCalls)
    PROVE  \E x, l : /\ OtherMove(Now, x) /\ Fine(x) /\ Become(ResumeFailed(x))
                     /\ Acts(x) /\ TopOf(x).k = "cfun" /\ x.mode = "run"
                     /\ x.th = [th EXCEPT ![c] = l] /\ x.cs = cstack
                     /\ th[c].errorJmp = 0 /\ l.ci = th[c].ci /\ l.status = th[c].status
                     /\ l.fn = (th[c].fn /\ th[c].status = "yield")
                     /\ th[c].status = "yield" \/ (th[c].status = "ok" /\ th[c].ci = <<>>)
<1>1. PICK f \in {"resume", "wrap"} : Starts(f)
  BY DEF auxresume
<1>2. /\ Runs /\ TopOf(Now).k = "cfun" /\ TopOf(Now).f \in {"resume", "wrap"} /\ Now.cs # <<>>
      /\ mode = "run" /\ cstack # <<>>
  BY <1>1, StartsFacts DEF Starts, InC
<1>3. PICK t \in Thread : t = Top.t /\ t = TopThread(Now.cs)
  BY <1>2, RunsFacts
<1>4. PICK w \in [Thread -> LuaState], D \in Seq(Activation) :
          w = th /\ D = cstack /\ Now = [th |-> w, cs |-> D, mode |-> "run"]
  BY <1>2, NowFacts DEF Now
<1>5. PICK o \in LuaState : o = w[c]
  OBVIOUS
<1>6. PICK n \in Nat : n = w[t].nCcalls /\ n = Own(Now).nCcalls
  BY <1>2, <1>3, <1>4, RunsFacts DEF LuaState
<1>7. Become(lua_resume(Now, t, c)) /\ costatus(t, c) = "suspended"
  BY <1>3 DEF auxresume
<1>8. c # t /\ o.errorJmp = 0
  BY <1>2, <1>3, <1>4, <1>5, <1>7, IdleFacts
<1>9. o.status = "yield" \/ (o.status = "ok" /\ o.ci = <<>>)
  BY <1>4, <1>5, <1>7, <1>8 DEF costatus
<1>10. Now.th = w /\ Now.th[c] = o /\ Now.cs = D /\ Acts(Now) /\ Now.mode = "run"
  BY <1>2, <1>4, <1>5, NowFacts, RunsFacts
<1>11. n >= MaxCCalls
  BY <1>6, CallsAssumption
<1>12. PICK x : x = [Now EXCEPT !.th[c].nCcalls = n, !.th[c].fn = @ /\ o.status = "yield"]
  OBVIOUS
<1>13. lua_resume(Now, t, c) = ResumeFailed(x)
  BY <1>4, <1>6, <1>9, <1>10, <1>11, <1>12 DEF lua_resume
<1>14. PICK l \in LuaState : l = [o EXCEPT !.nCcalls = n, !.fn = @ /\ o.status = "yield"]
  <2>1. [o EXCEPT !.nCcalls = n, !.fn = @ /\ o.status = "yield"] \in LuaState
    BY DEF LuaState
  <2>. QED
    BY <2>1
<1>15. x = [Now EXCEPT !.th = [Now.th EXCEPT ![c] = l]]
  BY <1>10, <1>12, <1>14
<1>16. OtherMove(Now, x)
  BY Zenon, <1>3, <1>6, <1>8, <1>9, <1>10, <1>14, <1>15 DEF OtherMove
<1>17. Fine(x)
  BY <1>16, MoveKeepsRoom DEF Move
<1>18. PICK v : v = [w EXCEPT ![c] = l]
  BY Zenon
<1>19. x.th = v /\ x.cs = D /\ x.mode = "run"
  BY <1>4, <1>10, <1>15, <1>18
<1>20. v[t] = w[t]
  BY <1>3, <1>8, <1>18
<1>21. Acts(x) /\ TopOf(x) = TopOf(Now)
  BY <1>2, <1>3, <1>10, <1>19, <1>20 DEF Acts, Own, TopOf
<1>22. l.ci = o.ci /\ l.status = o.status /\ l.fn = (o.fn /\ o.status = "yield")
  BY <1>14 DEF LuaState
<1>23. Become(ResumeFailed(x))
  BY <1>7, <1>13
<1>24. x.th = [th EXCEPT ![c] = l] /\ x.cs = cstack /\ th[c] = o
  BY <1>4, <1>5, <1>18, <1>19
<1>. QED
  BY Zenon, <1>2, <1>8, <1>9, <1>16, <1>17, <1>19, <1>21, <1>22, <1>23, <1>24

LEMMA auxresumeMoves ==
    ASSUME Fine(Now), NEW c \in Thread \ {MainThread}, auxresume(c)
    PROVE  Moves(Now, Then)
<1>1. CASE costatus(Top.t, c) # "suspended"
  <2>1. Runs /\ TopOf(Now).k = "cfun"
    BY StartsFacts DEF auxresume, Starts, InC
  <2>2. Acts(Now) /\ Now.mode = "run" /\ Become(ResumeFailed(Now))
    BY <1>1, <2>1, RunsFacts, NowFacts DEF auxresume
  <2>. QED
    BY <2>1, <2>2, FailedStep, BecomeMoves
<1>2. CASE costatus(Top.t, c) = "suspended" /\ ~(Own(Now).nCcalls < MaxCCalls)
  <2>1. PICK x : /\ OtherMove(Now, x) /\ Fine(x) /\ Become(ResumeFailed(x))
                 /\ Acts(x) /\ TopOf(x).k = "cfun" /\ x.mode = "run"
    BY <1>2, ResumeRefused
  <2>2. Moves(Now, x)
    BY <2>1, NoMove, OneMove DEF Move
  <2>. QED
    BY <2>1, <2>2, FailedStep, MovesOn, BecomeMoves
<1>3. CASE costatus(Top.t, c) = "suspended" /\ Own(Now).nCcalls < MaxCCalls
  <2>1. PICK r : /\ ResumeMove(Now, r) /\ Fine(r) /\ Become(Continue(r, c))
                 /\ r.mode = "run" /\ r.cs # <<>> /\ IsResume(TopOf(r)) /\ TopThread(r.cs) = c
                 /\ \/ Own(r).status = "yield"
                    \/ Own(r).status = "ok" /\ Own(r).ci = <<>> /\ ~Own(r).fn
    BY <1>3, ResumeBegins
  <2>2. Moves(Now, r)
    BY <2>1, NoMove, OneMove DEF Move
  <2>3. Moves(r, Continue(r, c))
    BY <2>1, ContinueStep
  <2>. QED
    BY <2>1, <2>2, <2>3, MovesOn, BecomeMoves
<1>. QED
  BY <1>1, <1>2, <1>3

-----------------------------------------------------------------------------
(* The host program.                                                       *)

LEMMA BetweenCalls ==
    ASSUME Fine(Now), cstack = <<>>
    PROVE  mode = "run" /\ th[MainThread].status = "ok" /\ th[MainThread].errorJmp = 0
<1>1. PICK F, G, H : Shape(th, cstack, mode, F, G, H)
  BY NowFacts DEF OK, Good
<1>2. Len(cstack) = 0 /\ MainThread \in Thread
  BY CallsAssumption
<1>3. Alive(th, cstack, mode) /\ Jumps(th, cstack)
  BY <1>1 DEF Shape
<1>. QED
  BY <1>2, <1>3 DEF Alive, Jumps, Innermost

LEMMA lua_cpcallMoves == ASSUME Fine(Now), lua_cpcall PROVE Moves(Now, Then)
<1>1. /\ cstack = <<>>
      /\ Become(luaD_call(luaD_pcall(Now, MainThread, 0), MainThread, "c"))
  BY DEF lua_cpcall
<1>2. /\ Now.cs = <<>> /\ Now.mode = "run" /\ Own(Now).status = "ok"
      /\ MainThread = TopThread(Now.cs)
  BY <1>1, NowFacts, BetweenCalls
<1>3. 0 = HandlerFor(Now) /\ "c" \in Frame
  BY <1>2 DEF HandlerFor, Frame, CFunction
<1>4. Moves(Now, luaD_call(luaD_pcall(Now, MainThread, 0), MainThread, "c"))
  BY <1>2, <1>3, PcallCall
<1>. QED
  BY <1>1, <1>4, BecomeMoves

LEMMA lua_closeMoves == ASSUME Fine(Now), lua_close PROVE CloseMove(Now, Then) /\ Fine(Then)
<1>1. cstack = <<>> /\ Become(CallAllGCTM([Now EXCEPT !.th[MainThread].errfunc = 0]))
  BY DEF lua_close
<1>2. /\ mode = "run" /\ MainThread = TopThread(Now.cs) /\ MainThread \in Thread
      /\ th[MainThread].errorJmp = 0
  BY <1>1, NowFacts, BetweenCalls, CallsAssumption
<1>3. PICK w \in [Thread -> LuaState] : w = th /\ Now = [th |-> w, cs |-> <<>>, mode |-> "run"]
  BY <1>1, <1>2, NowFacts DEF Now
<1>4. PICK o \in LuaState : o = w[MainThread] /\ o = Own(Now)
  BY <1>1, <1>2, <1>3, NowFacts
<1>5. PICK k : k = [o EXCEPT !.errfunc = 0]
  OBVIOUS
<1>6. k \in LuaState /\ k.errorJmp = 0
  BY <1>2, <1>3, <1>4, <1>5 DEF LuaState
<1>7. PICK v \in [Thread -> LuaState] : v = [w EXCEPT ![MainThread] = k]
  <2>1. [w EXCEPT ![MainThread] = k] \in [Thread -> LuaState]
    BY <1>2, <1>6
  <2>. QED
    BY Zenon, <2>1
<1>8. v[MainThread] = k
  BY <1>2, <1>6, <1>7
<1>9. PICK s : s = [Now EXCEPT !.th[MainThread].errfunc = 0]
  OBVIOUS
<1>10. s = [th |-> v, cs |-> <<>>, mode |-> "run"]
  <2>1. s = [Now EXCEPT !.th[MainThread] = k]
    BY <1>2, <1>3, <1>4, <1>5, <1>9
  <2>2. s = [th |-> [w EXCEPT ![MainThread] = k], cs |-> <<>>, mode |-> "run"]
    BY <1>2, <1>3, <2>1, ThreadFields
  <2>. QED
    BY <1>7, <2>2
<1>11. PICK l : l = [v[MainThread] EXCEPT !.ci = <<>>, !.nCcalls = 0, !.baseCcalls = 0]
  OBVIOUS
<1>12. l \in LuaState /\ l.errorJmp = 0
  <2>1. <<>> \in Seq(Frame)
    OBVIOUS
  <2>. QED
    BY <1>6, <1>8, <1>11, <2>1 DEF LuaState
<1>13. CallAllGCTM(s) = [th |-> [v EXCEPT ![MainThread] = [l EXCEPT !.errorJmp = 1]],
                         cs |-> <<TryOf("close", MainThread, l)>>, mode |-> "run"]
  <2>1. v[MainThread].errorJmp = 0
    BY <1>6, <1>8
  <2>. QED
    BY Zenon, <1>6, <1>8, <1>10, <1>11, <2>1, CallAllGCTMFields
<1>14. l = [o EXCEPT !.ci = <<>>, !.nCcalls = 0, !.baseCcalls = 0, !.errfunc = 0, !.errorJmp = 0]
  <2>1. [l EXCEPT !.errorJmp = 0] = l
    BY <1>12 DEF LuaState
  <2>. QED
    BY <1>5, <1>8, <1>11, <2>1 DEF LuaState
<1>15. PICK e : e = [l EXCEPT !.errorJmp = 1]
  OBVIOUS
<1>16. CallAllGCTM(s) = Sets(Now, e, <<TryOf("close", MainThread, l)>>, "run")
  <2>1. [v EXCEPT ![MainThread] = e] = [w EXCEPT ![MainThread] = e]
    BY <1>7
  <2>2. Now.th = w
    BY <1>3
  <2>. QED
    BY <1>2, <1>13, <1>15, <2>1, <2>2 DEF Sets
<1>17. CloseMove(Now, CallAllGCTM(s))
  <2>1. Now.cs = <<>> /\ \A j \in 1..Len(Now.cs) : Now.cs[j].t = MainThread
    BY <1>3
  <2>2. l = [Own(Now) EXCEPT !.ci = <<>>, !.nCcalls = 0, !.baseCcalls = 0, !.errfunc = 0,
                             !.errorJmp = 0]
    BY <1>4, <1>14
  <2>3. CallAllGCTM(s) = Sets(Now, [l EXCEPT !.errorJmp = 1], <<TryOf("close", MainThread, l)>>, "run")
    BY <1>15, <1>16
  <2>4. 0 \in Nat
    OBVIOUS
  <2>. QED
    BY Zenon, <1>12, <2>1, <2>2, <2>3, <2>4 DEF CloseMove
<1>. QED
  BY <1>1, <1>9, <1>17, ClosingKeepsRoom, BecomeThen

LEMMA close_stateMoves ==
    ASSUME Fine(Now), close_state
    PROVE  ClosedMove(Now, Then) /\ Fine(Then) /\ cstack # <<>> /\ cstack[1].kind = "close"
<1>1. /\ mode = "run" /\ cstack # <<>> /\ Top.k = "try" /\ Top.kind = "close"
      /\ Become([Pop(Now) EXCEPT !.th[MainThread].errorJmp = Top.previous])
  BY DEF close_state
<1>2. PICK n \in Nat \ {0} : n = Len(cstack)
  BY <1>1, NowFacts
<1>3. PICK F, G, H : Shape(th, cstack, mode, F, G, H)
  BY NowFacts DEF OK, Good
<1>4. Stacked(cstack, n) /\ Linked(cstack, n) /\ cstack[n] = Top
  BY <1>2, <1>3 DEF Shape, Measured, Placed, Top
<1>5. n = 1 /\ Top.t = MainThread
  BY <1>1, <1>4 DEF Stacked, IsTry
<1>6. Top.previous = 0
  BY <1>1, <1>4, <1>5 DEF Linked, IsTry, Innermost
<1>7. th[MainThread].status = "ok" /\ MainThread \in Thread
  BY <1>3, CallsAssumption DEF Shape, Alive
<1>8. PICK w \in [Thread -> LuaState] : w = th /\ Now = [th |-> w, cs |-> cstack, mode |-> "run"]
  BY <1>1, NowFacts DEF Now
<1>9. PICK o \in LuaState : o = w[MainThread] /\ o = Own(Now)
  BY <1>1, <1>5, <1>8, NowFacts
<1>10. PICK D : D = SubSeq(cstack, 1, Len(cstack) - 1)
  OBVIOUS
<1>11. Pop(Now) = [th |-> w, cs |-> D, mode |-> "run"]
  BY <1>8, <1>10, PopFields
<1>12. PICK r : r = [Pop(Now) EXCEPT !.th[MainThread].errorJmp = Top.previous] /\ Become(r)
  BY <1>1
<1>13. PICK l : l = [o EXCEPT !.errorJmp = 0]
  OBVIOUS
<1>14. r = [th |-> [w EXCEPT ![MainThread] = l], cs |-> D, mode |-> "run"]
  <2>1. PICK y : y = Pop(Now)
    OBVIOUS
  <2>2. r = [y EXCEPT !.th[MainThread].errorJmp = 0]
    BY <1>6, <1>12, <2>1
  <2>3. y.th = w /\ y = [th |-> w, cs |-> D, mode |-> "run"]
    BY <1>11, <2>1
  <2>4. r = [y EXCEPT !.th[MainThread] = l]
    BY <1>7, <1>9, <1>13, <2>2, <2>3
  <2>. QED
    BY <1>7, <2>3, <2>4, ThreadFields
<1>15. r = Sets(Now, [Own(Now) EXCEPT !.errorJmp = 0], SubSeq(Now.cs, 1, Len(Now.cs) - 1), "run")
  <2>1. Now.th = w /\ Now.cs = cstack /\ TopThread(Now.cs) = MainThread
    BY <1>1, <1>5, <1>8, NowFacts
  <2>. QED
    BY <1>9, <1>10, <1>13, <1>14, <2>1 DEF Sets
<1>16. ClosedMove(Now, r)
  <2>1. Acts(Now) /\ TopOf(Now) = Top
    BY <1>1, <1>7, <1>8, <1>9, NowFacts DEF Acts
  <2>. QED
    BY <1>1, <1>8, <1>15, <2>1 DEF ClosedMove, IsTry
<1>. QED
  BY <1>1, <1>2, <1>4, <1>5, <1>12, <1>16, ClosingKeepsRoom, BecomeThen

-----------------------------------------------------------------------------
(* The steps of the program.                                               *)

(* lua_close, or lua_close again after an error in a finalizer.            *)
Closes ==
    /\ CloseMove(Now, Then)
    /\ \/ cstack = <<>> /\ closing = "open" /\ closing' = "closing" /\ due' = due
       \/ cstack # <<>> /\ cstack[1].kind = "close" /\ UNCHANGED <<due, closing>>

LEMMA AMove == ASSUME Move(Now, Then) PROVE Moves(Now, Then)
BY NoMove, OneMove

LEMMA NextMoves ==
    ASSUME Fine(Now), Next
    PROVE  \/ /\ Moves(Now, Then) /\ closing' = closing
              /\ due' = due \/ (due > 0 /\ due' = due - 1)
              /\ cstack = <<>> => closing = "open"
           \/ EndsPcall(Now, Then) /\ UNCHANGED <<due, closing>> /\ cstack # <<>>
           \/ Closes
           \/ /\ ClosedMove(Now, Then) /\ cstack # <<>> /\ cstack[1].kind = "close"
              /\ closing' = "closed" /\ due' = due
<1>1. CASE OpCall \/ OpTailCall \/ OpReturn \/ OpMeta \/ CallFromC \/ luaB_pcall \/ luaB_xpcall
           \/ luaD_protectedparser \/ RaiseError \/ OutOfMemory \/ ReturnFromC \/ luaD_callReturns
  <2>1. Moves(Now, Then)
    BY <1>1, OpCallEnters, OpTailCallGrows, OpReturnMoves, CallingMoves, luaB_pcallMoves,
       luaB_xpcallMoves, luaD_protectedparserMoves, ThrowingMoves, ReturnFromCMoves,
       luaD_callReturnsMoves, AMove DEF Move
  <2>2. UNCHANGED <<due, closing>> /\ cstack # <<>>
    BY <1>1 DEF OpCall, OpTailCall, OpReturn, OpMeta, CallFromC, luaB_pcall, luaB_xpcall,
       luaD_protectedparser, RaiseError, OutOfMemory, ReturnFromC, luaD_callReturns,
       InLua, InC, Starts
  <2>. QED
    BY <2>1, <2>2
<1>2. CASE enterlevel \/ leavelevel \/ generic_reader \/ SyntaxError \/ ParserReturns
           \/ luaD_callhook \/ HookReturns \/ GCTMReturns \/ HandlerReturns \/ luaG_errormsg
  <2>1. Moves(Now, Then)
    BY <1>2, LevelMoves, CallingMoves, ThrowingMoves, ParserReturnsMoves, luaD_callhookMoves,
       HookReturnsMoves, luaG_errormsgMoves, AMove DEF Move
  <2>2. UNCHANGED <<due, closing>> /\ cstack # <<>>
    <3>1. CASE luaG_errormsg
      BY <3>1, ThrowFacts DEF luaG_errormsg
    <3>2. CASE ~luaG_errormsg
      BY <1>2, <3>2 DEF enterlevel, leavelevel, generic_reader, SyntaxError, ParserReturns,
         luaD_callhook, HookReturns, GCTMReturns, HandlerReturns,
         InParser, InLua, InC, Starts
    <3>. QED
      BY <3>1, <3>2
  <2>. QED
    BY <2>1, <2>2
<1>3. CASE GCTM
  <2>1. Moves(Now, Then)
    BY <1>3, GCTMMoves
  <2>2. due > 0 /\ due' = due - 1 /\ UNCHANGED closing /\ cstack # <<>>
    BY <1>3 DEF GCTM, InLua, InParser
  <2>. QED
    BY <2>1, <2>2
<1>4. CASE \E t \in Thread : checkstacksizes(t)
  <2>1. Moves(Now, Then)
    BY <1>4, checkstacksizesMoves, AMove DEF Move
  <2>2. UNCHANGED <<due, closing>> /\ cstack # <<>>
    BY <1>4 DEF checkstacksizes, InLua
  <2>. QED
    BY <2>1, <2>2
<1>5. CASE luaD_throw \/ ProtectedReturns
  <2>1. cstack # <<>> /\ UNCHANGED <<due, closing>>
    BY <1>5, ThrowFacts DEF luaD_throw, ProtectedReturns
  <2>. QED
    BY <1>5, <2>1, ReturningMoves DEF Closes
<1>6. CASE (\E c \in Thread \ {MainThread} : luaB_cocreate(c) \/ auxresume(c)) \/ lua_yield
  <2>1. Moves(Now, Then)
    BY <1>6, luaB_cocreateMoves, auxresumeMoves, lua_yieldMoves, AMove DEF Move
  <2>2. UNCHANGED <<due, closing>> /\ cstack # <<>>
    BY <1>6 DEF luaB_cocreate, auxresume, lua_yield, Starts, InC
  <2>. QED
    BY <2>1, <2>2
<1>7. CASE lua_cpcall
  <2>1. Moves(Now, Then)
    BY <1>7, lua_cpcallMoves
  <2>. QED
    BY <1>7, <2>1 DEF lua_cpcall
<1>8. CASE lua_close
  <2>1. CloseMove(Now, Then)
    BY <1>8, lua_closeMoves
  <2>. QED
    BY <1>8, <2>1 DEF lua_close, Closes
<1>9. CASE close_state
  <2>1. ClosedMove(Now, Then) /\ cstack # <<>> /\ cstack[1].kind = "close"
    BY <1>9, close_stateMoves
  <2>. QED
    BY <1>9, <2>1 DEF close_state
<1>. QED
  BY <1>1, <1>2, <1>3, <1>4, <1>5, <1>6, <1>7, <1>8, <1>9 DEF Next

LEMMA InitFine == ASSUME Init PROVE Fine(Now)
<1>1. /\ th = [t \in Thread |-> NewThread(FALSE)] /\ cstack = <<>> /\ mode = "run"
  BY DEF Init
<1>2. /\ NewThread(FALSE) \in LuaState /\ NewThread(FALSE).ci = <<>>
      /\ NewThread(FALSE).nCcalls = 0 /\ NewThread(FALSE).baseCcalls = 0
      /\ NewThread(FALSE).status = "ok" /\ NewThread(FALSE).errorJmp = 0
      /\ NewThread(FALSE).allowhook = TRUE /\ Len(<<>>) < NewThread(FALSE).size_ci
  <2>1. <<>> \in Seq(Frame)
    OBVIOUS
  <2>. QED
    BY <2>1, CallsAssumption DEF NewThread, LuaState, Status
<1>3. PICK l \in LuaState : l = NewThread(FALSE)
  BY <1>2
<1>4. /\ th \in [Thread -> LuaState] /\ cstack \in Seq(Activation) /\ mode \in Mode
      /\ Len(cstack) = 0 /\ MainThread \in Thread /\ th[MainThread] = l
      /\ \A t \in Thread : th[t] = l
  <2>1. th = [t \in Thread |-> l]
    BY <1>1, <1>3
  <2>2. <<>> \in Seq(Activation) /\ Len(<<>>) = 0
    OBVIOUS
  <2>. QED
    BY <1>1, <2>1, <2>2, CallsAssumption DEF Mode
<1>5. PICK Z, B : Z = [i \in 0..0 |-> 0] /\ B = [i \in 0..0 |-> TRUE]
  OBVIOUS
<1>6. Measured(cstack, Z, Z, B)
  BY <1>4, <1>5 DEF Measured
<1>7. Counted(th, cstack, mode, Z, Z, B)
  <2>1. At(l, 0, Z, Z, B)
    BY <1>2, <1>3, <1>5 DEF At
  <2>2. TopThread(cstack) = MainThread /\ ~Switching(l, cstack, mode)
    BY <1>4 DEF TopThread, Switching
  <2>3. Fits(l, cstack, mode, Z, Z, B)
    BY <1>4, <2>1, <2>2 DEF Fits
  <2>4. l.baseCcalls = 0
    BY <1>2, <1>3
  <2>. QED
    BY <1>4, <2>2, <2>3, <2>4 DEF Counted
<1>8. Jumps(th, cstack)
  <2>1. l.errorJmp = 0
    BY <1>2, <1>3
  <2>2. \A t : Innermost(cstack, t, 0, Len(cstack))
    <3>1. 0 \in 0..0 /\ \A j : j \notin (0 + 1)..0
      OBVIOUS
    <3>. QED
      BY Zenon, <1>4, <3>1 DEF Innermost
  <2>. QED
    BY Zenon, <1>4, <2>1, <2>2 DEF Jumps
<1>9. Alive(th, cstack, mode)
  BY <1>1, <1>2, <1>3, <1>4 DEF Alive
<1>10. Good(th, cstack, mode)
  BY <1>4, <1>6, <1>7, <1>8, <1>9 DEF Good, Shape
<1>11. Now.th = th /\ Now.cs = cstack /\ Now.mode = mode /\ Now \in State
  BY <1>4 DEF Now, State
<1>12. Room(Now)
  BY <1>2, <1>3, <1>4, <1>11 DEF Room
<1>. QED
  BY <1>10, <1>11, <1>12 DEF Fine, OK

LEMMA StepFine == ASSUME Fine(Now), [Next]_vars PROVE Fine(Then)
<1>1. CASE Next
  BY <1>1, NextMoves, MovesKeep, EndsKeep, ClosingKeepsRoom DEF Closes
<1>2. CASE UNCHANGED vars
  <2>1. Then = Now
    BY <1>2 DEF vars, Then, Now
  <2>. QED
    BY <2>1
<1>. QED
  BY <1>1, <1>2

(* The C stack can be measured in every reachable state (see               *)
(* LuaCalls_proofs), and no thread has more frames than CallInfos.         *)
THEOREM StackMeasured == Spec => []Fine(Now)
<1>1. Fine(Now) /\ [Next]_vars => Fine(Now)'
  <2>1. Now' = Then
    BY DEF Now, Then
  <2>2. Fine(Now)' <=> Fine(Now')
    BY DEF Fine, OK, Room, Good, State
  <2>. QED
    BY <2>1, <2>2, StepFine
<1>. QED
  BY InitFine, <1>1, PTL DEF Spec
=============================================================================
