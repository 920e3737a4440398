------------------------- MODULE LuaCallsFrames_proofs -------------------------
(***************************************************************************)
(* FramesOnCStack: the CallInfos of a thread and the C stack tell the same *)
(* story.  The frames that the activations of t up to i account for are a  *)
(* sequence f[i]; each activation adds its own to those below it, a        *)
(* protected call begins where it says it does, and a coroutine has none   *)
(* before it is resumed.                                                   *)
(***************************************************************************)
EXTENDS LuaCallsSafety_proofs

Luas(n) == [j \in 1..n |-> "lua"]

(* The frames of t that an activation runs.                                *)
Part(a, t) ==
    CASE a.t = t /\ a.k = "exec" -> Luas(a.n)
      [] a.t = t /\ a.k = "cfun" -> <<a.f>>
      [] OTHER -> <<>>

Prefix(p, q) == Len(p) <= Len(q) /\ p = SubSeq(q, 1, Len(p))

(* A protected call of t at i began with the frames below it.              *)
BeganWith(a, t, x) ==
    IsTry(a) /\ a.t = t =>
       /\ a.previous = 0 => x = <<>>
       /\ a.kind = "pcall" => Len(x) = a.old_ci

Absent(C, t, i, j) == \A m \in (i + 1)..j : C[m].t # t

Follows(C, t, f, i) ==
    /\ f[i] = f[i - 1] \o Part(C[i], t)
    /\ BeganWith(C[i], t, f[i - 1])
    /\ \A j \in 0..i : Prefix(f[j], f[i]) /\ (Absent(C, t, j, i) => f[i] = f[j])

Tells(C, t, f) ==
    /\ f \in [0..Len(C) -> Seq(Frame)] /\ f[0] = <<>>
    /\ \A i \in 1..Len(C) : Follows(C, t, f, i)

(* The frames of a thread that has activations, and of one that has none.  *)
Running(l) == IF l.errorJmp # 0 /\ l.status = "ok" THEN l.ci ELSE <<>>

Yielded(q) == q = [i \in 1..Len(q) |-> IF i = Len(q) THEN "yield" ELSE "lua"]

Asleep(l) == l.status = "yield" => Yielded(l.ci)

(* The frames of t on the C stack are x.                                   *)
Amount(C, t, x) == \E f : Tells(C, t, f) /\ f[Len(C)] = x

Story(C, t, l) == Asleep(l) /\ Amount(C, t, Running(l))

Stories(T, C) == \A t \in Thread : Story(C, t, T[t])

Told(s) == Stories(s.th, s.cs)

-----------------------------------------------------------------------------
(* Sequences of frames.                                                    *)
LEMMA LuasFacts ==
    ASSUME NEW n \in Nat
    PROVE  /\ Luas(n) \in Seq(Frame) /\ Len(Luas(n)) = n
           /\ Luas(n + 1) = Append(Luas(n), "lua")
<1>1. "lua" \in Frame
  BY DEF Frame
<1>2. Luas(n) \in Seq(Frame) /\ Len(Luas(n)) = n /\ Luas(n + 1) \in Seq(Frame)
  BY <1>1 DEF Luas
<1>3. Append(Luas(n), "lua") \in Seq(Frame) /\ Len(Append(Luas(n), "lua")) = n + 1
      /\ (\A i \in 1..n : Append(Luas(n), "lua")[i] = Luas(n)[i])
      /\ Append(Luas(n), "lua")[n + 1] = "lua"
  BY <1>1, <1>2, AppendProperties
<1>4. Len(Luas(n + 1)) = n + 1
  BY DEF Luas
<1>5. \A i \in 1..(n + 1) : Luas(n + 1)[i] = Append(Luas(n), "lua")[i]
  BY <1>3 DEF Luas
<1>6. Luas(n + 1) = Append(Luas(n), "lua")
  BY <1>2, <1>3, <1>4, <1>5, SeqEqual
<1>. QED
  BY <1>2, <1>6

LEMMA LuasOne == Luas(1) = <<"lua">>
BY DEF Luas

LEMMA PartFacts ==
    ASSUME NEW a \in Activation, NEW t
    PROVE  /\ Part(a, t) \in Seq(Frame)
           /\ a.t # t \/ a.k \notin {"exec", "cfun"} => Part(a, t) = <<>>
           /\ a.t = t /\ a.k = "exec" => Part(a, t) = Luas(a.n)
           /\ a.t = t /\ a.k = "cfun" => Part(a, t) = <<a.f>>
<1>1. CASE a.t = t /\ a.k = "exec"
  <2>1. a.n \in Nat
    BY <1>1, ActivationFacts DEF Exec
  <2>. QED
    BY <1>1, <2>1, LuasFacts DEF Part
<1>2. CASE a.t = t /\ a.k = "cfun"
  <2>1. a.f \in Frame
    BY <1>2, ActivationFacts DEF CFun, Frame
  <2>2. Part(a, t) = <<a.f>>
    BY <1>2 DEF Part
  <2>. QED
    BY <1>2, <2>1, <2>2
<1>3. CASE a.t # t \/ a.k \notin {"exec", "cfun"}
  <2>1. Part(a, t) = <<>>
    BY <1>3 DEF Part
  <2>. QED
    BY <1>3, <2>1
<1>. QED
  BY <1>1, <1>2, <1>3

LEMMA PrefixFacts ==
    ASSUME NEW p \in Seq(Frame), NEW q \in Seq(Frame), NEW x \in Seq(Frame)
    PROVE  /\ Prefix(p, p) /\ Prefix(p, p \o x) /\ p \o x \in Seq(Frame)
           /\ Prefix(p, q) => Prefix(p, q \o x)
<1>1. SubSeq(p, 1, Len(p)) = p /\ Len(p) \in Nat /\ Len(q) \in Nat /\ Len(x) \in Nat
  BY SubSeqFull
<1>2. ASSUME Prefix(p, q) PROVE Prefix(p, q \o x)
  <2>1. /\ q \o x \in Seq(Frame) /\ Len(q \o x) = Len(q) + Len(x)
        /\ \A i \in 1..Len(q) : (q \o x)[i] = q[i]
    BY ConcatProperties
  <2>2. Len(p) \in 0..Len(q) /\ Len(p) \in 0..Len(q \o x) /\ p = SubSeq(q, 1, Len(p))
    BY <1>1, <1>2, <2>1 DEF Prefix
  <2>3. \A i \in 1..Len(p) : p[i] = q[i]
    BY <2>2, CutFacts
  <2>4. /\ SubSeq(q \o x, 1, Len(p)) \in Seq(Frame)
        /\ Len(SubSeq(q \o x, 1, Len(p))) = Len(p)
        /\ \A i \in 1..Len(p) : SubSeq(q \o x, 1, Len(p))[i] = (q \o x)[i]
    BY <2>1, <2>2, CutFacts
  <2>5. \A i \in 1..Len(p) : SubSeq(q \o x, 1, Len(p))[i] = p[i]
    BY <2>1, <2>2, <2>3, <2>4
  <2>6. p = SubSeq(q \o x, 1, Len(p))
    BY <2>4, <2>5, SeqEqual
  <2>. QED
    BY <1>1, <2>1, <2>2, <2>6 DEF Prefix
<1>3. Prefix(p, p)
  BY <1>1 DEF Prefix
<1>4. Prefix(p, p \o x)
  <2>1. PICK y \in Seq(Frame) : y = p
    OBVIOUS
  <2>2. p \o x \in Seq(Frame) /\ Len(p \o x) = Len(p) + Len(x)
        /\ \A i \in 1..Len(p) : (p \o x)[i] = p[i]
    BY ConcatProperties
  <2>3. Len(p) \in 0..Len(p \o x)
    BY <1>1, <2>2
  <2>4. /\ SubSeq(p \o x, 1, Len(p)) \in Seq(Frame)
        /\ Len(SubSeq(p \o x, 1, Len(p))) = Len(p)
        /\ \A i \in 1..Len(p) : SubSeq(p \o x, 1, Len(p))[i] = (p \o x)[i]
    BY <2>2, <2>3, CutFacts
  <2>5. p = SubSeq(p \o x, 1, Len(p))
    BY <2>2, <2>4, SeqEqual
  <2>. QED
    BY <1>1, <2>2, <2>5 DEF Prefix
<1>5. p \o x \in Seq(Frame)
  BY ConcatProperties
<1>. QED
  BY <1>2, <1>3, <1>4, <1>5

-----------------------------------------------------------------------------
(* The story of a thread when an activation is added, or some are cut off. *)
Longer(f, n, x) == [i \in 0..(n + 1) |-> IF i <= n THEN f[i] ELSE x]

LEMMA LongerFacts ==
    ASSUME NEW n \in Nat, NEW f \in [0..n -> Seq(Frame)], NEW x \in Seq(Frame)
    PROVE  /\ Longer(f, n, x) \in [0..(n + 1) -> Seq(Frame)]
           /\ \A i \in 0..n : Longer(f, n, x)[i] = f[i]
           /\ Longer(f, n, x)[n + 1] = x
BY DEF Longer

LEMMA FollowsSame ==
    ASSUME NEW C, NEW D, NEW t, NEW f, NEW g, NEW i \in Nat \ {0},
           \A j \in 1..i : D[j] = C[j], \A j \in 0..i : g[j] = f[j],
           Follows(C, t, f, i)
    PROVE  Follows(D, t, g, i)
<1>1. /\ f[i] = f[i - 1] \o Part(C[i], t) /\ BeganWith(C[i], t, f[i - 1])
      /\ \A j \in 0..i : Prefix(f[j], f[i]) /\ (Absent(C, t, j, i) => f[i] = f[j])
  BY DEF Follows
<1>2. D[i] = C[i] /\ g[i] = f[i] /\ g[i - 1] = f[i - 1]
  OBVIOUS
<1>3. ASSUME NEW j \in 0..i PROVE Prefix(g[j], g[i]) /\ (Absent(D, t, j, i) => g[i] = g[j])
  <2>1. g[j] = f[j]
    OBVIOUS
  <2>2. Absent(D, t, j, i) => Absent(C, t, j, i)
    <3>1. \A m \in (j + 1)..i : D[m] = C[m]
      OBVIOUS
    <3>. QED
      BY <3>1 DEF Absent
  <2>. QED
    BY <1>1, <1>2, <2>1, <2>2
<1>. QED
  BY <1>1, <1>2, <1>3 DEF Follows

LEMMA MoreAmount ==
    ASSUME NEW C \in Seq(Activation), NEW t, NEW y, Amount(C, t, y),
           NEW a \in Activation, BeganWith(a, t, y)
    PROVE  Amount(Append(C, a), t, y \o Part(a, t))
<1>1. PICK n \in Nat : n = Len(C)
  OBVIOUS
<1>2. PICK f : Tells(C, t, f) /\ f[n] = y
  BY <1>1 DEF Amount
<1>. DEFINE x == f[n] \o Part(a, t)  g == Longer(f, n, x)  D == Append(C, a)
<1>3. f \in [0..n -> Seq(Frame)] /\ f[0] = <<>> /\ f[n] \in Seq(Frame)
      /\ \A i \in 1..n : Follows(C, t, f, i)
  BY <1>1, <1>2 DEF Tells
<1>4. x \in Seq(Frame)
  BY <1>3, PartFacts, PrefixFacts
<1>5. D \in Seq(Activation) /\ Len(D) = n + 1 /\ D[n + 1] = a /\ \A i \in 1..n : D[i] = C[i]
  BY <1>1, AppendFacts
<1>6. /\ g \in [0..(n + 1) -> Seq(Frame)] /\ g[n + 1] = x
      /\ \A i \in 0..n : g[i] = f[i]
  <2>. HIDE DEF x
  <2>. QED
    BY <1>3, <1>4, LongerFacts
<1>7. ASSUME NEW i \in 1..n PROVE Follows(D, t, g, i)
  <2>. HIDE DEF D, g
  <2>1. (\A j \in 1..i : D[j] = C[j]) /\ (\A j \in 0..i : g[j] = f[j]) /\ i \in Nat \ {0}
    BY <1>5, <1>6
  <2>. QED
    BY <1>3, <2>1, FollowsSame
<1>8. Follows(D, t, g, n + 1)
  <2>. HIDE DEF D, g
  <2>1. (n + 1) - 1 = n /\ g[n] = f[n] /\ D[n + 1] = a
    BY <1>5, <1>6
  <2>2. ASSUME NEW j \in 0..n
        PROVE  Prefix(f[j], x) /\ (Absent(D, t, j, n + 1) => x = f[j])
    <3>1. Prefix(f[j], f[n]) /\ (Absent(C, t, j, n) => f[n] = f[j])
      <4>1. CASE n = 0
        <5>1. j = 0
          BY <4>1
        <5>. QED
          BY <1>3, <4>1, <5>1, PrefixFacts
      <4>2. CASE n # 0
        <5>1. Follows(C, t, f, n)
          BY <1>3, <4>2
        <5>. QED
          BY <5>1 DEF Follows
      <4>. QED
        BY <4>1, <4>2
    <3>2. f[j] \in Seq(Frame) /\ Part(a, t) \in Seq(Frame)
      BY <1>3, PartFacts
    <3>3. Prefix(f[j], x)
      BY <1>3, <3>1, <3>2, PrefixFacts
    <3>4. ASSUME Absent(D, t, j, n + 1) PROVE x = f[j]
      <4>1. a.t # t /\ \A m \in (j + 1)..n : C[m].t # t
        BY <1>5, <3>4 DEF Absent
      <4>2. Part(a, t) = <<>> /\ Absent(C, t, j, n)
        BY <4>1, PartFacts DEF Absent
      <4>. QED
        BY <1>3, <3>1, <4>2, ConcatEmptySeq
    <3>. QED
      BY <3>3, <3>4
  <2>3. Prefix(x, x)
    BY <1>4, PrefixFacts
  <2>. HIDE DEF x
  <2>4. ASSUME NEW j \in 0..(n + 1)
        PROVE  Prefix(g[j], g[n + 1]) /\ (Absent(D, t, j, n + 1) => g[n + 1] = g[j])
    <3>1. CASE j = n + 1
      BY <1>6, <2>3, <3>1
    <3>2. CASE j # n + 1
      <4>1. j \in 0..n
        BY <3>2
      <4>2. g[j] = f[j] /\ g[n + 1] = x
        BY <1>6, <4>1
      <4>. QED
        BY Zenon, <2>2, <4>1, <4>2
    <3>. QED
      BY <3>1, <3>2
  <2>. QED
    BY <1>2, <1>6, <2>1, <2>4 DEF Follows, x
<1>9. Tells(D, t, g)
  <2>. HIDE DEF D, g, x
  <2>1. \A i \in 1..Len(D) : Follows(D, t, g, i)
    BY <1>5, <1>7, <1>8
  <2>2. g[0] = <<>>
    BY <1>3, <1>6
  <2>. QED
    BY <1>5, <1>6, <2>1, <2>2 DEF Tells
<1>10. g[Len(D)] = y \o Part(a, t)
  <2>. HIDE DEF D, g
  <2>. QED
    BY <1>2, <1>5, <1>6 DEF x
<1>. HIDE DEF g
<1>. QED
  BY <1>9, <1>10 DEF Amount

LEMMA LessAmount ==
    ASSUME NEW C \in Seq(Activation), NEW t, NEW f, Tells(C, t, f), NEW k \in 0..Len(C)
    PROVE  Amount(SubSeq(C, 1, k), t, f[k])
<1>. DEFINE g == [i \in 0..k |-> f[i]]  D == SubSeq(C, 1, k)
<1>1. Len(D) = k /\ Len(C) \in Nat /\ \A i \in 1..k : D[i] = C[i]
  BY CutFacts
<1>2. f \in [0..Len(C) -> Seq(Frame)] /\ f[0] = <<>> /\ \A i \in 1..Len(C) : Follows(C, t, f, i)
  BY DEF Tells
<1>3. g \in [0..k -> Seq(Frame)] /\ \A i \in 0..k : g[i] = f[i]
  BY <1>1, <1>2
<1>4. ASSUME NEW i \in 1..k PROVE Follows(D, t, g, i)
  <2>. HIDE DEF D, g
  <2>1. (\A j \in 1..i : D[j] = C[j]) /\ (\A j \in 0..i : g[j] = f[j]) /\ i \in 1..Len(C)
    BY <1>1, <1>3
  <2>. QED
    BY <1>2, <2>1, FollowsSame
<1>. HIDE DEF D, g
<1>5. Tells(D, t, g)
  BY <1>1, <1>2, <1>3, <1>4 DEF Tells
<1>6. g[Len(D)] = f[k]
  BY <1>1, <1>3
<1>7. Amount(D, t, f[k])
  BY <1>5, <1>6 DEF Amount
<1>. QED
  BY <1>7 DEF D

(* What is known of the frames of t up to k, when all are q.               *)
Below(C, t, f, k, q) ==
    /\ f[k] \in Seq(Frame) /\ Prefix(f[k], q)
    /\ Absent(C, t, k, Len(C)) => q = f[k]
    /\ k # 0 => f[k] = f[k - 1] \o Part(C[k], t) /\ BeganWith(C[k], t, f[k - 1])

LEMMA TellsBelow ==
    ASSUME NEW C \in Seq(Activation), NEW t, NEW f, Tells(C, t, f), NEW q, q = f[Len(C)],
           NEW k \in 0..Len(C)
    PROVE  Below(C, t, f, k, q)
<1>1. PICK n \in Nat : n = Len(C)
  OBVIOUS
<1>2. /\ n \in Nat /\ f \in [0..n -> Seq(Frame)] /\ f[0] = <<>>
      /\ \A i \in 1..n : Follows(C, t, f, i)
  BY <1>1 DEF Tells
<1>3. f[k] \in Seq(Frame) /\ k \in 0..n
  <2>1. k \in 0..n
    BY <1>1
  <2>2. f \in [0..n -> Seq(Frame)]
    BY <1>2
  <2>. QED
    BY <2>1, <2>2
<1>4. CASE n = 0
  <2>1. k = 0
    BY <1>3, <1>4
  <2>. QED
    BY <1>1, <1>3, <1>4, <2>1, PrefixFacts DEF Below
<1>5. CASE n # 0
  <2>1. Follows(C, t, f, n)
    BY <1>1, <1>2, <1>5
  <2>2. k # 0 => Follows(C, t, f, k)
    BY <1>2, <1>3
  <2>. QED
    BY <1>1, <1>3, <2>1, <2>2 DEF Follows, Below
<1>. QED
  BY <1>4, <1>5

LEMMA SameTold ==
    ASSUME NEW T \in [Thread -> LuaState], NEW C, Stories(T, C), NEW x \in Thread, NEW l,
           Asleep(l), Running(l) = Running(T[x])
    PROVE  Stories([T EXCEPT ![x] = l], C)
BY DEF Stories, Story

LEMMA AmountIs ==
    ASSUME NEW C \in Seq(Activation), NEW t, NEW y, Amount(C, t, y)
    PROVE  y \in Seq(Frame) /\ y \o <<>> = y
<1>1. y \in Seq(Frame)
  <2>1. PICK f : Tells(C, t, f) /\ f[Len(C)] = y
    BY DEF Amount
  <2>2. Len(C) \in 0..Len(C)
    OBVIOUS
  <2>. QED
    BY <2>1, <2>2, TellsBelow DEF Below
<1>. QED
  BY <1>1, ConcatEmptySeq

(* Every thread but x keeps its story, and x has the story told of l.      *)
LEMMA OneTold ==
    ASSUME NEW T \in [Thread -> LuaState], NEW C, Stories(T, C), NEW D, NEW x \in Thread,
           NEW l, Asleep(l), Amount(D, x, Running(l)),
           \A u \in Thread : \A y : u # x /\ Amount(C, u, y) => Amount(D, u, y)
    PROVE  Stories([T EXCEPT ![x] = l], D)
BY DEF Stories, Story

LEMMA PushTold ==
    ASSUME NEW T \in [Thread -> LuaState], NEW C \in Seq(Activation), Stories(T, C),
           NEW x \in Thread, NEW l, NEW a \in Activation, a.t = x, Asleep(l),
           BeganWith(a, x, Running(T[x])), Running(l) = Running(T[x]) \o Part(a, x)
    PROVE  Stories([T EXCEPT ![x] = l], Append(C, a))
<1>1. ASSUME NEW u \in Thread, NEW y, u # x, Amount(C, u, y)
      PROVE  Amount(Append(C, a), u, y)
  <2>1. BeganWith(a, u, y) /\ Part(a, u) = <<>>
    BY <1>1, PartFacts DEF BeganWith
  <2>2. Amount(Append(C, a), u, y \o Part(a, u))
    BY <1>1, <2>1, MoreAmount
  <2>3. y \o <<>> = y
    BY <1>1, AmountIs
  <2>. QED
    BY <2>1, <2>2, <2>3
<1>2. Amount(C, x, Running(T[x]))
  BY DEF Stories, Story
<1>3. Amount(Append(C, a), x, Running(T[x]) \o Part(a, x))
  BY <1>2, MoreAmount
<1>. QED
  BY <1>1, <1>3, OneTold

LEMMA OthersCut ==
    ASSUME NEW C \in Seq(Activation), NEW k \in 0..Len(C), NEW u, NEW y,
           \A j \in (k + 1)..Len(C) : C[j].t # u, Amount(C, u, y)
    PROVE  Amount(SubSeq(C, 1, k), u, y)
<1>1. PICK f : Tells(C, u, f) /\ f[Len(C)] = y
  BY DEF Amount
<1>2. Below(C, u, f, k, y)
  BY <1>1, TellsBelow
<1>3. f[k] = y
  BY <1>2 DEF Below, Absent
<1>. QED
  BY <1>1, <1>3, LessAmount

LEMMA CutTold ==
    ASSUME NEW T \in [Thread -> LuaState], NEW C \in Seq(Activation), Stories(T, C),
           NEW k \in 0..Len(C), NEW x \in Thread, \A j \in (k + 1)..Len(C) : C[j].t = x,
           NEW l, Asleep(l),
           \A f : Tells(C, x, f) /\ f[Len(C)] = Running(T[x]) => f[k] = Running(l)
    PROVE  Stories([T EXCEPT ![x] = l], SubSeq(C, 1, k))
<1>1. \A u \in Thread : \A y : u # x /\ Amount(C, u, y) => Amount(SubSeq(C, 1, k), u, y)
  BY OthersCut
<1>2. PICK f : Tells(C, x, f) /\ f[Len(C)] = Running(T[x])
  BY DEF Stories, Story, Amount
<1>3. Amount(SubSeq(C, 1, k), x, f[k])
  BY <1>2, LessAmount
<1>. QED
  BY <1>1, <1>2, <1>3, OneTold

LEMMA TopReplaced ==
    ASSUME NEW C \in Seq(Activation), NEW k \in Nat, Len(C) = k + 1, NEW b \in Activation
    PROVE  /\ [C EXCEPT ![k + 1] = b] = Append(SubSeq(C, 1, k), b)
           /\ SubSeq(C, 1, k) \in Seq(Activation)
<1>1. PICK n \in Nat \ {0} : n = Len(C)
  OBVIOUS
<1>2. [C EXCEPT ![n] = b] = Append(SubSeq(C, 1, n - 1), b)
  BY <1>1, ExceptFacts
<1>3. n - 1 = k /\ k \in 0..Len(C)
  BY <1>1
<1>. QED
  BY <1>1, <1>2, <1>3, CutFacts

LEMMA ReplaceTold ==
    ASSUME NEW T \in [Thread -> LuaState], NEW C \in Seq(Activation), Stories(T, C),
           NEW k \in Nat, Len(C) = k + 1,
           NEW x \in Thread, C[k + 1].t = x,
           NEW b \in Activation, b.t = x, ~IsTry(b), NEW l, Asleep(l),
           \A f : Tells(C, x, f) /\ f[Len(C)] = Running(T[x]) => f[k] \o Part(b, x) = Running(l)
    PROVE  Stories([T EXCEPT ![x] = l], [C EXCEPT ![k + 1] = b])
<1>1. k \in 0..Len(C)
  OBVIOUS
<1>2. PICK D \in Seq(Activation) : D = SubSeq(C, 1, k) /\ [C EXCEPT ![k + 1] = b] = Append(D, b)
  <2>1. SubSeq(C, 1, k) \in Seq(Activation)
    BY TopReplaced
  <2>2. [C EXCEPT ![k + 1] = b] = Append(SubSeq(C, 1, k), b)
    BY TopReplaced
  <2>. QED
    BY <2>1, <2>2
<1>3. \A u, y : BeganWith(b, u, y)
  BY DEF BeganWith
<1>4. ASSUME NEW u \in Thread, NEW y, u # x, Amount(C, u, y)
      PROVE  Amount(Append(D, b), u, y)
  <2>1. \A j \in (k + 1)..Len(C) : C[j].t # u
    BY <1>4
  <2>2. Amount(D, u, y)
    BY <1>1, <1>2, <1>4, <2>1, OthersCut
  <2>3. Amount(Append(D, b), u, y \o Part(b, u))
    BY <1>3, <2>2, MoreAmount
  <2>4. y \o <<>> = y /\ Part(b, u) = <<>>
    BY <1>4, AmountIs, PartFacts
  <2>. QED
    BY <2>3, <2>4
<1>5. PICK f : Tells(C, x, f) /\ f[Len(C)] = Running(T[x])
  BY DEF Stories, Story, Amount
<1>6. Amount(D, x, f[k])
  BY <1>1, <1>2, <1>5, LessAmount
<1>7. Amount(Append(D, b), x, f[k] \o Part(b, x))
  BY <1>3, <1>6, MoreAmount
<1>8. Amount(Append(D, b), x, Running(l))
  BY <1>5, <1>7
<1>9. Stories([T EXCEPT ![x] = l], Append(D, b))
  <2>1. \A u \in Thread : \A y : u # x /\ Amount(C, u, y) => Amount(Append(D, b), u, y)
    BY <1>4
  <2>. QED
    BY <1>8, <2>1, OneTold
<1>. QED
  BY <1>2, <1>9

-----------------------------------------------------------------------------
(* The moves keep the stories.                                             *)
LEMMA SetsTold ==
    ASSUME NEW s, NEW l, NEW D, NEW N, Stories([s.th EXCEPT ![TopThread(s.cs)] = l], D)
    PROVE  Told(Sets(s, l, D, N))
BY DEF Told, Sets

(* The thread on top, when a function acts.                                *)
Acting(s, t, o) ==
    /\ t = TopThread(s.cs) /\ t \in Thread /\ o = s.th[t] /\ o \in LuaState /\ o = Own(s)
    /\ o.status = "ok" /\ o.errorJmp # 0 /\ Running(o) = o.ci /\ o.ci \in Seq(Frame)
    /\ s.cs \in Seq(Activation) /\ s.th \in [Thread -> LuaState]
    /\ TopOf(s) \in Activation /\ TopOf(s).t = t /\ TopOf(s) = s.cs[Len(s.cs)]

LEMMA ActingFacts ==
    ASSUME NEW s, OK(s), Acts(s), NEW t, t = TopThread(s.cs), NEW o, o = Own(s)
    PROVE  Acting(s, t, o)
<1>1. /\ t \in Thread /\ o \in LuaState /\ o = s.th[t] /\ o.status = "ok" /\ s.cs # <<>>
      /\ s.cs \in Seq(Activation) /\ s.th \in [Thread -> LuaState]
      /\ TopOf(s) \in Activation /\ TopOf(s).t = t /\ TopOf(s) = s.cs[Len(s.cs)]
  BY OwnFacts DEF Acts, Own, TopOf
<1>2. o.errorJmp # 0
  <2>1. PICK F, G, H : Shape(s.th, s.cs, s.mode, F, G, H)
    BY DEF OK, Good
  <2>2. Len(s.cs) \in 1..Len(s.cs)
    BY <1>1, OwnFacts
  <2>3. s.th[s.cs[Len(s.cs)].t].errorJmp # 0
    BY <1>1, <2>1, <2>2, HandlerBelow
  <2>. QED
    BY <1>1, <2>3
<1>3. o.ci \in Seq(Frame)
  BY <1>1 DEF LuaState
<1>. QED
  BY <1>1, <1>2, <1>3 DEF Acting, Running

LEMMA PlainPush ==
    ASSUME NEW s, OK(s), Acts(s), Told(s),
           NEW l, NEW a \in Activation, a.t = TopThread(s.cs), ~IsTry(a),
           l.status = "ok", l.errorJmp = Own(s).errorJmp,
           l.ci = Own(s).ci \o Part(a, TopThread(s.cs)), NEW N
    PROVE  Told(Sets(s, l, Append(s.cs, a), N))
<1>1. PICK t, o : t = TopThread(s.cs) /\ o = Own(s)
  OBVIOUS
<1>2. Acting(s, t, o)
  BY <1>1, ActingFacts
<1>3. Running(l) = Running(s.th[t]) \o Part(a, t) /\ Asleep(l) /\ BeganWith(a, t, Running(s.th[t]))
  BY <1>1, <1>2 DEF Acting, Running, Asleep, BeganWith
<1>4. Stories([s.th EXCEPT ![t] = l], Append(s.cs, a))
  BY <1>1, <1>2, <1>3, PushTold DEF Acting, Told
<1>. QED
  BY <1>1, <1>4, SetsTold

LEMMA PlainReplace ==
    ASSUME NEW s, OK(s), Acts(s), Told(s), ~IsTry(TopOf(s)),
           NEW l, NEW b \in Activation, b.t = TopThread(s.cs), ~IsTry(b),
           l.status = "ok", l.errorJmp = Own(s).errorJmp,
           \A y \in Seq(Frame) : y \o Part(TopOf(s), TopThread(s.cs)) = Own(s).ci =>
                                 y \o Part(b, TopThread(s.cs)) = l.ci,
           NEW N
    PROVE  Told(Sets(s, l, [s.cs EXCEPT ![Len(s.cs)] = b], N))
<1>1. PICK t, o : t = TopThread(s.cs) /\ o = Own(s)
  OBVIOUS
<1>2. Acting(s, t, o)
  BY <1>1, ActingFacts
<1>3. PICK k \in Nat : Len(s.cs) = k + 1
  <2>1. Len(s.cs) \in Nat \ {0}
    BY OwnFacts DEF Acts
  <2>2. Len(s.cs) - 1 \in Nat /\ Len(s.cs) = (Len(s.cs) - 1) + 1
    BY <2>1
  <2>. QED
    BY <2>2
<1>4. PICK C \in Seq(Activation) : C = s.cs
  BY <1>2 DEF Acting
<1>5. Running(l) = l.ci /\ Asleep(l)
  BY <1>1, <1>2 DEF Acting, Running, Asleep
<1>6. ASSUME NEW f, Tells(C, t, f), f[Len(C)] = Running(s.th[t])
      PROVE  f[k] \o Part(b, t) = Running(l)
  <2>1. Below(C, t, f, Len(C), Running(s.th[t])) /\ Below(C, t, f, k, Running(s.th[t]))
    <3>1. Len(C) \in 0..Len(C) /\ k \in 0..Len(C)
      BY <1>3, <1>4
    <3>. QED
      BY <1>6, <3>1, TellsBelow
  <2>2. f[k] \in Seq(Frame)
    BY <2>1 DEF Below
  <2>3. f[Len(C)] = f[k] \o Part(C[Len(C)], t)
    <3>1. Len(C) # 0 /\ Len(C) - 1 = k
      BY <1>3, <1>4
    <3>. QED
      BY <2>1, <3>1 DEF Below
  <2>4. f[k] \o Part(TopOf(s), t) = o.ci
    BY <1>2, <1>4, <1>6, <2>3 DEF Acting
  <2>. QED
    BY <1>1, <1>5, <2>2, <2>4
<1>7. Stories([s.th EXCEPT ![t] = l], [C EXCEPT ![k + 1] = b])
  <2>1. C[k + 1].t = t /\ Len(C) = k + 1
    BY <1>2, <1>3, <1>4 DEF Acting
  <2>2. s.th \in [Thread -> LuaState] /\ t \in Thread /\ Stories(s.th, C) /\ b.t = t
    BY <1>1, <1>2, <1>4 DEF Acting, Told
  <2>. QED
    BY <1>5, <1>6, <2>1, <2>2, ReplaceTold
<1>. QED
  BY <1>1, <1>3, <1>4, <1>7, SetsTold

LEMMA PlainCut ==
    ASSUME NEW s, OK(s), Acts(s), Told(s), ~IsTry(TopOf(s)),
           NEW l, l.status = "ok", l.errorJmp = Own(s).errorJmp,
           \A y \in Seq(Frame) : y \o Part(TopOf(s), TopThread(s.cs)) = Own(s).ci => y = l.ci,
           NEW N
    PROVE  Told(Sets(s, l, SubSeq(s.cs, 1, Len(s.cs) - 1), N))
<1>1. PICK t, o : t = TopThread(s.cs) /\ o = Own(s)
  OBVIOUS
<1>2. Acting(s, t, o)
  BY <1>1, ActingFacts
<1>3. PICK k \in Nat : Len(s.cs) = k + 1 /\ Len(s.cs) - 1 = k
  <2>1. Len(s.cs) \in Nat \ {0}
    BY OwnFacts DEF Acts
  <2>2. Len(s.cs) - 1 \in Nat /\ Len(s.cs) = (Len(s.cs) - 1) + 1
    BY <2>1
  <2>. QED
    BY <2>2
<1>4. PICK C \in Seq(Activation) : C = s.cs
  BY <1>2 DEF Acting
<1>5. Running(l) = l.ci /\ Asleep(l)
  BY <1>1, <1>2 DEF Acting, Running, Asleep
<1>6. ASSUME NEW f, Tells(C, t, f), f[Len(C)] = Running(s.th[t])
      PROVE  f[k] = Running(l)
  <2>1. Below(C, t, f, Len(C), Running(s.th[t])) /\ Below(C, t, f, k, Running(s.th[t]))
    <3>1. Len(C) \in 0..Len(C) /\ k \in 0..Len(C)
      BY <1>3, <1>4
    <3>. QED
      BY <1>6, <3>1, TellsBelow
  <2>2. f[k] \in Seq(Frame)
    BY <2>1 DEF Below
  <2>3. f[Len(C)] = f[k] \o Part(C[Len(C)], t)
    <3>1. Len(C) # 0 /\ Len(C) - 1 = k
      BY <1>3, <1>4
    <3>. QED
      BY <2>1, <3>1 DEF Below
  <2>4. f[k] \o Part(TopOf(s), t) = o.ci
    BY <1>2, <1>4, <1>6, <2>3 DEF Acting
  <2>. QED
    BY <1>1, <1>5, <2>2, <2>4
<1>7. Stories([s.th EXCEPT ![t] = l], SubSeq(C, 1, k))
  <2>1. k \in 0..Len(C) /\ \A j \in (k + 1)..Len(C) : C[j].t = t
    BY <1>2, <1>3, <1>4 DEF Acting
  <2>2. s.th \in [Thread -> LuaState] /\ t \in Thread /\ Stories(s.th, C)
    BY <1>1, <1>2, <1>4 DEF Acting, Told
  <2>. QED
    BY <1>5, <1>6, <2>1, <2>2, CutTold
<1>. QED
  BY <1>1, <1>3, <1>4, <1>7, SetsTold

LEMMA ModeMoveTold ==
    ASSUME NEW s, OK(s), Told(s), NEW r, ModeMove(s, r)
    PROVE  Told(r)
<1>1. PICK N \in Mode : r = [s EXCEPT !.mode = N]
  BY DEF ModeMove
<1>2. r.th = s.th /\ r.cs = s.cs
  BY <1>1 DEF OK, State
<1>. QED
  BY <1>2 DEF Told

LEMMA SizeMoveTold ==
    ASSUME NEW s, OK(s), Told(s), NEW r, SizeMove(s, r)
    PROVE  Told(r)
<1>1. PICK x \in Thread, z \in Nat : r = [s EXCEPT !.th[x].size_ci = z]
  BY DEF SizeMove
<1>2. PICK T \in [Thread -> LuaState] : T = s.th
  BY OwnFacts
<1>3. PICK o \in LuaState : o = T[x]
  OBVIOUS
<1>. DEFINE l == [o EXCEPT !.size_ci = z]
<1>4. l.ci = o.ci /\ l.status = o.status /\ l.errorJmp = o.errorJmp
  BY DEF LuaState
<1>5. r.th = [T EXCEPT ![x] = l] /\ r.cs = s.cs
  BY <1>1, <1>2, <1>3 DEF OK, State
<1>. HIDE DEF l
<1>6. Asleep(l) /\ Running(l) = Running(T[x])
  BY <1>2, <1>3, <1>4 DEF Asleep, Running, Told, Stories, Story
<1>. QED
  BY <1>2, <1>5, <1>6, SameTold DEF Told

(* The frames of the thread on top are a sequence.                         *)
LEMMA OwnFrames ==
    ASSUME NEW s, OK(s), NEW o, o = Own(s)
    PROVE  o \in LuaState /\ o.ci \in Seq(Frame) /\ o.ci \o <<>> = o.ci
<1>1. o \in LuaState
  BY OwnFacts
<1>2. o.ci \in Seq(Frame)
  BY <1>1 DEF LuaState
<1>. QED
  BY <1>1, <1>2, ConcatEmptySeq

LEMMA CallMoveTold ==
    ASSUME NEW s, OK(s), Told(s), NEW r, CallMove(s, r)
    PROVE  Told(r)
<1>1. PICK N \in Mode :
       /\ Acts(s)
       /\ r = Sets(s, [Own(s) EXCEPT !.nCcalls = @ + 1],
                   Append(s.cs, [k |-> "call", t |-> TopThread(s.cs)]), N)
  BY DEF CallMove
<1>2. PICK o \in LuaState : o = Own(s)
  BY OwnFacts
<1>3. PICK t \in Thread : t = TopThread(s.cs)
  BY OwnFacts
<1>. DEFINE l == [o EXCEPT !.nCcalls = @ + 1]  a == [k |-> "call", t |-> t]
<1>4. a \in Activation /\ a.t = t /\ ~IsTry(a) /\ a.k = "call"
  BY DEF Activation, Plain, IsTry
<1>5. l.ci = o.ci /\ l.status = o.status /\ l.errorJmp = o.errorJmp
  BY DEF LuaState
<1>6. r = Sets(s, l, Append(s.cs, a), N)
  BY <1>1, <1>2, <1>3
<1>. HIDE DEF l, a
<1>7. Part(a, t) = <<>>
  BY <1>4, PartFacts
<1>8. l.ci = Own(s).ci \o Part(a, TopThread(s.cs))
  BY <1>2, <1>3, <1>5, <1>7, OwnFrames
<1>. QED
  BY <1>1, <1>2, <1>3, <1>4, <1>5, <1>6, <1>8, PlainPush DEF Acts

LEMMA BeginMoveTold ==
    ASSUME NEW s, OK(s), Told(s), NEW r, BeginMove(s, r)
    PROVE  Told(r)
<1>1. PICK a \in Activation, h \in BOOLEAN :
         /\ Acts(s) /\ a.t = TopThread(s.cs) /\ a.k \in {"hook", "gctm", "errormsg", "parse"}
         /\ r = Sets(s, [Own(s) EXCEPT !.allowhook = h], Append(s.cs, a), s.mode)
  BY DEF BeginMove
<1>2. PICK o \in LuaState : o = Own(s)
  BY OwnFacts
<1>3. PICK t \in Thread : t = TopThread(s.cs)
  BY OwnFacts
<1>. DEFINE l == [o EXCEPT !.allowhook = h]
<1>4. ~IsTry(a) /\ Part(a, t) = <<>>
  BY <1>1, PartFacts DEF IsTry
<1>5. l.ci = o.ci /\ l.status = o.status /\ l.errorJmp = o.errorJmp
  BY DEF LuaState
<1>6. r = Sets(s, l, Append(s.cs, a), s.mode)
  BY <1>1, <1>2
<1>. HIDE DEF l
<1>7. l.ci = Own(s).ci \o Part(a, TopThread(s.cs))
  BY <1>2, <1>3, <1>4, <1>5, OwnFrames
<1>. QED
  BY <1>1, <1>2, <1>3, <1>4, <1>5, <1>6, <1>7, PlainPush DEF Acts

LEMMA EnterMoveTold ==
    ASSUME NEW s, OK(s), Told(s), NEW r, EnterMove(s, r)
    PROVE  Told(r)
<1>1. PICK f \in Frame :
       /\ Acts(s)
       /\ r = Sets(s, [Own(s) EXCEPT !.ci = Append(@, f)],
                   Append(s.cs, Entry(f, TopThread(s.cs))), s.mode)
  BY DEF EnterMove
<1>2. PICK o \in LuaState : o = Own(s)
  BY OwnFacts
<1>3. PICK t \in Thread : t = TopThread(s.cs)
  BY OwnFacts
<1>. DEFINE l == [o EXCEPT !.ci = Append(o.ci, f)]  a == Entry(f, t)
<1>4. a \in Activation /\ a.t = t /\ ~IsTry(a)
  BY DEF Entry, Frame, Activation, CFun, Exec, IsTry
<1>5. l.ci = Append(o.ci, f) /\ l.status = o.status /\ l.errorJmp = o.errorJmp
  BY DEF LuaState
<1>6. r = Sets(s, l, Append(s.cs, a), s.mode)
  BY <1>1, <1>2, <1>3
<1>7. Part(a, t) = <<f>>
  <2>1. CASE f = "lua"
    BY <2>1, LuasOne DEF Part, Entry
  <2>2. CASE f # "lua"
    BY <2>2 DEF Part, Entry
  <2>. QED
    BY <2>1, <2>2
<1>. HIDE DEF l, a
<1>8. Append(o.ci, f) = o.ci \o <<f>>
  BY <1>2, OwnFrames, AppendIsConcat
<1>9. l.ci = Own(s).ci \o Part(a, TopThread(s.cs))
  BY <1>2, <1>3, <1>5, <1>7, <1>8
<1>. QED
  BY <1>1, <1>2, <1>3, <1>4, <1>5, <1>6, <1>9, PlainPush DEF Acts

LEMMA MoreLua ==
    ASSUME NEW y \in Seq(Frame), NEW n \in Nat
    PROVE  /\ y \o Luas(n) \in Seq(Frame)
           /\ y \o Luas(n + 1) = Append(y \o Luas(n), "lua")
<1>1. PICK q \in Seq(Frame) : q = Luas(n) /\ Luas(n + 1) = Append(q, "lua")
  BY LuasFacts
<1>2. "lua" \in Frame /\ <<"lua">> \in Seq(Frame)
  BY DEF Frame
<1>3. y \o q \in Seq(Frame)
  BY ConcatProperties
<1>4. Append(q, "lua") = q \o <<"lua">> /\ Append(y \o q, "lua") = (y \o q) \o <<"lua">>
  BY <1>2, <1>3, AppendIsConcat
<1>5. (y \o q) \o <<"lua">> = y \o (q \o <<"lua">>)
  BY <1>2, ConcatAssociative
<1>. QED
  BY <1>1, <1>3, <1>4, <1>5

LEMMA LessLast ==
    ASSUME NEW q \in Seq(Frame), NEW e \in Frame, NEW c, c = Append(q, e)
    PROVE  SubSeq(c, 1, Len(c) - 1) = q
<1>1. PICK n \in Nat : n = Len(q)
  OBVIOUS
<1>2. c \in Seq(Frame) /\ Len(c) = n + 1 /\ \A i \in 1..n : c[i] = q[i]
  BY <1>1, AppendProperties
<1>3. n \in 0..Len(c) /\ Len(c) - 1 = n
  BY <1>2
<1>4. PICK d \in Seq(Frame) : d = SubSeq(c, 1, n) /\ Len(d) = n /\ \A i \in 1..n : d[i] = c[i]
  BY <1>2, <1>3, CutFacts
<1>5. d = q
  BY <1>1, <1>2, <1>4, SeqEqual
<1>. QED
  BY <1>3, <1>4, <1>5

LEMMA ReenterMoveTold ==
    ASSUME NEW s, OK(s), Told(s), NEW r, ReenterMove(s, r)
    PROVE  Told(r)
<1>1. Acts(s) /\ TopOf(s).k = "exec" /\ TopOf(s) \in Activation /\ s.cs # <<>>
  BY OwnFacts DEF ReenterMove, Acts
<1>2. PICK o \in LuaState : o = Own(s)
  BY OwnFacts
<1>3. PICK a \in Exec : a = TopOf(s)
  BY <1>1, ActivationFacts
<1>4. /\ a.k = "exec" /\ a.n \in Nat \ {0} /\ a.t = TopThread(s.cs) /\ ~IsTry(TopOf(s))
      /\ a \in Activation
  BY <1>1, <1>3, OwnFacts DEF Exec, IsTry
<1>5. ASSUME NEW q, NEW m \in Nat \ {0},
             \A y \in Seq(Frame) : y \o Luas(a.n) = o.ci => y \o Luas(m) = q,
             r = Sets(s, [o EXCEPT !.ci = q],
                      [s.cs EXCEPT ![Len(s.cs)] = [a EXCEPT !.n = m]], s.mode)
      PROVE  Told(r)
  <2>. DEFINE l == [o EXCEPT !.ci = q]  c == [a EXCEPT !.n = m]
  <2>1. c \in Activation /\ c.t = a.t /\ ~IsTry(c) /\ c.n = m /\ c.k = "exec"
    BY <1>4 DEF Activation, Exec, IsTry
  <2>2. l.ci = q /\ l.status = o.status /\ l.errorJmp = o.errorJmp
    BY DEF LuaState
  <2>3. r = Sets(s, l, [s.cs EXCEPT ![Len(s.cs)] = c], s.mode)
    BY <1>5
  <2>. HIDE DEF l, c
  <2>4. Part(TopOf(s), TopThread(s.cs)) = Luas(a.n) /\ Part(c, TopThread(s.cs)) = Luas(m)
    BY <1>3, <1>4, <2>1, PartFacts
  <2>5. \A y \in Seq(Frame) : y \o Part(TopOf(s), TopThread(s.cs)) = Own(s).ci =>
                              y \o Part(c, TopThread(s.cs)) = l.ci
    BY <1>2, <1>5, <2>2, <2>4
  <2>. QED
    BY <1>1, <1>2, <1>4, <2>1, <2>2, <2>3, <2>5, PlainReplace DEF Acts
<1>6. CASE r = Sets(s, [Own(s) EXCEPT !.ci = Append(@, "lua")],
                    [s.cs EXCEPT ![Len(s.cs)] = [TopOf(s) EXCEPT !.n = @ + 1]], s.mode)
  <2>1. \A y \in Seq(Frame) : y \o Luas(a.n) = o.ci =>
                              y \o Luas(a.n + 1) = Append(o.ci, "lua")
    BY <1>4, MoreLua
  <2>2. a.n + 1 \in Nat \ {0}
    BY <1>4
  <2>. QED
    BY <1>2, <1>3, <1>5, <1>6, <2>1, <2>2
<1>7. CASE /\ a.n > 1
           /\ r = Sets(s, [Own(s) EXCEPT !.ci = SubSeq(@, 1, Len(@) - 1)],
                       [s.cs EXCEPT ![Len(s.cs)] = [TopOf(s) EXCEPT !.n = @ - 1]], s.mode)
  <2>1. PICK m \in Nat \ {0} : a.n = m + 1 /\ a.n - 1 = m
    <3>1. a.n - 1 \in Nat \ {0} /\ a.n = (a.n - 1) + 1
      BY <1>4, <1>7
    <3>. QED
      BY <3>1
  <2>2. ASSUME NEW y \in Seq(Frame), y \o Luas(a.n) = o.ci
        PROVE  y \o Luas(m) = SubSeq(o.ci, 1, Len(o.ci) - 1)
    <3>1. y \o Luas(m) \in Seq(Frame) /\ o.ci = Append(y \o Luas(m), "lua")
      BY <2>1, <2>2, MoreLua
    <3>2. "lua" \in Frame
      BY DEF Frame
    <3>. QED
      BY <3>1, <3>2, LessLast
  <2>3. r = Sets(s, [o EXCEPT !.ci = SubSeq(o.ci, 1, Len(o.ci) - 1)],
                 [s.cs EXCEPT ![Len(s.cs)] = [a EXCEPT !.n = m]], s.mode)
    BY <1>2, <1>3, <1>7, <2>1
  <2>. QED
    BY <1>5, <2>2, <2>3
<1>. QED
  BY <1>3, <1>6, <1>7 DEF ReenterMove

LEMMA ThroughMoveTold ==
    ASSUME NEW s, OK(s), Told(s), NEW r, ThroughMove(s, r)
    PROVE  Told(r)
<1>. DEFINE c == [TopOf(s) EXCEPT !.st = "done"]
<1>1. Acts(s) /\ TopOf(s).k = "cfun" /\ r = [s EXCEPT !.cs = [s.cs EXCEPT ![Len(s.cs)] = c]]
  BY DEF ThroughMove, TopOf
<1>2. PICK o \in LuaState : o = Own(s)
  BY OwnFacts
<1>3. PICK a \in CFun : a = TopOf(s)
  <2>1. TopOf(s) \in Activation
    BY <1>1, OwnFacts DEF Acts
  <2>. QED
    BY <1>1, <2>1, ActivationFacts
<1>4. /\ c \in Activation /\ c.t = TopThread(s.cs) /\ c.k = "cfun" /\ c.f = a.f
      /\ a.t = TopThread(s.cs) /\ ~IsTry(c) /\ ~IsTry(TopOf(s)) /\ a \in Activation
      /\ TopOf(s).t = TopThread(s.cs)
  <2>1. c \in CFun /\ c.t = a.t /\ c.f = a.f /\ c.k = "cfun"
    BY <1>3 DEF CFun
  <2>. QED
    BY <1>1, <1>3, <2>1, OwnFacts DEF Activation, CFun, IsTry, Acts
<1>. HIDE DEF c
<1>5. r = Sets(s, o, [s.cs EXCEPT ![Len(s.cs)] = c], s.mode)
  <2>1. [s.th EXCEPT ![TopThread(s.cs)] = o] = s.th
    BY <1>2, OwnFacts DEF Own
  <2>. QED
    BY <1>1, <2>1 DEF Sets, OK, State
<1>6. Part(TopOf(s), TopThread(s.cs)) = Part(c, TopThread(s.cs))
  BY <1>1, <1>3, <1>4, PartFacts
<1>7. \A y \in Seq(Frame) : y \o Part(TopOf(s), TopThread(s.cs)) = Own(s).ci =>
                            y \o Part(c, TopThread(s.cs)) = o.ci
  BY <1>2, <1>6
<1>8. Acts(s) /\ o.status = "ok" /\ o.errorJmp = Own(s).errorJmp
  BY <1>1, <1>2 DEF Acts
<1>9. Told(Sets(s, o, [s.cs EXCEPT ![Len(s.cs)] = c], s.mode))
  BY <1>4, <1>7, <1>8, PlainReplace
<1>. QED
  BY <1>5, <1>9

LEMMA LevelMoveTold ==
    ASSUME NEW s, OK(s), Told(s), NEW r, LevelMove(s, r)
    PROVE  Told(r)
<1>1. PICK d \in {1, -1}, N \in Mode :
         /\ Acts(s) /\ TopOf(s).k = "parse" /\ TopOf(s).level + d >= 0
         /\ r = Sets(s, [Own(s) EXCEPT !.nCcalls = @ + d],
                     [s.cs EXCEPT ![Len(s.cs)] = [TopOf(s) EXCEPT !.level = @ + d]], N)
  BY DEF LevelMove, Mode
<1>2. PICK o \in LuaState : o = Own(s)
  BY OwnFacts
<1>3. PICK a \in Parse : a = TopOf(s)
  <2>1. TopOf(s) \in Activation
    BY <1>1, OwnFacts DEF Acts
  <2>. QED
    BY <1>1, <2>1, ActivationFacts
<1>4. /\ a.k = "parse" /\ a.level \in Nat /\ a.t \in Thread /\ a.level + d \in Nat
      /\ a.t = TopThread(s.cs) /\ ~IsTry(TopOf(s)) /\ a \in Activation
  BY <1>1, <1>3, OwnFacts DEF Parse, Acts, IsTry, Activation
<1>. DEFINE l == [o EXCEPT !.nCcalls = o.nCcalls + d]
            c == [a EXCEPT !.level = a.level + d]
<1>5. c \in Activation /\ c.t = a.t /\ c.k = "parse" /\ ~IsTry(c)
  <2>1. c \in Parse /\ c.t = a.t /\ c.k = "parse"
    BY <1>4 DEF Parse
  <2>. QED
    BY <2>1 DEF Activation, IsTry
<1>6. l.ci = o.ci /\ l.status = o.status /\ l.errorJmp = o.errorJmp
  BY DEF LuaState
<1>7. r = Sets(s, l, [s.cs EXCEPT ![Len(s.cs)] = c], N)
  <2>1. l = [Own(s) EXCEPT !.nCcalls = @ + d]
    BY <1>2
  <2>2. c = [TopOf(s) EXCEPT !.level = @ + d]
    BY <1>3
  <2>. QED
    BY <1>1, <2>1, <2>2
<1>. HIDE DEF l, c
<1>8. Part(TopOf(s), TopThread(s.cs)) = <<>> /\ Part(c, TopThread(s.cs)) = <<>>
  BY <1>3, <1>4, <1>5, PartFacts
<1>9. \A y \in Seq(Frame) : y \o Part(TopOf(s), TopThread(s.cs)) = Own(s).ci =>
                            y \o Part(c, TopThread(s.cs)) = l.ci
  BY <1>2, <1>6, <1>8
<1>10. Acts(s) /\ l.status = "ok" /\ l.errorJmp = Own(s).errorJmp
  BY <1>1, <1>2, <1>6 DEF Acts
<1>11. c.t = TopThread(s.cs)
  BY <1>4, <1>5
<1>12. Told(Sets(s, l, [s.cs EXCEPT ![Len(s.cs)] = c], N))
  BY <1>4, <1>5, <1>9, <1>10, <1>11, PlainReplace
<1>. QED
  BY <1>7, <1>12

LEMMA LeaveMoveTold ==
    ASSUME NEW s, OK(s), Told(s), NEW r, LeaveMove(s, r)
    PROVE  Told(r)
<1>1. PICK l \in LuaState :
         /\ \/ /\ TopOf(s).k = "cfun" \/ (TopOf(s).k = "exec" /\ TopOf(s).n = 1)
               /\ l = [Own(s) EXCEPT !.ci = SubSeq(@, 1, Len(@) - 1)]
            \/ TopOf(s).k = "call" /\ l = [Own(s) EXCEPT !.nCcalls = @ - 1]
            \/ TopOf(s).k = "parse" /\ l = Own(s)
            \/ TopOf(s).k = "hook" /\ l = [Own(s) EXCEPT !.allowhook = TRUE]
            \/ TopOf(s).k = "gctm" /\ l = [Own(s) EXCEPT !.allowhook = TopOf(s).oldah]
         /\ r = Sets(s, l, SubSeq(s.cs, 1, Len(s.cs) - 1), "run")
  BY DEF LeaveMove
<1>2. PICK o \in LuaState : o = Own(s)
  BY OwnFacts
<1>3. PICK t \in Thread : t = TopThread(s.cs)
  BY OwnFacts
<1>4. PICK a \in Activation : a = TopOf(s)
  BY OwnFacts DEF LeaveMove, Acts
<1>5. Acts(s) /\ a.t = t /\ o.status = "ok" /\ ~IsTry(TopOf(s))
  BY <1>1, <1>2, <1>3, <1>4, OwnFacts DEF LeaveMove, Acts, IsTry
<1>6. CASE /\ a.k = "cfun" \/ (a.k = "exec" /\ a.n = 1)
           /\ l = [o EXCEPT !.ci = SubSeq(@, 1, Len(@) - 1)]
  <2>1. PICK f \in Frame : Part(a, t) = <<f>>
    <3>1. CASE a.k = "cfun"
      <4>1. a.f \in Frame
        BY <3>1, ActivationFacts DEF CFun, Frame
      <4>. QED
        BY <1>5, <3>1, <4>1, PartFacts
    <3>2. CASE a.k = "exec" /\ a.n = 1
      <4>1. "lua" \in Frame
        BY DEF Frame
      <4>. QED
        BY <1>5, <3>2, <4>1, PartFacts, LuasOne
    <3>. QED
      BY <1>6, <3>1, <3>2
  <2>2. l.ci = SubSeq(o.ci, 1, Len(o.ci) - 1) /\ l.status = o.status /\ l.errorJmp = o.errorJmp
    BY <1>6 DEF LuaState
  <2>3. ASSUME NEW y \in Seq(Frame), y \o Part(TopOf(s), TopThread(s.cs)) = Own(s).ci
        PROVE  y = l.ci
    <3>1. o.ci = Append(y, f)
      BY <1>2, <1>3, <1>4, <2>1, <2>3, AppendIsConcat
    <3>. QED
      BY <2>2, <3>1, LessLast
  <2>. QED
    BY <1>1, <1>2, <1>5, <2>2, <2>3, PlainCut
<1>7. ASSUME l.ci = o.ci, l.status = o.status, l.errorJmp = o.errorJmp,
             a.k \notin {"exec", "cfun"}
      PROVE  Told(r)
  <2>1. Part(TopOf(s), TopThread(s.cs)) = <<>>
    BY <1>3, <1>4, <1>7, PartFacts
  <2>2. \A y \in Seq(Frame) : y \o Part(TopOf(s), TopThread(s.cs)) = Own(s).ci => y = l.ci
    BY <1>2, <1>7, <2>1, ConcatEmptySeq
  <2>. QED
    BY <1>1, <1>2, <1>5, <1>7, <2>2, PlainCut
<1>8. CASE /\ a.k \in {"call", "parse", "hook", "gctm"}
           /\ \/ l = [o EXCEPT !.nCcalls = @ - 1] \/ l = o
              \/ l = [o EXCEPT !.allowhook = TRUE]
              \/ l = [o EXCEPT !.allowhook = a.oldah]
  <2>1. l.ci = o.ci /\ l.status = o.status /\ l.errorJmp = o.errorJmp
    BY <1>8 DEF LuaState
  <2>. QED
    BY <1>7, <1>8, <2>1
<1>. QED
  BY <1>1, <1>2, <1>4, <1>6, <1>8

(* A protected call begins: its frames are those that the thread has.      *)
LEMMA PcallMoveTold ==
    ASSUME NEW s, OK(s), Told(s), NEW r, PcallMove(s, r)
    PROVE  Told(r)
<1>1. PICK o \in LuaState : o = Own(s)
  BY OwnFacts
<1>2. PICK t \in Thread : t = TopThread(s.cs)
  BY OwnFacts
<1>3. PICK C \in Seq(Activation) : C = s.cs
  BY OwnFacts
<1>4. PICK n \in Nat : n = Len(C)
  OBVIOUS
<1>5. /\ o = s.th[t] /\ o.status = "ok" /\ s.mode = "run" /\ s.th \in [Thread -> LuaState]
      /\ Stories(s.th, C)
  BY <1>1, <1>2, <1>3, OwnFacts DEF PcallMove, Own, Told
<1>6. Running(o) = o.ci /\ (o.errorJmp = 0 => o.ci = <<>>)
  <2>1. CASE C = <<>>
    <3>1. PICK F, G, H : Shape(s.th, C, s.mode, F, G, H)
      BY <1>3 DEF OK, Good
    <3>2. n = 0 /\ Innermost(C, t, o.errorJmp, 0)
      BY <1>4, <1>5, <2>1, <3>1 DEF Shape, Jumps
    <3>3. o.errorJmp = 0
      BY <3>2 DEF Innermost
    <3>4. Fits(o, C, s.mode, F, G, H) /\ F[0] = 0 /\ Len(C) = 0
      BY <1>2, <1>3, <1>4, <1>5, <3>1, <3>2 DEF Shape, Counted, Measured
    <3>5. ~Switching(o, C, s.mode)
      BY <1>5 DEF Switching
    <3>6. Len(o.ci) = 0
      BY <3>4, <3>5 DEF Fits, At
    <3>7. o.ci = <<>>
      BY <3>6, EmptySeq DEF LuaState
    <3>. QED
      BY <3>3, <3>7 DEF Running
  <2>2. CASE C # <<>>
    <3>1. Acts(s)
      BY <1>1, <1>3, <1>5, <2>2 DEF Acts
    <3>. QED
      BY <1>1, <1>2, <3>1, ActingFacts DEF Acting
  <2>. QED
    BY <2>1, <2>2
<1>7. PICK a \in Try : a = TryOf("pcall", t, o)
  BY TryFacts
<1>8. /\ a.kind = "pcall" /\ a.k = "try" /\ a.t = t /\ a.previous = o.errorJmp
      /\ a.old_ci = Len(o.ci) /\ a \in Activation
  BY <1>7, TryFacts DEF Try, Activation
<1>9. PICK h : h = HandlerFor(s)
  OBVIOUS
<1>. DEFINE l == [o EXCEPT !.errorJmp = n + 1, !.errfunc = h]
<1>10. l.ci = o.ci /\ l.status = "ok" /\ l.errorJmp # 0
  BY <1>4, <1>5 DEF LuaState
<1>11. r = Sets(s, l, Append(C, a), s.mode)
  BY <1>1, <1>2, <1>3, <1>4, <1>7, <1>9 DEF PcallMove
<1>. HIDE DEF l
<1>12. BeganWith(a, t, Running(s.th[t]))
  BY <1>5, <1>6, <1>8 DEF BeganWith
<1>13. Running(l) = Running(s.th[t]) \o Part(a, t)
  <2>1. Part(a, t) = <<>>
    BY <1>8, PartFacts
  <2>2. Running(l) = o.ci
    BY <1>10 DEF Running
  <2>. QED
    BY <1>1, <1>5, <1>6, <2>1, <2>2, OwnFrames
<1>14. Asleep(l)
  BY <1>10 DEF Asleep
<1>15. Stories([s.th EXCEPT ![t] = l], Append(C, a))
  BY <1>5, <1>8, <1>12, <1>13, <1>14, PushTold
<1>. QED
  BY <1>2, <1>11, <1>15, SetsTold

(* What a try began with is below it.                                      *)
LEMMA TryBegan ==
    ASSUME NEW C \in Seq(Activation), NEW t, NEW f, Tells(C, t, f),
           NEW q, q = f[Len(C)], NEW e \in 1..Len(C), IsTry(C[e]), C[e].t = t,
           NEW k \in Nat, e = k + 1
    PROVE  /\ k \in 0..Len(C) /\ f[k] \in Seq(Frame) /\ Prefix(f[k], q)
           /\ C[e].previous = 0 => f[k] = <<>>
           /\ C[e].kind = "pcall" => Len(f[k]) = C[e].old_ci
<1>1. k \in 0..Len(C) /\ e \in 0..Len(C) /\ e - 1 = k /\ e # 0
  OBVIOUS
<1>2. Below(C, t, f, k, q) /\ Below(C, t, f, e, q)
  BY <1>1, TellsBelow
<1>3. BeganWith(C[e], t, f[e - 1])
  BY <1>1, <1>2 DEF Below
<1>4. BeganWith(C[e], t, f[k])
  BY <1>1, <1>3
<1>. QED
  BY <1>1, <1>2, <1>4 DEF Below, BeganWith

LEMMA EndPcallMoveTold ==
    ASSUME NEW s, OK(s), Told(s), NEW r, EndPcallMove(s, r)
    PROVE  Told(r)
<1>1. PICK o \in LuaState : o = Own(s)
  BY OwnFacts
<1>2. PICK t \in Thread : t = TopThread(s.cs)
  BY OwnFacts
<1>3. PICK n \in Nat \ {0} : n = Len(s.cs)
  BY OwnFacts DEF EndPcallMove
<1>4. PICK e \in Nat : e = o.errorJmp
  BY DEF LuaState
<1>5. PICK C \in Seq(Activation) : C = s.cs
  BY OwnFacts
<1>6. PICK z \in Nat :
         r = Sets(s, [Own(s) EXCEPT !.ci = SubSeq(@, 1, C[e].old_ci),
                                    !.nCcalls = C[e].oldnCcalls,
                                    !.allowhook = C[e].old_allowhooks,
                                    !.errfunc = C[e].old_errfunc,
                                    !.errorJmp = C[e].previous, !.size_ci = z],
                  SubSeq(C, 1, e - 1), "run")
  BY <1>1, <1>4, <1>5 DEF EndPcallMove
<1>7. o = s.th[t] /\ t = C[n].t /\ C[e].kind = "pcall"
  BY <1>1, <1>2, <1>3, <1>4, <1>5, OwnFacts DEF EndPcallMove, Own, TopOf
<1>8. PcallFacts(s.th, C, n, t, e)
  BY <1>3, <1>4, <1>5, <1>7, EndOfPcall DEF OK
<1>9. PICK a \in Try : a = C[e]
  BY <1>8 DEF PcallFacts
<1>10. /\ o.status = "ok" /\ e \in 1..n /\ a.t = t /\ a.kind = "pcall" /\ IsTry(C[e])
  BY <1>7, <1>8, <1>9 DEF PcallFacts, IsTry, Try
<1>11. PICK k \in Nat : e = k + 1 /\ e - 1 = k
  <2>1. e - 1 \in Nat /\ e = (e - 1) + 1
    BY <1>10
  <2>. QED
    BY <2>1
<1>. DEFINE l == [o EXCEPT !.ci = SubSeq(o.ci, 1, a.old_ci),
                           !.nCcalls = a.oldnCcalls,
                           !.allowhook = a.old_allowhooks,
                           !.errfunc = a.old_errfunc,
                           !.errorJmp = a.previous, !.size_ci = z]
<1>12. l.ci = SubSeq(o.ci, 1, a.old_ci) /\ l.errorJmp = a.previous /\ l.status = "ok"
  BY <1>10 DEF LuaState
<1>13. r = Sets(s, l, SubSeq(C, 1, k), "run")
  BY <1>1, <1>6, <1>9, <1>11
<1>. HIDE DEF l
<1>14. \A j \in (k + 1)..Len(C) : C[j].t = t
  <2>1. PICK F, G, H : Shape(s.th, C, s.mode, F, G, H)
    BY <1>5 DEF OK, Good
  <2>2. TopReady(s.th, C, s.mode, n, t, e)
    BY <1>3, <1>4, <1>5, <1>7, <2>1, OwnFacts, TopFacts
  <2>3. \A j \in e..n : C[j].t = t
    BY <2>2 DEF TopReady
  <2>. QED
    BY <1>3, <1>5, <1>11, <2>3
<1>15. Running(o) = o.ci
  BY <1>4, <1>10 DEF Running
<1>16. e \in 1..Len(C) /\ k \in 0..Len(C)
  BY <1>3, <1>5, <1>10, <1>11
<1>17. ASSUME NEW f, Tells(C, t, f), f[Len(C)] = Running(s.th[t])
       PROVE  f[k] = Running(l)
  <2>1. f[Len(C)] = o.ci
    BY <1>7, <1>15, <1>17
  <2>2. /\ f[k] \in Seq(Frame) /\ Prefix(f[k], o.ci)
        /\ a.previous = 0 => f[k] = <<>>
        /\ Len(f[k]) = a.old_ci
    BY <1>9, <1>10, <1>11, <1>16, <1>17, <2>1, TryBegan
  <2>3. f[k] = SubSeq(o.ci, 1, a.old_ci)
    BY <2>2 DEF Prefix
  <2>. QED
    BY <1>12, <2>2, <2>3 DEF Running
<1>18. Stories([s.th EXCEPT ![t] = l], SubSeq(C, 1, k))
  <2>1. Asleep(l)
    BY <1>12 DEF Asleep
  <2>2. s.th \in [Thread -> LuaState] /\ Stories(s.th, C)
    BY <1>5, OwnFacts DEF Told
  <2>. QED
    BY <1>14, <1>16, <1>17, <2>1, <2>2, CutTold
<1>. QED
  BY <1>2, <1>13, <1>18, SetsTold

LEMMA ResumeMoveTold ==
    ASSUME NEW s, OK(s), Told(s), NEW r, ResumeMove(s, r)
    PROVE  Told(r)
<1>1. PICK c \in Thread \ {MainThread} :
       LET m == Own(s).nCcalls
           l == [s.th[c] EXCEPT !.nCcalls = m + 1, !.baseCcalls = m + 1,
                              !.fn = @ /\ s.th[c].status = "yield"]
       IN /\ Acts(s) /\ s.th[c].errorJmp = 0
          /\ s.th[c].status = "yield" \/ (s.th[c].status = "ok" /\ s.th[c].ci = <<>>)
          /\ r = [th |-> [s.th EXCEPT ![c] = [l EXCEPT !.errorJmp = Len(s.cs) + 1]],
                  cs |-> Append(s.cs, TryOf("resume", c, l)), mode |-> "run"]
  BY DEF ResumeMove
<1>2. PICK o \in LuaState : o = s.th[c]
  BY OwnFacts
<1>3. PICK m \in Nat : m = Own(s).nCcalls
  BY OwnFacts DEF LuaState
<1>4. PICK C \in Seq(Activation) : C = s.cs
  BY OwnFacts
<1>5. PICK n \in Nat : n = Len(C)
  OBVIOUS
<1>6. o.errorJmp = 0 /\ (o.status = "yield" \/ (o.status = "ok" /\ o.ci = <<>>))
  BY <1>1, <1>2
<1>. DEFINE k == [o EXCEPT !.nCcalls = m + 1, !.baseCcalls = m + 1, !.fn = @ /\ o.status = "yield"]
            l == [k EXCEPT !.errorJmp = n + 1]
<1>7. m + 1 \in Nat
  OBVIOUS
<1>8. k \in LuaState /\ k.errorJmp = 0
  BY <1>6, <1>7 DEF LuaState
<1>9. l.status = o.status /\ l.ci = o.ci
  BY DEF LuaState
<1>. HIDE DEF k
<1>10. PICK a \in Try : a = TryOf("resume", c, k) /\ a.kind = "resume" /\ a.t = c /\ a.previous = 0
  BY <1>8, TryFacts
<1>11. r = [th |-> [s.th EXCEPT ![c] = l], cs |-> Append(s.cs, a), mode |-> "run"]
  BY <1>1, <1>2, <1>3, <1>4, <1>5, <1>10 DEF k
<1>12. a.k = "try" /\ a \in Activation /\ Part(a, c) = <<>>
  <2>1. a.k = "try" /\ a \in Activation
    BY DEF Try, Activation
  <2>. QED
    BY <2>1, PartFacts
<1>. HIDE DEF l
<1>13. Running(o) = <<>> /\ Running(l) = <<>>
  BY <1>6, <1>9 DEF Running
<1>14. Asleep(l)
  <2>1. Asleep(o)
    BY <1>2 DEF Told, Stories, Story
  <2>. QED
    BY <1>9, <2>1 DEF Asleep
<1>15. Running(l) = Running(s.th[c]) \o Part(a, c)
  <2>1. <<>> \o <<>> = <<>>
    OBVIOUS
  <2>. QED
    BY <1>2, <1>12, <1>13, <2>1
<1>16. BeganWith(a, c, Running(s.th[c]))
  BY <1>2, <1>10, <1>13 DEF BeganWith
<1>17. Stories([s.th EXCEPT ![c] = l], Append(C, a))
  <2>1. s.th \in [Thread -> LuaState] /\ Stories(s.th, C)
    BY <1>4, OwnFacts DEF Told
  <2>. QED
    BY <1>10, <1>12, <1>14, <1>15, <1>16, <2>1, PushTold
<1>. QED
  BY <1>4, <1>11, <1>17 DEF Told

(* A coroutine that has yielded goes on with the Lua frames that it left.  *)
LEMMA ContinueMoveTold ==
    ASSUME NEW s, OK(s), Told(s), NEW r, ContinueMove(s, r)
    PROVE  Told(r)
<1>1. PICK o \in LuaState : o = Own(s)
  BY OwnFacts
<1>2. PICK t \in Thread : t = TopThread(s.cs)
  BY OwnFacts
<1>3. PICK n \in Nat \ {0} : n = Len(s.cs)
  BY OwnFacts DEF ContinueMove
<1>4. PICK C \in Seq(Activation) : C = s.cs
  BY OwnFacts
<1>5. /\ o = s.th[t] /\ t = C[n].t /\ IsResume(C[n]) /\ o.status = "yield" /\ s.cs # <<>>
      /\ C[n] \in Activation
  BY <1>1, <1>2, <1>3, <1>4, OwnFacts DEF ContinueMove, Own, TopOf
<1>6. PICK k \in Nat \ {0} : Len(o.ci) = k + 1 /\ Len(o.ci) - 1 = k /\ k \in 0..Len(o.ci)
  <2>1. Len(o.ci) >= 2
    BY <1>5, YieldedFrames DEF OK
  <2>2. o.ci \in Seq(Frame)
    BY DEF LuaState
  <2>3. PICK q \in Nat : q = Len(o.ci)
    BY <2>2
  <2>4. q - 1 \in Nat \ {0} /\ q - 1 \in 0..q /\ q = (q - 1) + 1
    BY <2>1, <2>3
  <2>. QED
    BY <2>3, <2>4
<1>. DEFINE l == [o EXCEPT !.ci = SubSeq(o.ci, 1, k), !.status = "ok"]
            a == [k |-> "exec", t |-> t, n |-> k]
<1>7. l.ci = SubSeq(o.ci, 1, k) /\ l.status = "ok" /\ l.errorJmp = o.errorJmp
  BY DEF LuaState
<1>8. a \in Activation /\ a.t = t /\ a.k = "exec" /\ a.n = k /\ ~IsTry(a)
  BY DEF Activation, Exec, IsTry
<1>9. r = Sets(s, l, Append(C, a), "run")
  <2>1. l = [Own(s) EXCEPT !.ci = SubSeq(@, 1, Len(@) - 1), !.status = "ok"]
    BY <1>1, <1>6
  <2>. QED
    BY <1>1, <1>2, <1>4, <1>6, <2>1 DEF ContinueMove
<1>. HIDE DEF l, a
<1>10. Running(o) = <<>> /\ Asleep(o)
  BY <1>5, OwnFacts DEF Running, Told, Stories, Story
<1>11. SubSeq(o.ci, 1, k) = Luas(k)
  <2>1. /\ SubSeq(o.ci, 1, k) \in Seq(Frame) /\ Len(SubSeq(o.ci, 1, k)) = k
        /\ \A i \in 1..k : SubSeq(o.ci, 1, k)[i] = o.ci[i]
    <3>1. o.ci \in Seq(Frame)
      BY DEF LuaState
    <3>. QED
      BY <1>6, <3>1, CutFacts
  <2>2. o.ci = [i \in 1..(k + 1) |-> IF i = k + 1 THEN "yield" ELSE "lua"]
    BY <1>5, <1>6, <1>10 DEF Asleep, Yielded
  <2>3. ASSUME NEW i \in 1..k PROVE o.ci[i] = "lua"
    <3>1. i \in 1..(k + 1) /\ i # k + 1
      OBVIOUS
    <3>. QED
      BY <2>2, <3>1
  <2>4. Luas(k) \in Seq(Frame) /\ Len(Luas(k)) = k /\ \A i \in 1..k : Luas(k)[i] = "lua"
    BY LuasFacts DEF Luas
  <2>5. \A i \in 1..k : SubSeq(o.ci, 1, k)[i] = Luas(k)[i]
    BY <2>1, <2>3, <2>4
  <2>. QED
    BY <2>1, <2>4, <2>5, SeqEqual
<1>12. o.errorJmp # 0
  <2>1. PICK F, G, H : Shape(s.th, C, s.mode, F, G, H)
    BY <1>4 DEF OK, Good
  <2>2. n \in 1..Len(C)
    BY <1>3, <1>4
  <2>. QED
    BY <1>5, <2>1, <2>2, HandlerBelow
<1>13. Running(l) = Running(s.th[t]) \o Part(a, t)
  <2>1. Running(l) = Luas(k)
    BY <1>7, <1>11, <1>12 DEF Running
  <2>2. Part(a, t) = Luas(k) /\ Luas(k) \in Seq(Frame)
    BY <1>8, PartFacts, LuasFacts
  <2>3. <<>> \o Luas(k) = Luas(k)
    BY <2>2, ConcatEmptySeq
  <2>. QED
    BY <1>5, <1>10, <2>1, <2>2, <2>3
<1>14. Asleep(l) /\ BeganWith(a, t, Running(s.th[t]))
  BY <1>7, <1>8 DEF Asleep, BeganWith
<1>15. Stories([s.th EXCEPT ![t] = l], Append(C, a))
  <2>1. s.th \in [Thread -> LuaState] /\ Stories(s.th, C)
    BY <1>4, OwnFacts DEF Told
  <2>. QED
    BY <1>8, <1>13, <1>14, <2>1, PushTold
<1>. QED
  BY <1>2, <1>9, <1>15, SetsTold

(* Where a coroutine yields, its frames are Lua functions up to the yield. *)
LEMMA FramesOfYield ==
    ASSUME NEW C \in Seq(Activation), NEW t, NEW f, Tells(C, t, f), NEW q, q = f[Len(C)],
           NEW m \in Nat, Len(C) = m + 3,
           C[m + 1].t = t, IsTry(C[m + 1]), C[m + 1].previous = 0,
           C[m + 2].k = "exec", C[m + 2].t = t,
           C[m + 3].k = "cfun", C[m + 3].t = t, C[m + 3].f = "yield"
    PROVE  /\ f[m + 1] = <<>>
           /\ Yielded(q)
<1>1. /\ m + 1 \in 1..Len(C) /\ m + 2 \in 0..Len(C) /\ m + 3 \in 0..Len(C) /\ m + 1 \in 0..Len(C)
      /\ m + 1 # 0 /\ m + 2 # 0 /\ m + 3 # 0
      /\ (m + 1) - 1 = m /\ (m + 2) - 1 = m + 1 /\ (m + 3) - 1 = m + 2
  OBVIOUS
<1>2. C[m + 1] \in Activation /\ C[m + 2] \in Activation /\ C[m + 3] \in Activation
  BY <1>1
<1>3. f[m] = <<>>
  BY <1>1, TryBegan
<1>4. f[m + 1] = <<>>
  <2>1. Part(C[m + 1], t) = <<>>
    BY <1>2, PartFacts DEF IsTry
  <2>2. Below(C, t, f, m + 1, q)
    BY <1>1, TellsBelow
  <2>3. f[m + 1] = f[m] \o Part(C[m + 1], t)
    BY <1>1, <2>2 DEF Below
  <2>. QED
    BY <1>3, <2>1, <2>3
<1>5. PICK p \in Nat \ {0} : p = C[m + 2].n
  BY <1>2, ActivationFacts DEF Exec
<1>6. f[m + 2] = Luas(p) /\ Luas(p) \in Seq(Frame)
  <2>1. Part(C[m + 2], t) = Luas(p) /\ Luas(p) \in Seq(Frame)
    BY <1>2, <1>5, PartFacts, LuasFacts
  <2>2. Below(C, t, f, m + 2, q)
    BY <1>1, TellsBelow
  <2>3. f[m + 2] = f[m + 1] \o Part(C[m + 2], t)
    BY <1>1, <2>2 DEF Below
  <2>4. <<>> \o Luas(p) = Luas(p)
    BY <2>1, ConcatEmptySeq
  <2>. QED
    BY <1>4, <2>1, <2>3, <2>4
<1>7. "yield" \in Frame
  <2>1. C[m + 3].f \in CFunction
    BY <1>2, ActivationFacts DEF CFun
  <2>. QED
    BY <2>1 DEF Frame
<1>8. q = Append(Luas(p), "yield")
  <2>1. Part(C[m + 3], t) = <<"yield">>
    BY <1>2, PartFacts
  <2>2. Below(C, t, f, m + 3, q)
    BY <1>1, TellsBelow
  <2>3. f[m + 3] = f[m + 2] \o Part(C[m + 3], t)
    BY <1>1, <2>2 DEF Below
  <2>4. Append(Luas(p), "yield") = Luas(p) \o <<"yield">>
    BY <1>6, <1>7, AppendIsConcat
  <2>. QED
    BY <1>6, <2>1, <2>3, <2>4
<1>9. /\ Len(Luas(p)) = p /\ \A i \in 1..p : Luas(p)[i] = "lua"
  BY LuasFacts DEF Luas
<1>10. /\ q \in Seq(Frame) /\ Len(q) = p + 1 /\ (\A i \in 1..p : q[i] = "lua") /\ q[p + 1] = "yield"
  <2>1. PICK u \in Seq(Frame) : u = Luas(p)
    BY <1>6
  <2>2. /\ Append(u, "yield") \in Seq(Frame) /\ Len(Append(u, "yield")) = Len(u) + 1
        /\ \A i \in 1..Len(u) : Append(u, "yield")[i] = u[i]
        /\ Append(u, "yield")[Len(u) + 1] = "yield"
    BY <1>7, AppendProperties
  <2>. QED
    BY <1>8, <1>9, <2>1, <2>2
<1>11. PICK d : d = [i \in 1..Len(q) |-> IF i = Len(q) THEN "yield" ELSE "lua"]
  OBVIOUS
<1>12. d \in Seq(Frame) /\ Len(d) = p + 1
  <2>1. "lua" \in Frame
    BY DEF Frame
  <2>2. d \in [1..(p + 1) -> Frame]
    BY <1>7, <1>10, <1>11, <2>1
  <2>. QED
    BY <2>2
<1>13. \A i \in 1..(p + 1) : d[i] = q[i]
  <2>1. ASSUME NEW i \in 1..(p + 1) PROVE d[i] = q[i]
    <3>1. CASE i = p + 1
      BY <1>10, <1>11, <3>1
    <3>2. CASE i # p + 1
      <4>1. i \in 1..p
        BY <3>2
      <4>. QED
        BY <1>10, <1>11, <3>2, <4>1
    <3>. QED
      BY <3>1, <3>2
  <2>. QED
    BY <2>1
<1>14. d = q
  BY <1>10, <1>12, <1>13, SeqEqual
<1>. QED
  BY <1>4, <1>11, <1>14 DEF Yielded

LEMMA YieldMoveTold ==
    ASSUME NEW s, OK(s), Told(s), NEW r, YieldMove(s, r)
    PROVE  Told(r)
<1>1. PICK o \in LuaState : o = Own(s)
  BY OwnFacts
<1>2. PICK t \in Thread : t = TopThread(s.cs)
  BY OwnFacts
<1>3. PICK n \in Nat \ {0} : n = Len(s.cs)
  BY OwnFacts DEF YieldMove, Acts
<1>4. PICK C \in Seq(Activation) : C = s.cs
  BY OwnFacts
<1>5. /\ o = s.th[t] /\ t = C[n].t /\ C[n].k = "cfun" /\ C[n].f = "yield"
      /\ o.nCcalls <= o.baseCcalls /\ Good(s.th, C, s.mode) /\ Acts(s) /\ C # <<>>
  BY <1>1, <1>2, <1>3, <1>4, OwnFacts DEF YieldMove, Own, TopOf, OK, Acts
<1>6. PICK F, G, H : Shape(s.th, C, s.mode, F, G, H)
  BY <1>5 DEF Good
<1>7. Yields(C, n, t)
  BY <1>3, <1>4, <1>5, <1>6, YieldPlace
<1>8. PICK m \in Nat : n = m + 3 /\ n - 1 = m + 2 /\ n - 2 = m + 1
  <2>1. n > 2
    BY <1>7 DEF Yields
  <2>2. n - 3 \in Nat /\ n = (n - 3) + 3 /\ n - 1 = (n - 3) + 2 /\ n - 2 = (n - 3) + 1
    BY <2>1
  <2>. QED
    BY <2>2
<1>9. /\ C[m + 3].k = "cfun" /\ C[m + 3].t = t /\ C[m + 3].f = "yield" /\ Len(C) = m + 3
      /\ C[m + 2].k = "exec" /\ C[m + 2].t = t
      /\ IsResume(C[m + 1]) /\ IsTry(C[m + 1]) /\ C[m + 1].t = t
  BY <1>3, <1>4, <1>5, <1>7, <1>8 DEF Yields, IsResume, IsTry
<1>10. C[m + 1].previous = 0
  <2>1. m + 1 \in 1..Len(C)
    BY <1>9
  <2>2. Stacked(C, m + 1)
    BY <1>6, <2>1 DEF Shape, Measured, Placed
  <2>. QED
    BY <1>9, <2>2 DEF Stacked, IsResume, IsTry
<1>11. Acting(s, t, o)
  BY <1>1, <1>2, <1>5, ActingFacts
<1>. DEFINE l == [o EXCEPT !.status = "yield"]
<1>12. l.ci = o.ci /\ l.status = "yield"
  BY DEF LuaState
<1>13. r = Sets(s, l, SubSeq(C, 1, m + 1), "run")
  BY <1>1, <1>3, <1>4, <1>8 DEF YieldMove
<1>. HIDE DEF l
<1>14. s.th \in [Thread -> LuaState] /\ Stories(s.th, C) /\ Running(s.th[t]) = o.ci
  BY <1>4, <1>5, <1>11 DEF Told, Acting
<1>15. ASSUME NEW f, Tells(C, t, f), f[Len(C)] = Running(s.th[t])
       PROVE  /\ f[m + 1] = <<>>
              /\ Yielded(o.ci)
  <2>1. o.ci = f[Len(C)]
    BY <1>14, <1>15
  <2>. QED
    BY <1>9, <1>10, <1>15, <2>1, FramesOfYield
<1>16. Asleep(l)
  <2>1. PICK f : Tells(C, t, f) /\ f[Len(C)] = Running(s.th[t])
    BY <1>14 DEF Stories, Story, Amount
  <2>2. Yielded(o.ci)
    BY <1>15, <2>1
  <2>. QED
    BY <1>12, <2>2 DEF Asleep
<1>17. \A f : Tells(C, t, f) /\ f[Len(C)] = Running(s.th[t]) => f[m + 1] = Running(l)
  BY <1>12, <1>15 DEF Running
<1>18. m + 1 \in 0..Len(C) /\ \A j \in ((m + 1) + 1)..Len(C) : C[j].t = t
  <2>1. \A j \in ((m + 1) + 1)..(m + 3) : j = m + 2 \/ j = m + 3
    OBVIOUS
  <2>. QED
    BY <1>9, <2>1
<1>19. Stories([s.th EXCEPT ![t] = l], SubSeq(C, 1, m + 1))
  BY <1>14, <1>16, <1>17, <1>18, CutTold
<1>. QED
  BY <1>2, <1>13, <1>19, SetsTold

LEMMA EndResumeMoveTold ==
    ASSUME NEW s, OK(s), Told(s), NEW r, EndResumeMove(s, r)
    PROVE  Told(r)
<1>1. PICK o \in LuaState : o = Own(s)
  BY OwnFacts
<1>2. PICK t \in Thread : t = TopThread(s.cs)
  BY OwnFacts
<1>3. PICK C \in Seq(Activation) : C = s.cs
  BY OwnFacts
<1>4. PICK n \in Nat \ {0} : n = Len(C)
  BY <1>3, OwnFacts DEF EndResumeMove
<1>5. PICK e \in Nat : e = o.errorJmp
  BY DEF LuaState
<1>6. PICK code \in Status :
         /\ code \in {"throw", "errerr"} \/ (e = n /\ code = o.status)
         /\ r = Sets(s, [Own(s) EXCEPT !.status = code, !.nCcalls = @ - 1, !.errorJmp = 0],
                     SubSeq(C, 1, e - 1), "run")
  <2>1. \E code \in Status :
           /\ code \in {"throw", "errerr"}
                \/ (Own(s).errorJmp = Len(s.cs) /\ code = Own(s).status)
           /\ r = Sets(s, [Own(s) EXCEPT !.status = code, !.nCcalls = @ - 1, !.errorJmp = 0],
                       SubSeq(s.cs, 1, Own(s).errorJmp - 1), "run")
    BY DEF EndResumeMove
  <2>. QED
    BY <1>1, <1>3, <1>4, <1>5, <2>1
<1>7. /\ o = s.th[t] /\ t = C[n].t /\ IsResume(C[e]) /\ Good(s.th, C, s.mode)
  BY <1>1, <1>2, <1>3, <1>4, <1>5, OwnFacts DEF EndResumeMove, Own, TopOf, OK
<1>8. PICK F, G, H : Shape(s.th, C, s.mode, F, G, H)
  BY <1>7 DEF Good
<1>9. TopReady(s.th, C, s.mode, n, t, e)
  BY <1>3, <1>4, <1>5, <1>7, <1>8, OwnFacts, TopFacts
<1>10. e \in 1..n /\ C[e].t = t
  BY <1>9 DEF TopReady
<1>11. PICK k \in Nat : e = k + 1 /\ e - 1 = k
  <2>1. e - 1 \in Nat /\ e = (e - 1) + 1
    BY <1>10
  <2>. QED
    BY <2>1
<1>12. IsTry(C[e]) /\ C[e].previous = 0 /\ e \in 1..Len(C) /\ k \in 0..Len(C)
  <2>1. e \in 1..Len(C) /\ k \in 0..Len(C)
    BY <1>4, <1>10, <1>11
  <2>2. Stacked(C, e)
    BY <1>8, <2>1 DEF Shape, Measured, Placed
  <2>. QED
    BY <1>7, <2>1, <2>2 DEF Stacked, IsResume, IsTry
<1>13. \A j \in (k + 1)..Len(C) : C[j].t = t
  <2>2. \A j \in e..n : C[j].t = t
    BY <1>9 DEF TopReady
  <2>. QED
    BY <1>4, <1>11, <2>2
<1>. DEFINE l == [o EXCEPT !.status = code, !.nCcalls = @ - 1, !.errorJmp = 0]
<1>14. l.errorJmp = 0 /\ l.status = code /\ l.ci = o.ci
  BY DEF LuaState
<1>15. r = Sets(s, l, SubSeq(C, 1, k), "run")
  BY <1>1, <1>6, <1>11
<1>. HIDE DEF l
<1>16. s.th \in [Thread -> LuaState] /\ Stories(s.th, C)
  BY <1>3, OwnFacts DEF Told
<1>17. Asleep(l) /\ Running(l) = <<>>
  <2>1. Asleep(o)
    BY <1>7, <1>16 DEF Stories, Story
  <2>. QED
    BY <1>6, <1>14, <2>1 DEF Asleep, Running
<1>18. ASSUME NEW f, Tells(C, t, f), f[Len(C)] = Running(s.th[t])
       PROVE  f[k] = Running(l)
  <2>1. f[k] = <<>>
    BY <1>10, <1>11, <1>12, <1>18, TryBegan
  <2>. QED
    BY <1>17, <2>1
<1>19. Stories([s.th EXCEPT ![t] = l], SubSeq(C, 1, k))
  BY <1>12, <1>13, <1>16, <1>17, <1>18, CutTold
<1>. QED
  BY <1>2, <1>15, <1>19, SetsTold

LEMMA OtherMoveTold ==
    ASSUME NEW s, OK(s), Told(s), NEW r, OtherMove(s, r)
    PROVE  Told(r)
<1>1. PICK c \in Thread \ {MainThread}, l \in LuaState :
         /\ s.th[c].errorJmp = 0
         /\ \/ l = NewThread(TRUE)
            \/ l = [s.th[c] EXCEPT !.nCcalls = Own(s).nCcalls,
                                   !.fn = @ /\ s.th[c].status = "yield"]
         /\ r = [s EXCEPT !.th = [s.th EXCEPT ![c] = l]]
  BY DEF OtherMove
<1>2. PICK o \in LuaState : o = s.th[c]
  BY OwnFacts
<1>3. /\ l.errorJmp = 0
      /\ l.status = "ok" \/ (l.status = o.status /\ l.ci = o.ci)
  <2>1. CASE l = NewThread(TRUE)
    BY <2>1 DEF NewThread
  <2>2. CASE l = [o EXCEPT !.nCcalls = Own(s).nCcalls, !.fn = @ /\ o.status = "yield"]
    BY <1>1, <1>2, <2>2 DEF LuaState
  <2>. QED
    BY <1>1, <1>2, <2>1, <2>2
<1>4. s.th \in [Thread -> LuaState] /\ Stories(s.th, s.cs)
  BY OwnFacts DEF Told
<1>5. Asleep(l) /\ Running(l) = Running(s.th[c])
  <2>1. Asleep(o)
    BY <1>2, <1>4 DEF Stories, Story
  <2>. QED
    BY <1>1, <1>2, <1>3, <2>1 DEF Asleep, Running
<1>6. Stories([s.th EXCEPT ![c] = l], s.cs)
  BY <1>4, <1>5, SameTold
<1>7. r.th = [s.th EXCEPT ![c] = l] /\ r.cs = s.cs
  BY <1>1 DEF OK, State
<1>. QED
  BY <1>6, <1>7 DEF Told

(* Nothing is left of the stack of the main thread.                        *)
LEMMA EmptyTold ==
    ASSUME NEW T \in [Thread -> LuaState], NEW C \in Seq(Activation), Stories(T, C),
           NEW x \in Thread, \A j \in 1..Len(C) : C[j].t = x,
           NEW l, Asleep(l), Running(l) = <<>>
    PROVE  Stories([T EXCEPT ![x] = l], <<>>)
<1>1. ASSUME NEW f, Tells(C, x, f) PROVE f[0] = Running(l)
  BY <1>1 DEF Tells
<1>2. 0 \in 0..Len(C) /\ \A j \in (0 + 1)..Len(C) : C[j].t = x
  BY LenProperties
<1>3. Stories([T EXCEPT ![x] = l], SubSeq(C, 1, 0))
  BY <1>1, <1>2, CutTold
<1>4. SubSeq(C, 1, 0) \in Seq(Activation) /\ Len(SubSeq(C, 1, 0)) = 0
  BY <1>2, CutFacts
<1>5. SubSeq(C, 1, 0) = <<>>
  BY <1>4, EmptySeq
<1>. QED
  BY <1>3, <1>5

LEMMA CloseMoveTold ==
    ASSUME NEW s, OK(s), Told(s), NEW r, CloseMove(s, r)
    PROVE  Told(r)
<1>1. PICK l \in LuaState, f \in Nat :
       /\ \A j \in 1..Len(s.cs) : s.cs[j].t = MainThread
       /\ l = [Own(s) EXCEPT !.ci = <<>>, !.nCcalls = 0, !.baseCcalls = 0,
                             !.errfunc = f, !.errorJmp = 0]
       /\ r = Sets(s, [l EXCEPT !.errorJmp = 1], <<TryOf("close", MainThread, l)>>, "run")
  BY DEF CloseMove
<1>2. PICK o \in LuaState : o = Own(s)
  BY OwnFacts
<1>3. PICK C \in Seq(Activation) : C = s.cs
  BY OwnFacts
<1>4. TopThread(C) = MainThread /\ MainThread \in Thread
  <2>1. CASE C = <<>>
    BY <1>3, <2>1, OwnFacts, CallsAssumption
  <2>2. CASE C # <<>>
    <3>1. Len(C) \in 1..Len(C)
      BY <1>3, <2>2, OwnFacts
    <3>. QED
      BY <1>1, <1>3, <2>2, <3>1, OwnFacts, CallsAssumption DEF TopOf
  <2>. QED
    BY <2>1, <2>2
<1>5. o = s.th[MainThread] /\ o.status = "ok"
  BY <1>2, <1>3, <1>4 DEF OK, Good, Shape, Alive, Own
<1>6. l.ci = <<>> /\ l.errorJmp = 0 /\ l.status = "ok"
  BY <1>1, <1>2, <1>5 DEF LuaState
<1>7. PICK T \in [Thread -> LuaState] : T = s.th
  BY OwnFacts
<1>8. Asleep(l) /\ Running(l) = <<>>
  BY <1>6 DEF Asleep, Running
<1>9. Stories([T EXCEPT ![MainThread] = l], <<>>)
  BY <1>1, <1>3, <1>4, <1>7, <1>8, EmptyTold DEF Told
<1>10. PICK U \in [Thread -> LuaState] :
          /\ U = [T EXCEPT ![MainThread] = l] /\ U[MainThread] = l
          /\ \A k : [U EXCEPT ![MainThread] = k] = [T EXCEPT ![MainThread] = k]
  <2>. DEFINE U == [T EXCEPT ![MainThread] = l]
  <2>1. U \in [Thread -> LuaState] /\ U[MainThread] = l
    BY <1>4
  <2>2. \A k : [U EXCEPT ![MainThread] = k] = [T EXCEPT ![MainThread] = k]
    OBVIOUS
  <2>. HIDE DEF U
  <2>3. U = [T EXCEPT ![MainThread] = l]
    BY DEF U
  <2>. QED
    BY <2>1, <2>2, <2>3
<1>11. PICK a \in Try : /\ a = TryOf("close", MainThread, l)
                       /\ a.kind = "close" /\ a.t = MainThread
  BY <1>4, TryFacts
<1>12. PICK k : k = [l EXCEPT !.errorJmp = 1]
  OBVIOUS
<1>13. k.ci = <<>> /\ k.status = "ok"
  BY <1>6, <1>12 DEF LuaState
<1>14. Asleep(k) /\ Running(k) = <<>>
  BY <1>13 DEF Asleep, Running
<1>15. a \in Activation /\ Part(a, MainThread) = <<>>
  <2>1. a \in Activation /\ a.k = "try"
    BY DEF Activation, Try
  <2>. QED
    BY <2>1, PartFacts
<1>16. BeganWith(a, MainThread, Running(U[MainThread]))
  BY <1>8, <1>10, <1>11 DEF BeganWith
<1>17. Running(k) = Running(U[MainThread]) \o Part(a, MainThread)
  <2>1. <<>> \o <<>> = <<>>
    OBVIOUS
  <2>. QED
    BY <1>8, <1>10, <1>14, <1>15, <2>1
<1>18. Stories([U EXCEPT ![MainThread] = k], Append(<<>>, a))
  <2>1. <<>> \in Seq(Activation) /\ Stories(U, <<>>)
    BY <1>9, <1>10
  <2>. QED
    BY <1>4, <1>11, <1>14, <1>15, <1>16, <1>17, <2>1, PushTold
<1>19. Append(<<>>, a) = <<a>>
  OBVIOUS
<1>20. Stories([s.th EXCEPT ![MainThread] = k], <<a>>)
  BY <1>7, <1>10, <1>18, <1>19
<1>21. r = Sets(s, k, <<a>>, "run")
  BY <1>1, <1>11, <1>12
<1>. QED
  BY <1>3, <1>4, <1>20, <1>21, SetsTold

LEMMA ClosedMoveTold ==
    ASSUME NEW s, OK(s), Told(s), NEW r, ClosedMove(s, r)
    PROVE  Told(r)
<1>1. PICK o \in LuaState : o = Own(s)
  BY OwnFacts
<1>2. PICK t \in Thread : t = TopThread(s.cs)
  BY OwnFacts
<1>3. PICK C \in Seq(Activation) : C = s.cs
  BY OwnFacts
<1>4. PICK n \in Nat \ {0} : n = Len(C)
  BY <1>3, OwnFacts DEF ClosedMove, Acts
<1>5. /\ o = s.th[t] /\ t = C[n].t /\ IsTry(C[n]) /\ C[n].kind = "close"
      /\ o.status = "ok" /\ Good(s.th, C, s.mode)
  BY <1>1, <1>2, <1>3, <1>4, OwnFacts DEF ClosedMove, Own, TopOf, OK, Acts
<1>6. n = 1
  <2>1. PICK F, G, H : Shape(s.th, C, s.mode, F, G, H)
    BY <1>5 DEF Good
  <2>2. Stacked(C, n)
    BY <1>4, <2>1 DEF Shape, Measured, Placed
  <2>. QED
    BY <1>5, <2>2 DEF Stacked
<1>7. PICK l : l = [o EXCEPT !.errorJmp = 0]
  OBVIOUS
<1>8. l.status = "ok" /\ l.errorJmp = 0
  BY <1>5, <1>7 DEF LuaState
<1>9. Asleep(l) /\ Running(l) = <<>>
  BY <1>8 DEF Asleep, Running
<1>10. Stories([s.th EXCEPT ![t] = l], <<>>)
  <2>1. s.th \in [Thread -> LuaState] /\ Stories(s.th, C)
    BY <1>3, OwnFacts DEF Told
  <2>2. \A j \in 1..Len(C) : C[j].t = t
    BY <1>4, <1>5, <1>6
  <2>. QED
    BY <1>9, <2>1, <2>2, EmptyTold
<1>11. SubSeq(C, 1, n - 1) = <<>>
  <2>1. 0 \in 0..Len(C) /\ n - 1 = 0
    BY <1>4, <1>6
  <2>2. SubSeq(C, 1, n - 1) \in Seq(Activation) /\ Len(SubSeq(C, 1, n - 1)) = 0
    BY <2>1, CutFacts
  <2>. QED
    BY <2>2, EmptySeq
<1>12. r = Sets(s, l, <<>>, "run")
  BY <1>1, <1>3, <1>4, <1>7, <1>11 DEF ClosedMove
<1>. QED
  BY <1>2, <1>10, <1>12, SetsTold

LEMMA MoveTold ==
    ASSUME NEW s, OK(s), Told(s), NEW r, Move(s, r)
    PROVE  Told(r)
BY ModeMoveTold, SizeMoveTold, CallMoveTold, EnterMoveTold, ReenterMoveTold,
   ThroughMoveTold, LevelMoveTold, BeginMoveTold, LeaveMoveTold, PcallMoveTold,
   ResumeMoveTold, ContinueMoveTold, YieldMoveTold,
   EndResumeMoveTold, OtherMoveTold
   DEF Move

LEMMA MovesTold ==
    ASSUME NEW s, Fine(s), Told(s), NEW r, Moves(s, r)
    PROVE  Fine(r) /\ Told(r)
<1>. DEFINE I == {x \in State : Fine(x) /\ Told(x)}
<1>1. s \in I
  BY DEF Fine, OK
<1>2. Closed(I)
  <2>1. ASSUME NEW x \in I, NEW y, Move(x, y) PROVE y \in I
    <3>1. Fine(y)
      BY <2>1, MoveKeepsRoom
    <3>2. Told(y)
      BY <2>1, MoveTold DEF Fine
    <3>. QED
      BY <3>1, <3>2 DEF Fine, OK
  <2>. QED
    BY <2>1 DEF Closed
<1>3. r \in I
  BY <1>1, <1>2 DEF Moves
<1>. QED
  BY <1>3

LEMMA EndsTold ==
    ASSUME NEW s, Fine(s), Told(s), NEW r, EndsPcall(s, r)
    PROVE  Told(r)
<1>1. PICK x : EndPcallMove(s, x) /\ (r = x \/ ThroughMove(x, r))
  BY DEF EndsPcall
<1>2. OK(s) /\ OK(x) /\ Told(x)
  BY <1>1, EndPcallMoveTold, MoveKeepsRoom DEF Fine
<1>. QED
  BY <1>1, <1>2, ThroughMoveTold

-----------------------------------------------------------------------------
(* Every step keeps the stories.                                           *)
LEMMA InitTold == ASSUME Init PROVE Told(Now)
<1>1. /\ th = [t \in Thread |-> NewThread(FALSE)] /\ cstack = <<>>
      /\ Now.th = th /\ Now.cs = cstack
  BY DEF Init, Now
<1>2. ASSUME NEW t \in Thread PROVE Story(<<>>, t, th[t])
  <2>1. th[t].errorJmp = 0 /\ th[t].status = "ok"
    BY <1>1 DEF NewThread
  <2>2. Asleep(th[t]) /\ Running(th[t]) = <<>>
    BY <2>1 DEF Asleep, Running
  <2>3. PICK f : f = [i \in 0..0 |-> <<>>]
    OBVIOUS
  <2>4. PICK C : C = <<>> /\ Len(C) = 0
    OBVIOUS
  <2>5. f \in [0..0 -> Seq(Frame)] /\ f[0] = <<>>
    BY <2>3
  <2>6. \A i \in 1..0 : Follows(C, t, f, i)
    OBVIOUS
  <2>7. Tells(C, t, f)
    BY <2>4, <2>5, <2>6 DEF Tells
  <2>8. Amount(C, t, <<>>)
    BY <2>4, <2>5, <2>7 DEF Amount
  <2>. QED
    BY <2>2, <2>4, <2>8 DEF Story
<1>. QED
  BY <1>1, <1>2 DEF Told, Stories

LEMMA StepTold == ASSUME Safe, Told(Now), [Next]_vars PROVE Told(Then)
<1>1. Fine(Now) /\ OK(Now)
  BY DEF Safe, Fine
<1>2. CASE UNCHANGED vars
  <2>1. Then = Now
    BY <1>2 DEF vars, Then, Now
  <2>. QED
    BY <2>1
<1>3. CASE Next
  <2>1. \/ Moves(Now, Then) \/ EndsPcall(Now, Then) \/ CloseMove(Now, Then)
        \/ ClosedMove(Now, Then)
    BY <1>1, <1>3, NextMoves DEF Closes
  <2>. QED
    BY <1>1, <2>1, MovesTold, EndsTold, CloseMoveTold, ClosedMoveTold
<1>. QED
  BY <1>2, <1>3

(* The inductive invariant of this module.                                 *)
AllTold == Safe /\ Told(Now)

(* After any calls, errors, yields and resumptions, the frames that the    *)
(* activations of each thread account for add up to the CallInfos it has,  *)
(* each protected call began with the frames that are below it, and a      *)
(* suspended coroutine has Lua frames and its yield.                       *)
THEOREM FramesTold == Spec => []AllTold
<1>1. Init => AllTold
  BY InitSafe, InitTold DEF AllTold
<1>2. AllTold /\ [Next]_vars => AllTold'
  <2>1. SUFFICES ASSUME AllTold, [Next]_vars PROVE AllTold'
    OBVIOUS
  <2>2. Now' = Then
    BY DEF Now, Then
  <2>3. SafeThen /\ Told(Then)
    BY <2>1, StepSafe, StepTold DEF AllTold
  <2>4. SafeThen => Safe'
    BY <2>2 DEF Safe, SafeThen, Fine, OK, Room, Good, State, Held, Kept
  <2>5. Told(Now)'
    BY <2>2, <2>3 DEF Told, Stories
  <2>. QED
    BY <2>3, <2>4, <2>5 DEF AllTold
<1>. QED
  BY <1>1, <1>2, PTL DEF Spec

-----------------------------------------------------------------------------
(* The property.                                                           *)
(* What the frames on the C stack are computed by.                         *)
PartsUp(S, W, n) == S = [i \in 0..n |-> IF i = 0 THEN <<>> ELSE S[i - 1] \o W[i]]

LEMMA PartsAre ==
    ASSUME NEW n \in Nat, NEW W, NEW f, f[0] = <<>>, \A i \in 1..n : f[i] = f[i - 1] \o W[i],
           NEW S, PartsUp(S, W, n)
    PROVE  S[n] = f[n]
<1>. USE DEF PartsUp
<1>. DEFINE B == {i \in 0..n : S[i] # f[i]}
<1>1. SUFFICES ASSUME B # {} PROVE FALSE
  <2>1. n \in 0..n
    OBVIOUS
  <2>. QED
    BY <2>1
<1>2. B \in SUBSET Nat
  OBVIOUS
<1>3. PICK m \in B : \A y \in B : ~ (<<y, m>> \in OpToRel(<, Nat))
  BY <1>1, <1>2, WFMin, NatLessThanWellFounded
<1>4. \A y \in B : ~(y < m)
  BY <1>2, <1>3 DEF OpToRel
<1>5. m \in 0..n /\ S[m] # f[m]
  BY <1>3
<1>6. m # 0
  <2>1. S[0] = <<>>
    BY <1>1
  <2>. QED
    BY <1>5, <2>1
<1>7. m - 1 \in 0..n /\ m - 1 < m /\ m \in 1..n
  BY <1>5, <1>6
<1>8. S[m - 1] = f[m - 1]
  BY <1>4, <1>7
<1>9. S[m] = S[m - 1] \o W[m]
  BY <1>5, <1>6
<1>. QED
  BY <1>5, <1>7, <1>8, <1>9

(* A thread that runs or waits for another has the frames of its story.    *)
LEMMA LiveRuns ==
    ASSUME Safe, NEW t \in Thread, Live(t), th[t].status = "ok"
    PROVE  th[t].ci = Running(th[t])
<1>1. PICK C \in Seq(Activation) : C = cstack
  BY SafeFacts
<1>2. PICK F, G, H : Shape(th, C, mode, F, G, H)
  BY <1>1, SafeFacts
<1>3. PICK n \in Nat : n = Len(C)
  OBVIOUS
<1>4. CASE \E i \in 1..n : C[i].t = t
  <2>1. th[t].errorJmp # 0
    BY <1>2, <1>3, <1>4, HandlerBelow
  <2>. QED
    BY <2>1 DEF Running
<1>5. CASE ~(\E i \in 1..n : C[i].t = t)
  <2>1. t = MainThread
    <3>1. DOMAIN C = 1..n
      BY <1>3
    <3>. QED
      BY <1>1, <1>5, <3>1 DEF Live
  <2>2. n = 0
    <3>1. ASSUME n # 0 PROVE FALSE
      <4>1. 1 \in 1..n
        BY <3>1
      <4>2. Stacked(C, 1)
        BY <1>2, <1>3, <4>1 DEF Shape, Measured, Placed
      <4>3. C[1].t = MainThread
        BY <4>2 DEF Stacked
      <4>. QED
        BY <1>5, <2>1, <4>1, <4>3
    <3>. QED
      BY <3>1
  <2>3. Fits(th[t], C, mode, F, G, H) /\ F[0] = 0
    BY <1>2, <1>3, <2>1, <2>2 DEF Shape, Counted, Measured, TopThread
  <2>4. Len(th[t].ci) = 0
    BY <1>3, <2>2, <2>3 DEF Fits, At, Switching
  <2>5. th[t].ci = <<>>
    <3>1. th[t].ci \in Seq(Frame)
      BY SafeFacts DEF LuaState
    <3>. QED
      BY <2>4, <3>1, EmptySeq
  <2>. QED
    BY <2>5 DEF Running
<1>. QED
  BY <1>4, <1>5

LEMMA ToldFrames == ASSUME AllTold PROVE FramesOnCStack
<1>1. ASSUME NEW t \in Thread, th[t].status = "yield", NEW n, n = Len(th[t].ci)
      PROVE  n > 1 /\ th[t].ci = [i \in 1..n |-> IF i = n THEN "yield" ELSE "lua"]
  <2>1. Len(th[t].ci) >= 2 /\ Len(th[t].ci) \in Nat
    <3>1. PICK F, G, H : Shape(th, cstack, mode, F, G, H)
      BY SafeFacts DEF AllTold
    <3>2. th[t].ci \in Seq(Frame)
      BY SafeFacts DEF AllTold, LuaState
    <3>. QED
      BY <1>1, <3>1, <3>2 DEF Shape, Alive
  <2>2. Asleep(th[t])
    BY DEF AllTold, Told, Stories, Story, Now
  <2>. QED
    BY <1>1, <2>1, <2>2 DEF Asleep, Yielded
<1>2. SUFFICES ASSUME NEW t \in Thread
               PROVE  LET part(a) == CASE a.t = t /\ a.k = "exec" -> [j \in 1..a.n |-> "lua"]
                                       [] a.t = t /\ a.k = "cfun" -> <<a.f>>
                                       [] OTHER -> <<>>
                          F[i \in 0..Len(cstack)] == IF i = 0 THEN <<>>
                                                     ELSE F[i - 1] \o part(cstack[i])
                          n == Len(th[t].ci)
                      IN IF Live(t) /\ th[t].status = "ok" THEN th[t].ci = F[Len(cstack)]
                         ELSE th[t].status = "yield" =>
                                n > 1 /\ th[t].ci = [i \in 1..n |-> IF i = n THEN "yield" ELSE "lua"]
  BY DEF FramesOnCStack
<1>. DEFINE part(a) == CASE a.t = t /\ a.k = "exec" -> [j \in 1..a.n |-> "lua"]
                         [] a.t = t /\ a.k = "cfun" -> <<a.f>>
                         [] OTHER -> <<>>
            F == CHOOSE F : F = [i \in 0..Len(cstack) |->
                                   IF i = 0 THEN <<>> ELSE F[i - 1] \o part(cstack[i])]
<1>3. ASSUME Live(t), th[t].status = "ok"
      PROVE  th[t].ci = F[Len(cstack)]
  <2>1. PICK n \in Nat : n = Len(cstack)
    BY SafeFacts DEF AllTold
  <2>2. th[t].ci = Running(th[t])
    BY <1>3, LiveRuns DEF AllTold
  <2>3. PICK f : Tells(cstack, t, f) /\ f[n] = th[t].ci
    BY <2>1, <2>2 DEF AllTold, Told, Stories, Story, Amount, Now
  <2>4. PICK W : W = [i \in 1..n |-> Part(cstack[i], t)]
    OBVIOUS
  <2>5. ASSUME NEW i \in 1..n PROVE part(cstack[i]) = W[i]
    BY <2>4 DEF Part, Luas
  <2>. HIDE DEF part
  <2>6. f[0] = <<>> /\ \A i \in 1..n : f[i] = f[i - 1] \o W[i]
    BY <2>1, <2>3, <2>4 DEF Tells, Follows
  <2>7. f = [i \in 0..Len(cstack) |-> IF i = 0 THEN <<>> ELSE f[i - 1] \o part(cstack[i])]
    <3>1. ASSUME NEW i \in 0..n PROVE f[i] = IF i = 0 THEN <<>> ELSE f[i - 1] \o part(cstack[i])
      <4>1. i # 0 => i \in 1..n
        BY <2>1
      <4>. QED
        BY <2>5, <2>6, <4>1
    <3>2. f \in [0..n -> Seq(Frame)]
      BY <2>1, <2>3 DEF Tells
    <3>. QED
      BY <2>1, <3>1, <3>2
  <2>8. F = [i \in 0..Len(cstack) |-> IF i = 0 THEN <<>> ELSE F[i - 1] \o part(cstack[i])]
    BY <2>7
  <2>. HIDE DEF F
  <2>9. PartsUp(F, W, n)
    <3>1. \A i \in 0..n : i # 0 => W[i] = part(cstack[i])
      <4>1. \A i \in 0..n : i # 0 => i \in 1..n
        BY <2>1
      <4>. QED
        BY <2>5, <4>1
    <3>. QED
      BY <2>1, <2>8, <3>1 DEF PartsUp
  <2>10. F[n] = f[n]
    BY <2>6, <2>9, PartsAre
  <2>. QED
    BY <2>1, <2>3, <2>10
<1>. QED
  BY <1>1, <1>3

(* The CallInfos of a thread are the frames of the functions that run on   *)
(* the C stack, after errors, yields and resumptions, in every reachable   *)
(* state; and lua_yield's check for a C call boundary suffices: all that a *)
(* suspended coroutine has below its yield are Lua functions.              *)
THEOREM FramesAreOnCStack == Spec => []FramesOnCStack
BY FramesTold, ToldFrames, PTL
=============================================================================
