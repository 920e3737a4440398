----------------------- MODULE LuaCallsRefines_proofs -----------------------
(***************************************************************************)
(* LuaCalls implements LuaCoroutines, for any number of threads and any    *)
(* limits.  What a program sees of a state are the frames of each thread,  *)
(* some of them guarded by protected calls, and the line of the resumed    *)
(* threads; both depend on the handlers on the C stack only.  The stories  *)
(* of LuaCallsFrames_proofs say where these handlers are.                  *)
(***************************************************************************)
EXTENDS LuaCallsFrames_proofs

(* The frames that protected calls of t guard.                             *)
GuardAt(C, t, i, j) == C[j].t = t /\ IsPcall(C[j]) /\ C[j].old_ci = i

Guards(C, t) == {i \in Nat \ {0} : \E j \in 1..Len(C) : GuardAt(C, t, i, j)}

(* What is seen of frames q when those in S are guarded.                   *)
Look(f, i, S) ==
    IF f = "lua" THEN "lua" ELSE IF f \in Protecting /\ i \in S THEN "guard" ELSE "c"

Seen(S, q) == [i \in 1..Len(q) |-> Look(q[i], i, S)]

FramesSeen(s) == [t \in Thread |-> Seen(Guards(s.cs, t), s.th[t].ci)]

Lives(C, t) == t = MainThread \/ \E i \in 1..Len(C) : C[i].t = t /\ IsResume(C[i])

StateSeen(C, t, l) ==
    IF Lives(C, t) THEN "active"
    ELSE CASE l.status = "yield" -> "suspended"
           [] l.status = "ok" /\ l.fn -> "fresh"
           [] OTHER -> "dead"

StatesSeen(s) == [t \in Thread |-> StateSeen(s.cs, t, s.th[t])]

(* R[i]: the threads that are resumed up to i.                             *)
ResumeAt(C, i) == i \in 1..Len(C) /\ IsResume(C[i])

Lines(C, R) ==
    /\ R \in [Nat -> Seq(Thread)] /\ R[0] = <<MainThread>>
    /\ \A k \in Nat : R[k + 1] = IF ResumeAt(C, k + 1) THEN Append(R[k], C[k + 1].t) ELSE R[k]

ChainOf(C) ==
    LET F[i \in 0..Len(C)] ==
          IF i = 0 THEN <<MainThread>>
          ELSE IF C[i].k = "try" /\ C[i].kind = "resume"
               THEN Append(F[i - 1], C[i].t) ELSE F[i - 1]
    IN F[Len(C)]

-----------------------------------------------------------------------------
(* Lines.                                                                  *)
LEMMA LinesGrow ==
    ASSUME NEW C \in Seq(Activation), NEW n \in Nat,
           NEW R \in [Nat -> Seq(Thread)], R[0] = <<MainThread>>,
           \A k \in Nat : R[k + 1] = IF k < n /\ ResumeAt(C, k + 1)
                                     THEN Append(R[k], C[k + 1].t) ELSE R[k]
    PROVE  \E Q \in [Nat -> Seq(Thread)] :
              /\ Q[0] = <<MainThread>>
              /\ \A k \in Nat : Q[k + 1] = IF k < n + 1 /\ ResumeAt(C, k + 1)
                                           THEN Append(Q[k], C[k + 1].t) ELSE Q[k]
<1>1. PICK v : v = IF ResumeAt(C, n + 1) THEN Append(R[n], C[n + 1].t) ELSE R[n]
  OBVIOUS
<1>2. v \in Seq(Thread)
  <2>1. R[n] \in Seq(Thread)
    OBVIOUS
  <2>2. ResumeAt(C, n + 1) => C[n + 1].t \in Thread
    BY ActivationFacts DEF ResumeAt
  <2>. QED
    BY <1>1, <2>1, <2>2
<1>. DEFINE Q == [k \in Nat |-> IF k <= n THEN R[k] ELSE v]
<1>3. Q \in [Nat -> Seq(Thread)]
  <2>1. ASSUME NEW k \in Nat PROVE (IF k <= n THEN R[k] ELSE v) \in Seq(Thread)
    BY <1>2
  <2>. QED
    BY <2>1
<1>4. Q[0] = <<MainThread>>
  <2>1. 0 \in Nat /\ 0 <= n
    OBVIOUS
  <2>. QED
    BY <2>1
<1>5. ASSUME NEW k \in Nat
      PROVE  Q[k + 1] = IF k < n + 1 /\ ResumeAt(C, k + 1)
                        THEN Append(Q[k], C[k + 1].t) ELSE Q[k]
  <2>1. CASE k < n
    <3>1. Q[k + 1] = R[k + 1] /\ Q[k] = R[k] /\ k < n + 1
      BY <2>1
    <3>. QED
      BY <2>1, <3>1
  <2>2. CASE k = n
    <3>1. Q[k + 1] = v /\ Q[k] = R[n]
      BY <2>2
    <3>. QED
      BY <1>1, <2>2, <3>1
  <2>3. CASE k > n
    BY <2>3
  <2>. QED
    BY <2>1, <2>2, <2>3
<1>. HIDE DEF Q
<1>. QED
  BY <1>3, <1>4, <1>5

LEMMA LinesExist == ASSUME NEW C \in Seq(Activation) PROVE \E R : Lines(C, R)
<1>. DEFINE P(n) == \E R \in [Nat -> Seq(Thread)] :
                       /\ R[0] = <<MainThread>>
                       /\ \A k \in Nat : R[k + 1] = IF k < n /\ ResumeAt(C, k + 1)
                                                    THEN Append(R[k], C[k + 1].t) ELSE R[k]
            B == {n \in Nat : ~P(n)}
<1>1. P(0)
  <2>. DEFINE R == [k \in Nat |-> <<MainThread>>]
  <2>1. <<MainThread>> \in Seq(Thread)
    BY CallsAssumption
  <2>2. R \in [Nat -> Seq(Thread)]
    BY <2>1
  <2>3. R[0] = <<MainThread>> /\ \A k \in Nat : ~(k < 0) /\ R[k + 1] = R[k]
    OBVIOUS
  <2>. HIDE DEF R
  <2>. QED
    BY <2>2, <2>3
<1>2. ASSUME NEW n \in Nat, P(n) PROVE P(n + 1)
  BY <1>2, LinesGrow
<1>. HIDE DEF P
<1>3. B = {}
  <2>1. SUFFICES ASSUME B # {} PROVE FALSE
    OBVIOUS
  <2>2. PICK m \in B : \A y \in B : ~ (<<y, m>> \in OpToRel(<, Nat))
    BY <2>1, WFMin, NatLessThanWellFounded
  <2>3. \A y \in B : ~(y < m)
    BY <2>2 DEF OpToRel
  <2>4. m # 0
    BY <1>1, <2>2
  <2>5. PICK k \in Nat : m = k + 1
    <3>1. m \in Nat
      OBVIOUS
    <3>2. m - 1 \in Nat /\ m = (m - 1) + 1
      BY <2>4, <3>1
    <3>. QED
      BY <3>2
  <2>6. P(k)
    <3>1. k < m /\ k \in Nat
      BY <2>5
    <3>. QED
      BY <2>3, <3>1
  <2>. QED
    BY <1>2, <2>2, <2>5, <2>6
<1>4. P(Len(C))
  BY <1>3
<1>5. PICK R \in [Nat -> Seq(Thread)] :
         /\ R[0] = <<MainThread>>
         /\ \A k \in Nat : R[k + 1] = IF k < Len(C) /\ ResumeAt(C, k + 1)
                                      THEN Append(R[k], C[k + 1].t) ELSE R[k]
  BY <1>4 DEF P
<1>6. \A k \in Nat : ResumeAt(C, k + 1) => k < Len(C)
  BY DEF ResumeAt
<1>7. Lines(C, R)
  BY <1>5, <1>6 DEF Lines
<1>. QED
  BY <1>7

(* No thread is resumed between a and b.                                   *)
LEMMA LinesSteady ==
    ASSUME NEW C, NEW R, Lines(C, R), NEW a \in Nat, NEW b \in Nat, a <= b,
           \A i \in (a + 1)..b : ~ResumeAt(C, i)
    PROVE  R[b] = R[a]
<1>. DEFINE B == {i \in a..b : R[i] # R[a]}
<1>1. SUFFICES ASSUME B # {} PROVE FALSE
  <2>1. b \in a..b
    OBVIOUS
  <2>. QED
    BY <2>1
<1>2. B \in SUBSET Nat
  OBVIOUS
<1>3. PICK m \in B : \A y \in B : ~ (<<y, m>> \in OpToRel(<, Nat))
  BY <1>1, <1>2, WFMin, NatLessThanWellFounded
<1>4. \A y \in B : ~(y < m)
  BY <1>2, <1>3 DEF OpToRel
<1>5. m \in a..b /\ m # a
  BY <1>3
<1>6. PICK k \in Nat : m = k + 1 /\ k \in a..b
  <2>1. m - 1 \in Nat /\ m = (m - 1) + 1 /\ m - 1 \in a..b
    BY <1>5
  <2>. QED
    BY <2>1
<1>7. R[k] = R[a]
  BY <1>4, <1>6
<1>8. ~ResumeAt(C, k + 1)
  BY <1>5, <1>6
<1>9. R[k + 1] = R[k]
  BY <1>8 DEF Lines
<1>. QED
  BY <1>3, <1>6, <1>7, <1>9

(* What ChainOf is computed by.                                            *)
LinesUp(F, C) ==
    F = [i \in 0..Len(C) |->
           IF i = 0 THEN <<MainThread>>
           ELSE IF C[i].k = "try" /\ C[i].kind = "resume"
                THEN Append(F[i - 1], C[i].t) ELSE F[i - 1]]

LEMMA LinesAre ==
    ASSUME NEW C \in Seq(Activation), NEW R, Lines(C, R), NEW F, LinesUp(F, C)
    PROVE  F[Len(C)] = R[Len(C)]
<1>1. PICK n \in Nat : n = Len(C)
  OBVIOUS
<1>. DEFINE B == {i \in 0..n : F[i] # R[i]}
<1>2. SUFFICES ASSUME B # {} PROVE FALSE
  <2>1. n \in 0..n
    OBVIOUS
  <2>. QED
    BY <1>1, <2>1
<1>3. B \in SUBSET Nat
  OBVIOUS
<1>4. PICK m \in B : \A y \in B : ~ (<<y, m>> \in OpToRel(<, Nat))
  BY <1>2, <1>3, WFMin, NatLessThanWellFounded
<1>5. \A y \in B : ~(y < m)
  BY <1>3, <1>4 DEF OpToRel
<1>6. F[0] = R[0]
  <2>1. 0 \in 0..Len(C)
    BY <1>1
  <2>. QED
    BY <2>1 DEF LinesUp, Lines
<1>7. PICK k \in Nat : m = k + 1
  <2>1. m \in Nat /\ m # 0
    BY <1>3, <1>4, <1>6
  <2>2. m - 1 \in Nat /\ m = (m - 1) + 1
    BY <2>1
  <2>. QED
    BY <2>2
<1>8. m \in 0..n /\ F[m] # R[m]
  BY <1>4
<1>9. k + 1 \in 1..Len(C) /\ k + 1 \in 0..Len(C) /\ k + 1 # 0 /\ (k + 1) - 1 = k
      /\ k \in 0..n /\ k < m
  BY <1>1, <1>7, <1>8
<1>10. F[k] = R[k]
  BY <1>5, <1>9
<1>11. F[k + 1] = IF IsResume(C[k + 1]) THEN Append(F[k], C[k + 1].t) ELSE F[k]
  BY <1>9 DEF LinesUp, IsResume
<1>12. R[k + 1] = IF IsResume(C[k + 1]) THEN Append(R[k], C[k + 1].t) ELSE R[k]
  BY <1>9 DEF Lines, ResumeAt
<1>. QED
  BY <1>7, <1>8, <1>10, <1>11, <1>12

LEMMA ChainIs ==
    ASSUME NEW C \in Seq(Activation), NEW R, Lines(C, R)
    PROVE  ChainOf(C) = R[Len(C)]
<1>. DEFINE F == CHOOSE F : F = [i \in 0..Len(C) |->
                                   IF i = 0 THEN <<MainThread>>
                                   ELSE IF C[i].k = "try" /\ C[i].kind = "resume"
                                        THEN Append(F[i - 1], C[i].t) ELSE F[i - 1]]
<1>1. ChainOf(C) = F[Len(C)]
  BY DEF ChainOf
<1>2. \E Q : LinesUp(Q, C)
  <2>. DEFINE Q == [i \in 0..Len(C) |-> R[i]]
  <2>1. ASSUME NEW i \in 0..Len(C)
        PROVE  Q[i] = IF i = 0 THEN <<MainThread>>
                      ELSE IF C[i].k = "try" /\ C[i].kind = "resume"
                           THEN Append(Q[i - 1], C[i].t) ELSE Q[i - 1]
    <3>1. CASE i = 0
      BY <3>1 DEF Lines
    <3>2. CASE i # 0
      <4>1. PICK k \in Nat : i = k + 1
        <5>1. i - 1 \in Nat /\ i = (i - 1) + 1
          BY <3>2
        <5>. QED
          BY <5>1
      <4>2. i - 1 = k /\ k \in 0..Len(C) /\ k + 1 \in 1..Len(C)
        BY <4>1
      <4>3. R[k + 1] = IF IsResume(C[k + 1]) THEN Append(R[k], C[k + 1].t) ELSE R[k]
        BY <4>2 DEF Lines, ResumeAt
      <4>. QED
        BY <3>2, <4>1, <4>2, <4>3 DEF IsResume
    <3>. QED
      BY <3>1, <3>2
  <2>2. LinesUp(Q, C)
    BY <2>1 DEF LinesUp
  <2>. QED
    BY <2>2
<1>3. LinesUp(F, C)
  BY <1>2 DEF LinesUp
<1>. QED
  BY <1>1, <1>3, LinesAre

-----------------------------------------------------------------------------
(* Frames as they are seen.                                                *)
Sight == {"lua", "c", "guard"}

LEMMA SeenFacts ==
    ASSUME NEW q \in Seq(Frame), NEW S
    PROVE  /\ Seen(S, q) \in Seq(Sight) /\ Len(Seen(S, q)) = Len(q) /\ Len(q) \in Nat
           /\ \A i \in 1..Len(q) : Seen(S, q)[i] = Look(q[i], i, S)
<1>1. ASSUME NEW i \in 1..Len(q) PROVE Look(q[i], i, S) \in Sight
  BY DEF Look, Sight
<1>2. PICK n \in Nat : n = Len(q)
  OBVIOUS
<1>3. Seen(S, q) = [i \in 1..n |-> Look(q[i], i, S)]
  BY <1>2 DEF Seen
<1>4. Seen(S, q) \in [1..n -> Sight]
  BY <1>1, <1>2, <1>3
<1>5. Seen(S, q) \in Seq(Sight) /\ Len(Seen(S, q)) = n
  BY <1>4
<1>. QED
  BY <1>2, <1>3, <1>5

LEMMA SeenIs ==
    ASSUME NEW q \in Seq(Frame), NEW S, NEW x \in Seq(Sight), Len(x) = Len(q),
           \A i \in 1..Len(q) : x[i] = Look(q[i], i, S)
    PROVE  Seen(S, q) = x
<1>1. \A i \in 1..Len(x) : Seen(S, q)[i] = x[i]
  BY SeenFacts
<1>2. Seen(S, q) \in Seq(Sight) /\ Len(Seen(S, q)) = Len(x)
  BY SeenFacts
<1>. HIDE DEF Seen
<1>. QED
  BY <1>1, <1>2, SeqEqual

(* One more frame.                                                         *)
LEMMA SeenMore ==
    ASSUME NEW q \in Seq(Frame), NEW f \in Frame, NEW S, Len(q) + 1 \notin S
    PROVE  Seen(S, Append(q, f)) \in Co!Enter(Seen(S, q))
<1>1. PICK x \in Seq(Sight) : x = Seen(S, q)
  BY SeenFacts
<1>2. /\ Len(x) = Len(q) /\ Len(q) \in Nat
      /\ \A i \in 1..Len(q) : x[i] = Look(q[i], i, S)
  BY <1>1, SeenFacts
<1>3. PICK g \in {"lua", "c"} : g = Look(f, Len(q) + 1, S)
  BY DEF Look
<1>4. Append(x, g) \in Seq(Sight) /\ Len(Append(x, g)) = Len(q) + 1
  BY <1>2, <1>3 DEF Sight
<1>5. Append(q, f) \in Seq(Frame) /\ Len(Append(q, f)) = Len(q) + 1
  OBVIOUS
<1>6. ASSUME NEW i \in 1..(Len(q) + 1)
      PROVE  Append(x, g)[i] = Look(Append(q, f)[i], i, S)
  <2>1. CASE i = Len(q) + 1
    BY <1>2, <1>3, <2>1
  <2>2. CASE i \in 1..Len(q)
    BY <1>2, <1>3, <2>2
  <2>. QED
    BY <1>2, <2>1, <2>2
<1>7. Seen(S, Append(q, f)) = Append(x, g)
  BY <1>4, <1>5, <1>6, SeenIs
<1>. QED
  BY <1>1, <1>3, <1>7 DEF Co!Enter

LEMMA SameEnter == ASSUME NEW x PROVE x \in Co!Enter(x)
BY DEF Co!Enter

(* The length of a sequence that is not empty.                             *)
LEMMA Positive ==
    ASSUME NEW Z, NEW q \in Seq(Z), q # <<>>
    PROVE  \E k \in Nat : Len(q) = k + 1
<1>1. Len(q) \in Nat /\ Len(q) # 0
  BY EmptySeq
<1>2. Len(q) - 1 \in Nat /\ Len(q) = (Len(q) - 1) + 1
  BY <1>1
<1>. QED
  BY <1>2

(* One frame less.                                                         *)
LEMMA SeenLess ==
    ASSUME NEW q \in Seq(Frame), q # <<>>, NEW S
    PROVE  Seen(S, SubSeq(q, 1, Len(q) - 1)) \in Co!Leave(Seen(S, q))
<1>1. PICK x \in Seq(Sight) : x = Seen(S, q)
  BY SeenFacts
<1>2. /\ Len(x) = Len(q) /\ Len(q) \in Nat
      /\ \A i \in 1..Len(q) : x[i] = Look(q[i], i, S)
  BY <1>1, SeenFacts
<1>3. PICK k \in Nat : Len(q) = k + 1
  BY <1>2, Positive
<1>4. /\ SubSeq(q, 1, k) \in Seq(Frame) /\ Len(SubSeq(q, 1, k)) = k
      /\ \A i \in 1..k : SubSeq(q, 1, k)[i] = q[i]
  BY <1>3, CutFacts
<1>5. /\ SubSeq(x, 1, k) \in Seq(Sight) /\ Len(SubSeq(x, 1, k)) = k
      /\ \A i \in 1..k : SubSeq(x, 1, k)[i] = x[i]
  BY <1>2, <1>3, CutFacts
<1>6. ASSUME NEW i \in 1..Len(SubSeq(q, 1, k))
      PROVE  SubSeq(x, 1, k)[i] = Look(SubSeq(q, 1, k)[i], i, S)
  <2>1. i \in 1..k /\ i \in 1..Len(q)
    BY <1>3, <1>4
  <2>. QED
    BY <1>2, <1>4, <1>5, <2>1
<1>7. Seen(S, SubSeq(q, 1, k)) = SubSeq(x, 1, k)
  BY <1>4, <1>5, <1>6, SeenIs
<1>8. Len(q) - 1 = k /\ Len(x) - 1 = k /\ x # <<>>
  BY <1>2, <1>3
<1>. QED
  BY <1>1, <1>7, <1>8 DEF Co!Leave, Co!Below

(* Some of the last frames go away, and the one on top is seen anew.       *)
LEMMA SeenCut ==
    ASSUME NEW q \in Seq(Frame), NEW k \in Nat, k + 1 <= Len(q), NEW S, NEW Z,
           \A i \in 1..k : i \in S <=> i \in Z
    PROVE  Seen(Z, SubSeq(q, 1, k + 1)) =
              Append(SubSeq(Seen(S, q), 1, k), Look(q[k + 1], k + 1, Z))
<1>1. PICK x \in Seq(Sight) : x = Seen(S, q)
  BY SeenFacts
<1>2. /\ Len(x) = Len(q) /\ Len(q) \in Nat
      /\ \A i \in 1..Len(q) : x[i] = Look(q[i], i, S)
  BY <1>1, SeenFacts
<1>. k + 1 \in 0..Len(q) /\ k \in 0..Len(x)
  BY <1>2
<1>3. PICK p \in Seq(Frame) : p = SubSeq(q, 1, k + 1)
  BY CutFacts
<1>4. Len(p) = k + 1 /\ \A i \in 1..(k + 1) : p[i] = q[i]
  BY <1>3, CutFacts
<1>5. PICK y \in Seq(Sight) : y = SubSeq(x, 1, k)
  BY <1>2, CutFacts
<1>6. Len(y) = k /\ \A i \in 1..k : y[i] = x[i]
  BY <1>2, <1>5, CutFacts
<1>7. PICK g \in Sight : g = Look(q[k + 1], k + 1, Z)
  BY DEF Look, Sight
<1>8. /\ Append(y, g) \in Seq(Sight) /\ Len(Append(y, g)) = k + 1
      /\ Append(y, g)[k + 1] = g /\ \A i \in 1..k : Append(y, g)[i] = y[i]
  BY <1>6
<1>9. ASSUME NEW i \in 1..Len(p) PROVE Append(y, g)[i] = Look(p[i], i, Z)
  <2>1. CASE i = k + 1
    BY <1>4, <1>7, <1>8, <2>1
  <2>2. CASE i \in 1..k
    <3>1. Append(y, g)[i] = Look(q[i], i, S)
      BY <1>2, <1>6, <1>8, <2>2
    <3>2. Look(q[i], i, S) = Look(q[i], i, Z)
      BY <2>2 DEF Look
    <3>3. p[i] = q[i]
      BY <1>4
    <3>. QED
      BY <3>1, <3>2, <3>3
  <2>3. i = k + 1 \/ i \in 1..k
    BY <1>4
  <2>. QED
    BY <2>1, <2>2, <2>3
<1>10. Seen(Z, p) = Append(y, g)
  BY <1>4, <1>8, <1>9, SeenIs
<1>. QED
  BY <1>1, <1>3, <1>5, <1>7, <1>10

(* The same frames, of which the one on top is seen anew.                  *)
LEMMA SeenTop ==
    ASSUME NEW q \in Seq(Frame), NEW k \in Nat, k + 1 = Len(q), NEW S, NEW Z,
           \A i \in 1..k : i \in S <=> i \in Z
    PROVE  /\ Seen(Z, q) = Append(Co!Below(Seen(S, q)), Look(q[k + 1], k + 1, Z))
           /\ \A c : Co!Ends(Seen(S, q), c) <=> c = Look(q[k + 1], k + 1, S)
<1>1. SubSeq(q, 1, k + 1) = q
  <2>1. SubSeq(q, 1, k + 1) \in Seq(Frame) /\ Len(SubSeq(q, 1, k + 1)) = Len(q)
        /\ \A i \in 1..Len(SubSeq(q, 1, k + 1)) : SubSeq(q, 1, k + 1)[i] = q[i]
    BY CutFacts
  <2>. QED
    BY <2>1, SeqEqual
<1>2. /\ Len(Seen(S, q)) = k + 1 /\ Seen(S, q)[k + 1] = Look(q[k + 1], k + 1, S)
      /\ Seen(S, q) \in Seq(Sight)
  <2>1. k + 1 \in 1..Len(q)
    OBVIOUS
  <2>. QED
    BY <2>1, SeenFacts
<1>3. Seen(S, q) # <<>> /\ Len(Seen(S, q)) - 1 = k
  BY <1>2
<1>4. Seen(Z, q) = Append(SubSeq(Seen(S, q), 1, k), Look(q[k + 1], k + 1, Z))
  <2>1. k + 1 <= Len(q)
    OBVIOUS
  <2>. QED
    BY <1>1, <2>1, SeenCut
<1>5. Seen(Z, q) = Append(Co!Below(Seen(S, q)), Look(q[k + 1], k + 1, Z))
  BY <1>3, <1>4 DEF Co!Below
<1>6. \A c : Co!Ends(Seen(S, q), c) <=> c = Look(q[k + 1], k + 1, S)
  BY <1>2, <1>3 DEF Co!Ends
<1>. QED
  BY <1>5, <1>6

(* A protected call of the function on top begins, and calls on.           *)
LEMMA SeenProtected ==
    ASSUME NEW q \in Seq(Frame), NEW n, n = Len(q), n # 0, q[n] \in Protecting, NEW S, n \notin S,
           NEW x \in Co!Enter(Seen(S \cup {n}, q))
    PROVE  x \in Co!Protect(Seen(S, q))
<1>1. PICK k \in Nat : n = k + 1
  <2>1. n - 1 \in Nat /\ n = (n - 1) + 1
    OBVIOUS
  <2>. QED
    BY <2>1
<1>2. Look(q[k + 1], k + 1, S) = "c" /\ Look(q[k + 1], k + 1, S \cup {n}) = "guard"
  BY <1>1 DEF Look, Protecting
<1>3. \A i \in 1..k : i \in S <=> i \in S \cup {n}
  BY <1>1
<1>4. /\ Seen(S \cup {n}, q) = Append(Co!Below(Seen(S, q)), Look(q[k + 1], k + 1, S \cup {n}))
      /\ \A c : Co!Ends(Seen(S, q), c) <=> c = Look(q[k + 1], k + 1, S)
  <2>1. k + 1 = Len(q)
    BY <1>1
  <2>. QED
    BY <1>3, <2>1, SeenTop
<1>5. /\ Seen(S \cup {n}, q) = Append(Co!Below(Seen(S, q)), "guard")
      /\ Co!Ends(Seen(S, q), "c")
  BY <1>2, <1>4
<1>. QED
  BY <1>5 DEF Co!Protect

(* It returns.                                                             *)
LEMMA SeenReturned ==
    ASSUME NEW q \in Seq(Frame), NEW n, n = Len(q), n # 0, q[n] \in Protecting,
           NEW S, n \in S, NEW Z, \A i : i \in Z <=> i \in S /\ i # n
    PROVE  Seen(Z, q) \in Co!EndProtect(Seen(S, q))
<1>1. PICK k \in Nat : n = k + 1
  <2>1. n - 1 \in Nat /\ n = (n - 1) + 1
    OBVIOUS
  <2>. QED
    BY <2>1
<1>2. Look(q[k + 1], k + 1, S) = "guard" /\ Look(q[k + 1], k + 1, Z) = "c"
  BY <1>1 DEF Look, Protecting
<1>3. \A i \in 1..k : i \in S <=> i \in Z
  BY <1>1
<1>4. /\ Seen(Z, q) = Append(Co!Below(Seen(S, q)), Look(q[k + 1], k + 1, Z))
      /\ \A c : Co!Ends(Seen(S, q), c) <=> c = Look(q[k + 1], k + 1, S)
  <2>1. k + 1 = Len(q)
    BY <1>1
  <2>. QED
    BY <1>3, <2>1, SeenTop
<1>5. /\ Seen(Z, q) = Append(Co!Below(Seen(S, q)), "c")
      /\ Co!Ends(Seen(S, q), "guard")
  BY <1>2, <1>4
<1>. QED
  BY <1>5 DEF Co!EndProtect

(* Nothing is guarded above n.                                             *)
LEMMA SeenUnprotected ==
    ASSUME NEW q \in Seq(Frame), NEW S, NEW n \in 0..Len(q), \A i \in S : i <= n
    PROVE  Co!Unprotected(SubSeq(Seen(S, q), n + 1, Len(Seen(S, q))))
<1>1. PICK x \in Seq(Sight) : x = Seen(S, q)
  BY SeenFacts
<1>2. /\ Len(x) = Len(q) /\ Len(q) \in Nat
      /\ \A i \in 1..Len(q) : x[i] = Look(q[i], i, S)
  BY <1>1, SeenFacts
<1>3. PICK y : y = SubSeq(x, n + 1, Len(x))
  OBVIOUS
<1>4. DOMAIN y = 1..(Len(x) - n) /\ \A i \in 1..(Len(x) - n) : y[i] = x[n + i]
  <2>1. /\ n + 1 \in 1..(Len(x) + 1) /\ Len(x) \in (n + 1 - 1)..Len(x)
    BY <1>2
  <2>2. y = [i \in 1..(Len(x) - n) |-> x[n + i]]
    BY <1>2, <1>3
  <2>. QED
    BY <2>2
<1>5. ASSUME NEW i \in DOMAIN y PROVE y[i] # "guard"
  <2>1. n + i \in 1..Len(q) /\ y[i] = x[n + i] /\ ~(n + i <= n)
    BY <1>2, <1>4
  <2>2. x[n + i] = Look(q[n + i], n + i, S) /\ n + i \notin S
    BY <1>2, <2>1
  <2>. QED
    BY <2>1, <2>2 DEF Look
<1>. QED
  BY <1>1, <1>3, <1>5 DEF Co!Unprotected

(* An error gets to it.                                                    *)
LEMMA SeenCaught ==
    ASSUME NEW q \in Seq(Frame), NEW n \in 1..Len(q), q[n] \in Protecting,
           NEW S, n \in S, \A i \in S : i <= n, NEW Z, \A i : i \in Z <=> i \in S /\ i # n
    PROVE  Seen(Z, SubSeq(q, 1, n)) \in Co!Catch(Seen(S, q))
<1>1. PICK k \in Nat : n = k + 1
  <2>1. n - 1 \in Nat /\ n = (n - 1) + 1
    OBVIOUS
  <2>. QED
    BY <2>1
<1>2. Look(q[k + 1], k + 1, S) = "guard" /\ Look(q[k + 1], k + 1, Z) = "c"
  BY <1>1 DEF Look, Protecting
<1>3. \A i \in 1..k : i \in S <=> i \in Z
  BY <1>1
<1>4. Seen(Z, SubSeq(q, 1, n)) = Append(SubSeq(Seen(S, q), 1, n - 1), "c")
  <2>1. k + 1 <= Len(q) /\ n - 1 = k
    BY <1>1
  <2>2. q \in Seq(Frame) /\ k \in Nat /\ k + 1 <= Len(q)
    BY <2>1
  <2>3. Seen(Z, SubSeq(q, 1, k + 1)) =
           Append(SubSeq(Seen(S, q), 1, k), Look(q[k + 1], k + 1, Z))
    BY ONLY <2>2, <1>3, SeenCut
  <2>. QED
    BY <1>1, <1>2, <2>1, <2>3
<1>5. n \in DOMAIN Seen(S, q) /\ Seen(S, q)[n] = "guard"
  <2>1. DOMAIN Seen(S, q) = 1..Len(q) /\ Seen(S, q)[n] = Look(q[n], n, S)
    BY SeenFacts DEF Seen
  <2>2. Look(q[n], n, S) = "guard"
    BY DEF Look, Protecting
  <2>. QED
    BY <2>1, <2>2
<1>6. Co!Unprotected(SubSeq(Seen(S, q), n + 1, Len(Seen(S, q))))
  <2>1. n \in 0..Len(q)
    OBVIOUS
  <2>. QED
    BY Zenon, <2>1, SeenUnprotected
<1>. QED
  BY <1>4, <1>5, <1>6 DEF Co!Catch

-----------------------------------------------------------------------------
(* The handlers that can be seen: of coroutines, and of the protected      *)
(* calls that a function has made.                                         *)
Mark(a) == IsResume(a) \/ (IsPcall(a) /\ a.old_ci # 0)

Marked(C, j) == j \in 1..Len(C) /\ Mark(C[j])

SameMarks(C, D) ==
    \A j \in Nat : (Marked(C, j) <=> Marked(D, j)) /\ (Marked(C, j) => D[j] = C[j])

LEMMA MarksKept == ASSUME NEW C PROVE SameMarks(C, C)
BY DEF SameMarks

LEMMA MarksChain ==
    ASSUME NEW C, NEW D, NEW E, SameMarks(C, D), SameMarks(D, E)
    PROVE  SameMarks(C, E)
BY DEF SameMarks

LEMMA MarksMore ==
    ASSUME NEW C \in Seq(Activation), NEW a \in Activation, ~Mark(a)
    PROVE  SameMarks(C, Append(C, a))
<1>1. PICK n \in Nat : n = Len(C)
  OBVIOUS
<1>2. Len(Append(C, a)) = n + 1 /\ Append(C, a)[n + 1] = a
      /\ \A i \in 1..n : Append(C, a)[i] = C[i]
  BY <1>1, AppendFacts
<1>3. ASSUME NEW j \in Nat
      PROVE  /\ Marked(C, j) <=> Marked(Append(C, a), j)
             /\ Marked(C, j) => Append(C, a)[j] = C[j]
  <2>1. CASE j \in 1..n
    BY <1>1, <1>2, <2>1 DEF Marked
  <2>2. CASE j = n + 1
    BY <1>1, <1>2, <2>2 DEF Marked
  <2>3. CASE ~(j \in 1..n) /\ ~(j = n + 1)
    <3>1. j \notin 1..Len(C) /\ j \notin 1..Len(Append(C, a))
      BY <1>1, <1>2, <2>3
    <3>. QED
      BY <3>1 DEF Marked
  <2>. QED
    BY <2>1, <2>2, <2>3
<1>. QED
  BY <1>3 DEF SameMarks

LEMMA MarksLess ==
    ASSUME NEW C \in Seq(Activation), NEW k \in 0..Len(C),
           \A j \in (k + 1)..Len(C) : ~Mark(C[j])
    PROVE  SameMarks(C, SubSeq(C, 1, k))
<1>1. PICK D \in Seq(Activation) : D = SubSeq(C, 1, k)
  BY CutFacts
<1>2. Len(D) = k /\ (\A i \in 1..k : D[i] = C[i]) /\ Len(C) \in Nat
  BY <1>1, CutFacts
<1>3. ASSUME NEW j \in Nat
      PROVE  (Marked(C, j) <=> Marked(D, j)) /\ (Marked(C, j) => D[j] = C[j])
  <2>1. CASE j \in 1..k
    <3>1. j \in 1..Len(C) /\ j \in 1..Len(D)
      BY <1>2, <2>1
    <3>. QED
      BY <1>2, <2>1, <3>1 DEF Marked
  <2>2. CASE ~(j \in 1..k)
    <3>1. j \notin 1..Len(D) /\ (j \in 1..Len(C) => j \in (k + 1)..Len(C))
      BY <1>2, <2>2
    <3>. QED
      BY <3>1 DEF Marked
  <2>. QED
    BY <2>1, <2>2
<1>. QED
  BY <1>1, <1>3 DEF SameMarks

LEMMA MarksTop ==
    ASSUME NEW C \in Seq(Activation), C # <<>>, ~Mark(C[Len(C)]),
           NEW b \in Activation, ~Mark(b)
    PROVE  SameMarks(C, [C EXCEPT ![Len(C)] = b])
<1>1. PICK n \in Nat \ {0} : n = Len(C)
  BY EmptySeq
<1>2. PICK D : D = [C EXCEPT ![n] = b]
  OBVIOUS
<1>3. Len(D) = n /\ D[n] = b /\ \A i \in 1..(n - 1) : D[i] = C[i]
  BY <1>1, <1>2, ExceptFacts
<1>4. ASSUME NEW j \in Nat
      PROVE  (Marked(C, j) <=> Marked(D, j)) /\ (Marked(C, j) => D[j] = C[j])
  <2>1. CASE j = n
    BY <1>1, <1>3, <2>1 DEF Marked
  <2>2. CASE j # n
    <3>1. j \in 1..n => D[j] = C[j]
      BY <1>1, <1>3, <2>2
    <3>. QED
      BY <1>1, <1>3, <3>1 DEF Marked
  <2>. QED
    BY <2>1, <2>2
<1>. QED
  BY <1>1, <1>2, <1>4 DEF SameMarks

LEMMA MarksGuards ==
    ASSUME NEW C \in Seq(Activation), NEW D \in Seq(Activation), SameMarks(C, D), NEW t
    PROVE  Guards(C, t) = Guards(D, t) /\ (Lives(C, t) <=> Lives(D, t))
<1>1. ASSUME NEW i \in Nat \ {0}
      PROVE  (\E j \in 1..Len(C) : GuardAt(C, t, i, j)) <=> (\E j \in 1..Len(D) : GuardAt(D, t, i, j))
  <2>1. ASSUME NEW j \in 1..Len(C), GuardAt(C, t, i, j)
        PROVE  j \in 1..Len(D) /\ GuardAt(D, t, i, j)
    <3>1. Marked(C, j) /\ j \in Nat
      BY <2>1 DEF Marked, Mark, GuardAt
    <3>2. Marked(D, j) /\ D[j] = C[j]
      BY <3>1 DEF SameMarks
    <3>. QED
      BY <2>1, <3>2 DEF Marked, GuardAt
  <2>2. ASSUME NEW j \in 1..Len(D), GuardAt(D, t, i, j)
        PROVE  j \in 1..Len(C) /\ GuardAt(C, t, i, j)
    <3>1. Marked(D, j) /\ j \in Nat
      BY <2>2 DEF Marked, Mark, GuardAt
    <3>2. Marked(C, j) /\ D[j] = C[j]
      BY <3>1 DEF SameMarks
    <3>. QED
      BY <2>2, <3>2 DEF Marked, GuardAt
  <2>. QED
    BY <2>1, <2>2
<1>2. ASSUME NEW j \in 1..Len(C), C[j].t = t, IsResume(C[j])
      PROVE  j \in 1..Len(D) /\ D[j].t = t /\ IsResume(D[j])
  <2>1. Marked(C, j) /\ j \in Nat
    BY <1>2 DEF Marked, Mark
  <2>2. Marked(D, j) /\ D[j] = C[j]
    BY <2>1 DEF SameMarks
  <2>. QED
    BY <1>2, <2>2 DEF Marked
<1>3. ASSUME NEW j \in 1..Len(D), D[j].t = t, IsResume(D[j])
      PROVE  j \in 1..Len(C) /\ C[j].t = t /\ IsResume(C[j])
  <2>1. Marked(D, j) /\ j \in Nat
    BY <1>3 DEF Marked, Mark
  <2>2. Marked(C, j) /\ D[j] = C[j]
    BY <2>1 DEF SameMarks
  <2>. QED
    BY <1>3, <2>2 DEF Marked
<1>. QED
  BY <1>1, <1>2, <1>3 DEF Guards, Lives

(* A line serves every stack with the same handlers of coroutines.         *)
LEMMA LinesSame ==
    ASSUME NEW C, NEW D, NEW R, Lines(C, R),
           \A j \in Nat : (ResumeAt(C, j) <=> ResumeAt(D, j)) /\ (ResumeAt(C, j) => D[j].t = C[j].t)
    PROVE  Lines(D, R)
<1>1. ASSUME NEW k \in Nat
      PROVE  R[k + 1] = IF ResumeAt(D, k + 1) THEN Append(R[k], D[k + 1].t) ELSE R[k]
  <2>1. k + 1 \in Nat
    OBVIOUS
  <2>. QED
    BY <2>1 DEF Lines
<1>. QED
  BY <1>1 DEF Lines

(* A line is steady above the last of them.                                *)
LEMMA LinesAbove ==
    ASSUME NEW C \in Seq(Activation), NEW R, Lines(C, R), NEW n \in Nat, n >= Len(C)
    PROVE  R[n] = ChainOf(C)
<1>1. \A i \in (Len(C) + 1)..n : ~ResumeAt(C, i)
  BY DEF ResumeAt
<1>2. R[n] = R[Len(C)]
  BY <1>1, LinesSteady
<1>. QED
  BY <1>2, ChainIs

LEMMA ChainSame ==
    ASSUME NEW C \in Seq(Activation), NEW D \in Seq(Activation),
           \A j \in Nat : (ResumeAt(C, j) <=> ResumeAt(D, j)) /\ (ResumeAt(C, j) => D[j].t = C[j].t)
    PROVE  ChainOf(C) = ChainOf(D)
<1>1. PICK R : Lines(C, R)
  BY LinesExist
<1>2. Lines(D, R)
  BY <1>1, LinesSame
<1>3. PICK n \in Nat : n = Len(C) + Len(D) /\ n >= Len(C) /\ n >= Len(D)
  <2>1. Len(C) \in Nat /\ Len(D) \in Nat
    OBVIOUS
  <2>. QED
    BY <2>1
<1>. QED
  BY <1>1, <1>2, <1>3, LinesAbove

LEMMA MarksChainOf ==
    ASSUME NEW C \in Seq(Activation), NEW D \in Seq(Activation), SameMarks(C, D)
    PROVE  ChainOf(C) = ChainOf(D)
<1>1. ASSUME NEW j \in Nat
      PROVE  (ResumeAt(C, j) <=> ResumeAt(D, j)) /\ (ResumeAt(C, j) => D[j].t = C[j].t)
  <2>1. /\ ResumeAt(C, j) => Marked(C, j)
        /\ ResumeAt(D, j) => Marked(D, j)
    BY DEF ResumeAt, Marked, Mark
  <2>2. (Marked(C, j) <=> Marked(D, j)) /\ (Marked(C, j) => D[j] = C[j])
    BY DEF SameMarks
  <2>. QED
    BY <2>1, <2>2 DEF ResumeAt, Marked
<1>. QED
  BY <1>1, ChainSame

(* One more thread is resumed.                                             *)
LEMMA ChainMore ==
    ASSUME NEW C \in Seq(Activation), NEW a \in Activation, IsResume(a)
    PROVE  ChainOf(Append(C, a)) = Append(ChainOf(C), a.t) /\ ChainOf(C) \in Seq(Thread)
<1>1. PICK R : Lines(C, R)
  BY LinesExist
<1>2. PICK n \in Nat : n = Len(C)
  OBVIOUS
<1>3. PICK D \in Seq(Activation) : D = Append(C, a)
  BY AppendFacts
<1>4. Len(D) = n + 1 /\ D[n + 1] = a /\ \A i \in 1..n : D[i] = C[i]
  BY <1>2, <1>3, AppendFacts
<1>5. PICK v : v = Append(R[n], a.t)
  OBVIOUS
<1>6. R \in [Nat -> Seq(Thread)] /\ R[n] \in Seq(Thread) /\ v \in Seq(Thread)
  <2>1. R \in [Nat -> Seq(Thread)] /\ R[n] \in Seq(Thread)
    BY <1>1 DEF Lines
  <2>. QED
    BY <1>5, <2>1, ActivationFacts
<1>. DEFINE Q == [k \in Nat |-> IF k <= n THEN R[k] ELSE v]
<1>7. Q \in [Nat -> Seq(Thread)]
  <2>1. ASSUME NEW k \in Nat PROVE (IF k <= n THEN R[k] ELSE v) \in Seq(Thread)
    BY <1>6
  <2>. QED
    BY <2>1
<1>8. Q[0] = <<MainThread>>
  <2>1. 0 \in Nat /\ 0 <= n
    OBVIOUS
  <2>. QED
    BY <1>1, <2>1 DEF Lines
<1>9. ASSUME NEW k \in Nat
      PROVE  Q[k + 1] = IF ResumeAt(D, k + 1) THEN Append(Q[k], D[k + 1].t) ELSE Q[k]
  <2>1. CASE k < n
    <3>1. Q[k + 1] = R[k + 1] /\ Q[k] = R[k] /\ k + 1 \in 1..n
      BY <2>1
    <3>2. R[k + 1] = IF ResumeAt(C, k + 1) THEN Append(R[k], C[k + 1].t) ELSE R[k]
      BY <1>1 DEF Lines
    <3>3. ResumeAt(C, k + 1) <=> ResumeAt(D, k + 1)
      BY <1>2, <1>4, <3>1 DEF ResumeAt
    <3>. QED
      BY <1>4, <3>1, <3>2, <3>3
  <2>2. CASE k = n
    <3>1. Q[k + 1] = v /\ Q[k] = R[n]
      BY <2>2
    <3>2. ResumeAt(D, k + 1) /\ D[k + 1].t = a.t
      BY <1>4, <2>2 DEF ResumeAt
    <3>. QED
      BY <1>5, <3>1, <3>2
  <2>3. CASE k > n
    <3>1. Q[k + 1] = v /\ Q[k] = v
      BY <2>3
    <3>2. ~ResumeAt(D, k + 1)
      BY <1>4, <2>3 DEF ResumeAt
    <3>. QED
      BY <3>1, <3>2
  <2>. QED
    BY <2>1, <2>2, <2>3
<1>10. Q[n + 1] = v
  BY DEF Q
<1>. HIDE DEF Q
<1>11. Lines(D, Q)
  BY <1>7, <1>8, <1>9 DEF Lines
<1>12. ChainOf(D) = Q[n + 1] /\ ChainOf(C) = R[n]
  BY <1>1, <1>2, <1>4, <1>11, ChainIs
<1>. QED
  BY <1>3, <1>5, <1>6, <1>10, <1>12

(* The thread that was resumed last comes back.                            *)
LEMMA ChainLess ==
    ASSUME NEW C \in Seq(Activation), NEW k \in Nat, k + 1 \in 1..Len(C), IsResume(C[k + 1]),
           \A j \in (k + 2)..Len(C) : ~IsResume(C[j])
    PROVE  ChainOf(SubSeq(C, 1, k)) = Co!Below(ChainOf(C))
<1>1. k \in 0..Len(C) /\ Len(C) \in Nat
  OBVIOUS
<1>2. PICK D \in Seq(Activation) : D = SubSeq(C, 1, k)
  BY <1>1, CutFacts
<1>3. Len(D) = k /\ \A i \in 1..k : D[i] = C[i]
  BY <1>1, <1>2, CutFacts
<1>4. PICK a \in Activation : a = C[k + 1]
  OBVIOUS
<1>5. PICK E \in Seq(Activation) : E = Append(D, a)
  BY AppendFacts
<1>6. Len(E) = k + 1 /\ E[k + 1] = C[k + 1] /\ \A i \in 1..k : E[i] = C[i]
  BY <1>3, <1>4, <1>5, AppendFacts
<1>7. ASSUME NEW j \in Nat
      PROVE  (ResumeAt(C, j) <=> ResumeAt(E, j)) /\ (ResumeAt(C, j) => E[j].t = C[j].t)
  <2>1. CASE j \in 1..(k + 1)
    <3>1. E[j] = C[j]
      <4>1. j \in 1..k \/ j = k + 1
        BY <2>1
      <4>. QED
        BY <1>6, <4>1
    <3>2. j \in 1..Len(C) /\ j \in 1..Len(E)
      BY <1>6, <2>1
    <3>. QED
      BY <3>1, <3>2 DEF ResumeAt
  <2>2. CASE ~(j \in 1..(k + 1))
    <3>1. j \notin 1..Len(E) /\ (j \in 1..Len(C) => j \in (k + 2)..Len(C))
      BY <1>1, <1>6, <2>2
    <3>. QED
      BY <3>1 DEF ResumeAt
  <2>. QED
    BY <2>1, <2>2
<1>8. ChainOf(C) = ChainOf(E)
  BY <1>7, ChainSame
<1>9. PICK x \in Seq(Thread) : x = ChainOf(D)
  BY <1>4, ChainMore
<1>10. ChainOf(E) = Append(x, a.t) /\ a.t \in Thread
  BY <1>4, <1>5, <1>9, ChainMore, ActivationFacts
<1>11. SubSeq(Append(x, a.t), 1, Len(Append(x, a.t)) - 1) = x
  <2>1. PICK v \in Thread : v = a.t
    BY <1>10
  <2>2. Len(Append(x, v)) - 1 = Len(x)
    OBVIOUS
  <2>3. SubSeq(Append(x, v), 1, Len(x)) = x
    <3>1. /\ SubSeq(Append(x, v), 1, Len(x)) \in Seq(Thread)
          /\ Len(SubSeq(Append(x, v), 1, Len(x))) = Len(x)
          /\ \A i \in 1..Len(x) : SubSeq(Append(x, v), 1, Len(x))[i] = Append(x, v)[i]
      <4>1. Append(x, v) \in Seq(Thread) /\ Len(x) \in 0..Len(Append(x, v))
        OBVIOUS
      <4>. QED
        BY <4>1, CutFacts
    <3>2. \A i \in 1..Len(x) : Append(x, v)[i] = x[i]
      OBVIOUS
    <3>. QED
      BY <3>1, <3>2, SeqEqual
  <2>. QED
    BY <2>1, <2>2, <2>3
<1>. QED
  BY <1>2, <1>8, <1>9, <1>10, <1>11 DEF Co!Below

LEMMA OneThread ==
    ASSUME NEW t \in Thread, NEW x, x = <<t>>
    PROVE  x \in Seq(Thread) /\ Len(x) \in Nat \ {0} /\ x[Len(x)] = t
OBVIOUS

LEMMA LastThread ==
    ASSUME NEW y \in Seq(Thread), NEW t \in Thread, NEW x, x = Append(y, t)
    PROVE  x \in Seq(Thread) /\ Len(x) \in Nat \ {0} /\ x[Len(x)] = t
OBVIOUS

(* The thread on top is the one that was resumed last.                     *)
LEMMA ChainTop ==
    ASSUME NEW s, OK(s), NEW x, x = ChainOf(s.cs)
    PROVE  x \in Seq(Thread) /\ Len(x) \in Nat \ {0} /\ x[Len(x)] = TopThread(s.cs)
<1>1. PICK C \in Seq(Activation) : C = s.cs
  BY OwnFacts
<1>2. PICK R : Lines(C, R)
  BY LinesExist
<1>3. PICK n \in Nat : n = Len(C)
  OBVIOUS
<1>4. x = R[n] /\ R \in [Nat -> Seq(Thread)] /\ R[0] = <<MainThread>> /\ MainThread \in Thread
  BY <1>1, <1>2, <1>3, ChainIs, CallsAssumption DEF Lines
<1>5. CASE n = 0
  <2>1. TopThread(C) = MainThread
    BY <1>3, <1>5 DEF TopThread
  <2>. QED
    BY <1>1, <1>4, <1>5, <2>1, OneThread
<1>6. CASE n # 0
  <2>1. PICK F, G, H : Measured(C, F, G, H)
    BY <1>1 DEF OK, Good, Shape
  <2>2. Placed(C, F, G, H, n) /\ Placed(C, F, G, H, 1) /\ n \in 1..n
    <3>1. n \in 1..Len(C) /\ 1 \in 1..Len(C)
      BY <1>3, <1>6
    <3>. QED
      BY <1>3, <2>1, <3>1 DEF Measured
  <2>3. Based(C, n) /\ Stacked(C, 1)
    BY <2>2 DEF Placed
  <2>4. PICK m \in 1..n : Base(C, m, n)
    BY <2>3 DEF Based
  <2>5. PICK k \in Nat : m = k + 1
    <3>1. m - 1 \in Nat /\ m = (m - 1) + 1
      OBVIOUS
    <3>. QED
      BY <3>1
  <2>6. R[n] = R[m]
    <3>1. \A i \in (m + 1)..n : ~ResumeAt(C, i)
      BY <2>4 DEF Base, ResumeAt
    <3>. QED
      BY <1>2, <3>1, LinesSteady
  <2>7. R[k + 1] = IF ResumeAt(C, k + 1) THEN Append(R[k], C[k + 1].t) ELSE R[k]
    BY <1>2 DEF Lines
  <2>8. C[m].t = C[n].t /\ C[m].t \in Thread /\ TopThread(C) = C[n].t
    <3>1. m \in m..n
      OBVIOUS
    <3>2. C[m] \in Activation
      BY <1>3
    <3>. QED
      BY <1>3, <1>6, <2>4, <3>1, <3>2, ActivationFacts DEF Base, TopThread
  <2>9. CASE IsResume(C[m])
    <3>1. ResumeAt(C, k + 1)
      BY <1>3, <2>5, <2>9 DEF ResumeAt
    <3>2. x = Append(R[k], C[m].t)
      BY <1>4, <2>5, <2>6, <2>7, <3>1
    <3>3. R[k] \in Seq(Thread)
      BY <1>4
    <3>. QED
      BY <1>1, <2>8, <3>2, <3>3, LastThread
  <2>10. CASE ~IsResume(C[m])
    <3>1. m = 1 /\ C[1].t = MainThread
      BY <2>3, <2>4, <2>10 DEF Base, Stacked
    <3>2. k = 0 /\ ~ResumeAt(C, k + 1)
      BY <2>5, <2>10, <3>1 DEF ResumeAt
    <3>3. x = <<MainThread>>
      BY <1>4, <2>5, <2>6, <2>7, <3>2
    <3>. QED
      BY <1>1, <1>4, <2>8, <3>1, <3>3, OneThread
  <2>. QED
    BY <2>9, <2>10
<1>. QED
  BY <1>5, <1>6

-----------------------------------------------------------------------------
(* What a program sees of a state, and of the next one.                    *)
LEMMA ViewNow ==
    ASSUME Fine(Now)
    PROVE  /\ [t \in Thread |-> FramesFrom(t)] = FramesSeen(Now)
           /\ [t \in Thread |-> StateFrom(t)] = StatesSeen(Now)
           /\ Chain = ChainOf(cstack)
<1>1. Now.th = th /\ Now.cs = cstack /\ th \in [Thread -> LuaState]
      /\ cstack \in Seq(Activation)
  BY NowFacts
<1>2. ASSUME NEW t \in Thread PROVE FramesFrom(t) = Seen(Guards(cstack, t), th[t].ci)
  <2>1. th[t].ci \in Seq(Frame)
    BY <1>1 DEF LuaState
  <2>2. DOMAIN th[t].ci = 1..Len(th[t].ci) /\ DOMAIN cstack = 1..Len(cstack)
    BY <1>1, <2>1
  <2>3. \A i \in 1..Len(th[t].ci) :
           (\E j \in DOMAIN cstack :
              /\ cstack[j].t = t
              /\ cstack[j].k = "try" /\ cstack[j].kind = "pcall"
              /\ cstack[j].old_ci = i) <=> i \in Guards(cstack, t)
    <3>1. \A i \in 1..Len(th[t].ci) : i \in Nat \ {0}
      OBVIOUS
    <3>. QED
      BY <2>2, <3>1 DEF Guards, GuardAt, IsPcall
  <2>. QED
    BY <2>2, <2>3 DEF FramesFrom, Seen, Look, Protecting
<1>3. ASSUME NEW t \in Thread PROVE StateFrom(t) = StateSeen(cstack, t, th[t])
  <2>1. DOMAIN cstack = 1..Len(cstack)
    BY <1>1
  <2>2. Live(t) <=> Lives(cstack, t)
    BY <2>1 DEF Live, Lives, IsResume
  <2>. QED
    BY <2>2 DEF StateFrom, StateSeen
<1>4. Chain = ChainOf(cstack)
  BY DEF Chain, ChainOf
<1>. QED
  BY <1>1, <1>2, <1>3, <1>4 DEF FramesSeen, StatesSeen

LEMMA ThenFacts ==
    ASSUME Fine(Then)
    PROVE  /\ Then.th = th' /\ Then.cs = cstack' /\ Then.mode = mode'
           /\ th' \in [Thread -> LuaState] /\ cstack' \in Seq(Activation)
<1>1. Then.th = th' /\ Then.cs = cstack' /\ Then.mode = mode'
  BY DEF Then
<1>2. Then.th \in [Thread -> LuaState] /\ Then.cs \in Seq(Activation)
  BY OwnFacts DEF Fine
<1>. QED
  BY <1>1, <1>2

LEMMA ViewThen ==
    ASSUME Fine(Then)
    PROVE  /\ [t \in Thread |-> FramesFrom(t)]' = FramesSeen(Then)
           /\ [t \in Thread |-> StateFrom(t)]' = StatesSeen(Then)
           /\ Chain' = ChainOf(cstack')
<1>1. Then.th = th' /\ Then.cs = cstack' /\ th' \in [Thread -> LuaState]
      /\ cstack' \in Seq(Activation)
  BY ThenFacts
<1>2. ASSUME NEW t \in Thread PROVE FramesFrom(t)' = Seen(Guards(cstack', t), th'[t].ci)
  <2>1. th'[t].ci \in Seq(Frame)
    BY <1>1 DEF LuaState
  <2>2. DOMAIN th'[t].ci = 1..Len(th'[t].ci) /\ DOMAIN cstack' = 1..Len(cstack')
    BY <1>1, <2>1
  <2>3. \A i \in 1..Len(th'[t].ci) :
           (\E j \in DOMAIN cstack' :
              /\ cstack'[j].t = t
              /\ cstack'[j].k = "try" /\ cstack'[j].kind = "pcall"
              /\ cstack'[j].old_ci = i) <=> i \in Guards(cstack', t)
    <3>1. \A i \in 1..Len(th'[t].ci) : i \in Nat \ {0}
      OBVIOUS
    <3>. QED
      BY <2>2, <3>1 DEF Guards, GuardAt, IsPcall
  <2>. QED
    BY <2>2, <2>3 DEF FramesFrom, Seen, Look, Protecting
<1>3. ASSUME NEW t \in Thread PROVE StateFrom(t)' = StateSeen(cstack', t, th'[t])
  <2>1. DOMAIN cstack' = 1..Len(cstack')
    BY <1>1
  <2>2. Live(t)' <=> Lives(cstack', t)
    BY <2>1 DEF Live, Lives, IsResume
  <2>. QED
    BY <2>2 DEF StateFrom, StateSeen
<1>4. Chain' = ChainOf(cstack')
  BY DEF Chain, ChainOf
<1>. QED
  BY <1>1, <1>2, <1>3, <1>4 DEF FramesSeen, StatesSeen

-----------------------------------------------------------------------------
(* A change that leaves the handlers where they are, and the frames of all *)
(* threads but t.                                                          *)
Alters(s, r, t) ==
    /\ SameMarks(s.cs, r.cs)
    /\ \A u \in Thread :
          /\ u # t => r.th[u].ci = s.th[u].ci
          /\ Lives(s.cs, u) \/ (r.th[u].status = s.th[u].status /\ r.th[u].fn = s.th[u].fn)

LEMMA AltersChain ==
    ASSUME NEW s, NEW x, NEW r, NEW t, Alters(s, x, t), Alters(x, r, t),
           s.cs \in Seq(Activation), x.cs \in Seq(Activation)
    PROVE  Alters(s, r, t)
<1>1. SameMarks(s.cs, x.cs) /\ SameMarks(x.cs, r.cs)
  BY DEF Alters
<1>2. SameMarks(s.cs, r.cs)
  BY <1>1, MarksChain
<1>3. \A u : Lives(s.cs, u) <=> Lives(x.cs, u)
  BY <1>1, MarksGuards
<1>. QED
  BY <1>2, <1>3 DEF Alters

LEMMA AltersSeen ==
    ASSUME NEW s, NEW r, NEW t \in Thread, Alters(s, r, t),
           s.cs \in Seq(Activation), r.cs \in Seq(Activation)
    PROVE  /\ StatesSeen(r) = StatesSeen(s) /\ ChainOf(r.cs) = ChainOf(s.cs)
           /\ FramesSeen(r) = [FramesSeen(s) EXCEPT ![t] = Seen(Guards(s.cs, t), r.th[t].ci)]
<1>1. SameMarks(s.cs, r.cs)
  BY DEF Alters
<1>2. \A u : Guards(s.cs, u) = Guards(r.cs, u) /\ (Lives(s.cs, u) <=> Lives(r.cs, u))
  BY <1>1, MarksGuards
<1>3. ASSUME NEW u \in Thread
      PROVE  StateSeen(r.cs, u, r.th[u]) = StateSeen(s.cs, u, s.th[u])
  BY <1>2 DEF Alters, StateSeen
<1>4. \A u \in Thread : u # t =>
         Seen(Guards(r.cs, u), r.th[u].ci) = Seen(Guards(s.cs, u), s.th[u].ci)
  BY <1>2 DEF Alters
<1>5. FramesSeen(r) = [FramesSeen(s) EXCEPT ![t] = Seen(Guards(s.cs, t), r.th[t].ci)]
  BY <1>2, <1>4 DEF FramesSeen
<1>6. StatesSeen(r) = StatesSeen(s)
  BY <1>3 DEF StatesSeen
<1>. QED
  BY <1>1, <1>5, <1>6, MarksChainOf

(* What the running thread may see of a step.                              *)
CoSteps(f) ==
    Co!Enter(f) \cup Co!Leave(f) \cup Co!Protect(f) \cup Co!EndProtect(f) \cup Co!Catch(f)

CoStep == [Co!CoNext]_(Co!coVars)

LEMMA RunStep ==
    ASSUME Fine(Now), Fine(Then), NEW t, t = TopThread(cstack), NEW g,
           g \in CoSteps(FramesSeen(Now)[t]),
           FramesSeen(Then) = [FramesSeen(Now) EXCEPT ![t] = g],
           StatesSeen(Then) = StatesSeen(Now), ChainOf(cstack') = ChainOf(cstack)
    PROVE  CoStep
<1>1. Now.cs = cstack /\ OK(Now)
  BY NowFacts
<1>2. Co!running = t
  <2>1. PICK x : x = ChainOf(cstack)
    OBVIOUS
  <2>2. x[Len(x)] = t
    BY <1>1, <2>1, ChainTop
  <2>3. Chain = x
    BY <2>1, ViewNow
  <2>. QED
    BY <2>2, <2>3 DEF Co!running
<1>3. Chain' = Chain /\ [u \in Thread |-> StateFrom(u)]' = [u \in Thread |-> StateFrom(u)]
  BY ViewNow, ViewThen
<1>4. [u \in Thread |-> FramesFrom(u)] = FramesSeen(Now)
      /\ [u \in Thread |-> FramesFrom(u)]' = FramesSeen(Then)
  BY ViewNow, ViewThen
<1>5. \E f \in {[u \in Thread |-> FramesFrom(u)][Co!running]} :
         \E y \in Co!Enter(f) \cup Co!Leave(f) \cup Co!Protect(f) \cup Co!EndProtect(f)
                  \cup Co!Catch(f) :
            [u \in Thread |-> FramesFrom(u)]' =
               [[u \in Thread |-> FramesFrom(u)] EXCEPT ![Co!running] = y]
  BY <1>2, <1>4 DEF CoSteps
<1>6. Co!Run
  BY <1>3, <1>5 DEF Co!Run
<1>. QED
  BY <1>6 DEF CoStep, Co!CoNext

-----------------------------------------------------------------------------
(* Where the guarded frames are.                                           *)
LEMMA PrefixAt ==
    ASSUME NEW p \in Seq(Frame), NEW q \in Seq(Frame), Prefix(p, q)
    PROVE  /\ Len(p) \in Nat /\ Len(q) \in Nat /\ Len(p) <= Len(q)
           /\ \A i \in 1..Len(p) : q[i] = p[i]
<1>1. PICK n \in 0..Len(q) : n = Len(p)
  <2>1. Len(p) \in Nat /\ Len(q) \in Nat /\ Len(p) <= Len(q)
    BY DEF Prefix
  <2>. QED
    BY <2>1
<1>2. p = SubSeq(q, 1, n)
  BY <1>1 DEF Prefix
<1>3. \A i \in 1..n : SubSeq(q, 1, n)[i] = q[i]
  BY CutFacts
<1>. QED
  BY <1>1, <1>2, <1>3

LEMMA TellsRise ==
    ASSUME NEW C \in Seq(Activation), NEW t, NEW f, Tells(C, t, f),
           NEW b \in 0..Len(C), NEW a \in 0..b
    PROVE  /\ f[a] \in Seq(Frame) /\ f[b] \in Seq(Frame) /\ Prefix(f[a], f[b])
           /\ Len(f[a]) \in Nat /\ Len(f[b]) \in Nat /\ Len(f[a]) <= Len(f[b])
<1>1. a \in 0..Len(C)
  OBVIOUS
<1>2. f[a] \in Seq(Frame) /\ f[b] \in Seq(Frame)
  BY <1>1 DEF Tells
<1>3. Prefix(f[a], f[b])
  <2>1. CASE b = 0
    <3>1. a = b
      BY <2>1
    <3>. QED
      BY <1>2, <3>1, PrefixFacts
  <2>2. CASE b # 0
    <3>1. b \in 1..Len(C)
      BY <2>2
    <3>2. Follows(C, t, f, b)
      BY <3>1 DEF Tells
    <3>. QED
      BY <3>2 DEF Follows
  <2>. QED
    BY <2>1, <2>2
<1>. QED
  BY <1>2, <1>3, PrefixAt

LEMMA LastAppended ==
    ASSUME NEW y \in Seq(Frame), NEW g \in Frame, NEW x, x = y \o <<g>>
    PROVE  x = Append(y, g) /\ x \in Seq(Frame) /\ Len(x) = Len(y) + 1 /\ Len(y) \in Nat
           /\ x[Len(x)] = g
<1>1. x = Append(y, g)
  OBVIOUS
<1>. QED
  BY <1>1

(* The activation below a protected call that a function has made.         *)
LEMMA CallerBelow ==
    ASSUME NEW s, OK(s), NEW b, Held(s, b), NEW k \in Nat \ {0}, k + 1 \in 1..Len(s.cs),
           IsPcall(s.cs[k + 1])
    PROVE  /\ s.cs[k].k = "cfun" /\ s.cs[k].f \in Protecting /\ s.cs[k].t = s.cs[k + 1].t
           /\ s.cs[k] \in Activation /\ s.cs[k].f \in Frame
<1>1. PICK C \in Seq(Activation) : C = s.cs
  BY OwnFacts
<1>2. k \in 1..Len(C) /\ k + 1 \in 1..Len(C) /\ (k + 1) - 1 = k /\ k + 1 > 1
  BY <1>1
<1>3. C[k].k = "cfun" /\ C[k].f \in Protecting
  <2>1. Local(C, k + 1, b)
    BY <1>1, <1>2 DEF Held, Kept
  <2>. QED
    BY <1>1, <1>2, <2>1 DEF Local, HandlerKept
<1>4. C[k] \in Activation
  BY <1>2
<1>5. C[k].f \in Frame
  <2>1. C[k] \in CFun
    BY <1>3, <1>4, ActivationFacts
  <2>. QED
    BY <2>1 DEF CFun, Frame
<1>6. C[k].t = C[k + 1].t
  <2>1. PICK F, G, H : Measured(C, F, G, H)
    BY <1>1 DEF OK, Good, Shape
  <2>2. Based(C, k + 1)
    BY <1>2, <2>1 DEF Measured, Placed
  <2>3. PICK m \in 1..(k + 1) : Base(C, m, k + 1)
    BY <2>2 DEF Based
  <2>4. m # k + 1
    <3>1. ~IsResume(C[k + 1])
      BY <1>1 DEF IsPcall, IsResume
    <3>. QED
      BY <2>3, <3>1 DEF Base
  <2>5. k \in m..(k + 1)
    BY <2>4
  <2>. QED
    BY <2>3, <2>5 DEF Base
<1>. QED
  BY <1>1, <1>3, <1>4, <1>5, <1>6

(* The frame that a protected call at k + 1 guards.                        *)
GuardFacts(C, t, f, k, n) ==
    /\ k \in 0..Len(C) /\ f[k] \in Seq(Frame) /\ n = Len(f[k]) /\ n \in Nat
    /\ k = 0 => n = 0
    /\ k # 0 => /\ n # 0 /\ f[k][n] \in Protecting
                /\ \A j \in 0..(k - 1) : Len(f[j]) < n

LEMMA GuardPlace ==
    ASSUME NEW s, OK(s), NEW b, Held(s, b), NEW t, NEW f, Tells(s.cs, t, f),
           NEW k \in Nat, k + 1 \in 1..Len(s.cs), GuardAt(s.cs, t, s.cs[k + 1].old_ci, k + 1)
    PROVE  GuardFacts(s.cs, t, f, k, s.cs[k + 1].old_ci)
<1>1. PICK C \in Seq(Activation) : C = s.cs
  BY OwnFacts
<1>2. PICK n : n = C[k + 1].old_ci
  OBVIOUS
<1>3. IsPcall(C[k + 1]) /\ C[k + 1].t = t
  BY <1>1 DEF GuardAt
<1>4. k \in 0..Len(C) /\ f[k] \in Seq(Frame) /\ Len(f[k]) = n
  <2>1. IsTry(C[k + 1]) /\ C[k + 1].kind = "pcall"
    BY <1>3 DEF IsPcall, IsTry
  <2>. QED
    BY <1>1, <1>2, <1>3, <2>1, TryBegan
<1>5. CASE k = 0
  <2>1. f[0] = <<>>
    BY <1>1 DEF Tells
  <2>2. n = 0
    BY <1>4, <1>5, <2>1
  <2>. QED
    <3>1. GuardFacts(C, t, f, k, n)
      BY <1>4, <1>5, <2>2 DEF GuardFacts
    <3>. QED
      BY <1>1, <1>2, <3>1
<1>6. CASE k # 0
  <2>1. PICK j \in Nat : k = j + 1
    <3>1. k - 1 \in Nat /\ k = (k - 1) + 1
      BY <1>6
    <3>. QED
      BY <3>1
  <2>2. /\ C[k].k = "cfun" /\ C[k].f \in Protecting /\ C[k].t = t
        /\ C[k] \in Activation /\ C[k].f \in Frame
    BY <1>1, <1>3, <1>6, CallerBelow
  <2>3. Part(C[k], t) = <<C[k].f>>
    BY <2>2, PartFacts
  <2>4. k \in 1..Len(C) /\ k - 1 = j /\ j \in 0..Len(C)
    BY <1>4, <2>1
  <2>5. f[k] = f[j] \o <<C[k].f>>
    BY <1>1, <2>3, <2>4 DEF Tells, Follows
  <2>6. f[j] \in Seq(Frame)
    BY <1>1, <2>4 DEF Tells
  <2>7. n = Len(f[j]) + 1 /\ Len(f[j]) \in Nat /\ f[k][n] = C[k].f
    <3>1. /\ Len(f[k]) = Len(f[j]) + 1 /\ Len(f[j]) \in Nat
          /\ f[k][Len(f[k])] = C[k].f
      BY ONLY <2>2, <2>5, <2>6, LastAppended
    <3>. QED
      BY <1>4, <3>1
  <2>8. ASSUME NEW i \in 0..(k - 1) PROVE Len(f[i]) < n
    <3>1. i \in 0..j
      BY <2>4
    <3>2. Len(f[i]) \in Nat /\ Len(f[i]) <= Len(f[j])
      BY <1>1, <2>4, <3>1, TellsRise
    <3>. QED
      BY <2>7, <3>2
  <2>9. n # 0 /\ n \in Nat
    BY <2>7
  <2>. QED
    BY <1>1, <1>2, <1>4, <1>6, <2>2, <2>7, <2>8, <2>9 DEF GuardFacts
<1>. QED
  BY <1>5, <1>6

LEMMA GuardBy ==
    ASSUME NEW s, OK(s), NEW b, Held(s, b), NEW t, NEW f, Tells(s.cs, t, f),
           NEW i \in Guards(s.cs, t)
    PROVE  \E j \in Nat : /\ j + 1 \in 1..Len(s.cs) /\ GuardAt(s.cs, t, i, j + 1)
                          /\ GuardFacts(s.cs, t, f, j, i)
<1>1. PICK m \in 1..Len(s.cs) : GuardAt(s.cs, t, i, m)
  BY DEF Guards
<1>2. PICK j \in Nat : m = j + 1
  <2>1. Len(s.cs) \in Nat
    BY OwnFacts
  <2>2. m - 1 \in Nat /\ m = (m - 1) + 1
    BY <2>1
  <2>. QED
    BY <2>2
<1>3. i = s.cs[j + 1].old_ci /\ j + 1 \in 1..Len(s.cs) /\ GuardAt(s.cs, t, i, j + 1)
  BY <1>1, <1>2 DEF GuardAt
<1>4. GuardFacts(s.cs, t, f, j, s.cs[j + 1].old_ci)
  BY <1>3, GuardPlace
<1>. QED
  BY <1>3, <1>4

(* They are frames that the thread has, and below that of a function that  *)
(* runs.                                                                   *)
LEMMA GuardsBelow ==
    ASSUME NEW s, OK(s), NEW b, Held(s, b), NEW t, NEW f, Tells(s.cs, t, f),
           NEW i \in Guards(s.cs, t), NEW m \in 0..Len(s.cs),
           \A j \in (m + 2)..Len(s.cs) : ~IsTry(s.cs[j])
    PROVE  i \in Nat /\ Len(f[m]) \in Nat /\ i <= Len(f[m])
<1>1. PICK j \in Nat : /\ j + 1 \in 1..Len(s.cs) /\ GuardAt(s.cs, t, i, j + 1)
                       /\ GuardFacts(s.cs, t, f, j, i)
  BY GuardBy
<1>2. s.cs \in Seq(Activation) /\ Len(s.cs) \in Nat
  BY OwnFacts
<1>3. j + 1 \notin (m + 2)..Len(s.cs)
  BY <1>1 DEF GuardAt, IsPcall, IsTry
<1>4. j \in 0..m
  BY <1>1, <1>2, <1>3
<1>5. Len(f[j]) \in Nat /\ Len(f[m]) \in Nat /\ Len(f[j]) <= Len(f[m])
  BY <1>2, <1>4, TellsRise
<1>6. i = Len(f[j])
  BY <1>1 DEF GuardFacts
<1>. QED
  BY <1>5, <1>6

(* The guard of the innermost protected call, at k + 1, is the last one.   *)
LEMMA GuardsCut ==
    ASSUME NEW s, OK(s), NEW b, Held(s, b), NEW t, NEW f, Tells(s.cs, t, f),
           NEW k \in Nat, k + 1 \in 1..Len(s.cs), NEW n, n = s.cs[k + 1].old_ci,
           GuardAt(s.cs, t, n, k + 1), \A j \in (k + 2)..Len(s.cs) : ~IsTry(s.cs[j])
    PROVE  /\ n # 0 => n \in Guards(s.cs, t)
           /\ \A i \in Guards(s.cs, t) : i <= n
           /\ \A i : i \in Guards(SubSeq(s.cs, 1, k), t) <=> i \in Guards(s.cs, t) /\ i # n
<1>1. PICK C \in Seq(Activation) : C = s.cs
  BY OwnFacts
<1>3. Len(C) \in Nat /\ k \in 0..Len(C)
  BY <1>1
<1>2. PICK D \in Seq(Activation) : D = SubSeq(C, 1, k)
  BY <1>3, CutFacts
<1>4. Len(D) = k /\ \A i \in 1..k : D[i] = C[i]
  BY <1>2, <1>3, CutFacts
<1>5. GuardFacts(C, t, f, k, n)
  BY <1>1, GuardPlace
<1>6. n \in Nat /\ n = Len(f[k]) /\ (k = 0 => n = 0) /\ (k # 0 => n # 0)
  BY <1>5 DEF GuardFacts
<1>7. n # 0 => n \in Guards(C, t)
  BY <1>1, <1>6 DEF Guards
<1>8. ASSUME NEW i \in Guards(C, t)
      PROVE  i = n \/ (i < n /\ i \in Guards(D, t))
  <2>1. PICK j \in Nat : /\ j + 1 \in 1..Len(C) /\ GuardAt(C, t, i, j + 1)
                         /\ GuardFacts(C, t, f, j, i)
    BY <1>1, <1>8, GuardBy
  <2>2. j + 1 \notin (k + 2)..Len(C)
    BY <1>1, <2>1 DEF GuardAt, IsPcall, IsTry
  <2>3. j = k \/ j + 1 \in 1..k
    BY <1>3, <2>1, <2>2
  <2>4. CASE j = k
    <3>1. i = n
      BY <1>1, <2>1, <2>4 DEF GuardAt
    <3>. QED
      BY <3>1
  <2>5. CASE j + 1 \in 1..k
    <3>1. j \in 0..(k - 1) /\ k # 0
      BY <2>5
    <3>2. Len(f[j]) < n
      BY <1>5, <3>1 DEF GuardFacts
    <3>3. i = Len(f[j])
      BY <2>1 DEF GuardFacts
    <3>4. j + 1 \in 1..Len(D) /\ GuardAt(D, t, i, j + 1)
      BY <1>4, <2>1, <2>5 DEF GuardAt
    <3>5. i \in Nat \ {0}
      BY <1>8 DEF Guards
    <3>6. i \in Guards(D, t)
      BY <3>4, <3>5 DEF Guards
    <3>. QED
      BY <3>2, <3>3, <3>6
  <2>. QED
    BY <2>3, <2>4, <2>5
<1>9. ASSUME NEW i \in Guards(D, t)
      PROVE  i \in Guards(C, t) /\ i # n
  <2>1. PICK m \in 1..Len(D) : GuardAt(D, t, i, m)
    BY <1>9 DEF Guards
  <2>2. i \in Nat \ {0}
    BY <1>9 DEF Guards
  <2>3. PICK j \in Nat : m = j + 1
    <3>1. m - 1 \in Nat /\ m = (m - 1) + 1
      BY <1>4
    <3>. QED
      BY <3>1
  <2>4. j + 1 \in 1..k /\ j + 1 \in 1..Len(C) /\ j \in 0..(k - 1) /\ k # 0
    BY <1>3, <1>4, <2>3
  <2>5. GuardAt(C, t, i, j + 1) /\ i = C[j + 1].old_ci
    BY <1>4, <2>1, <2>3, <2>4 DEF GuardAt
  <2>6. i \in Guards(C, t)
    BY <2>2, <2>4, <2>5 DEF Guards
  <2>7. GuardFacts(C, t, f, j, i)
    BY <1>1, <2>4, <2>5, GuardPlace
  <2>8. i = Len(f[j])
    BY <2>7 DEF GuardFacts
  <2>9. Len(f[j]) < n
    BY <1>5, <2>4 DEF GuardFacts
  <2>. QED
    BY <1>6, <2>2, <2>6, <2>8, <2>9
<1>10. \A i \in Guards(C, t) : i <= n
  <2>1. \A i \in Guards(C, t) : i \in Nat
    BY DEF Guards
  <2>. QED
    BY <1>6, <1>8, <2>1
<1>11. \A i \in Guards(D, t) : i \in Guards(C, t) /\ i # n
  BY <1>9
<1>12. \A i \in Guards(C, t) : i # n => i \in Guards(D, t)
  BY <1>8
<1>. QED
  BY <1>1, <1>2, <1>7, <1>10, <1>11, <1>12

(* Threads that have nothing above k are seen as before when it is cut.    *)
LEMMA CutOthers ==
    ASSUME NEW C \in Seq(Activation), NEW k \in 0..Len(C), NEW u,
           \A j \in (k + 1)..Len(C) : C[j].t # u
    PROVE  Guards(SubSeq(C, 1, k), u) = Guards(C, u) /\ (Lives(SubSeq(C, 1, k), u) <=> Lives(C, u))
<1>1. PICK D \in Seq(Activation) : D = SubSeq(C, 1, k)
  BY CutFacts
<1>2. Len(D) = k /\ (\A i \in 1..k : D[i] = C[i]) /\ Len(C) \in Nat
  BY <1>1, CutFacts
<1>3. \A j \in 1..Len(C) : C[j].t = u => j \in 1..k
  BY <1>2
<1>4. \A j \in 1..k : j \in 1..Len(C) /\ j \in 1..Len(D)
  BY <1>2
<1>5. ASSUME NEW i PROVE (\E j \in 1..Len(C) : GuardAt(C, u, i, j)) <=> (\E j \in 1..Len(D) : GuardAt(D, u, i, j))
  BY <1>2, <1>3, <1>4 DEF GuardAt
<1>6. Guards(D, u) = Guards(C, u)
  BY <1>5 DEF Guards
<1>7. Lives(D, u) <=> Lives(C, u)
  BY <1>2, <1>3, <1>4 DEF Lives
<1>. QED
  BY <1>1, <1>6, <1>7

(* A handler is put on the stack.                                          *)
LEMMA GuardsMore ==
    ASSUME NEW C \in Seq(Activation), NEW a \in Activation, NEW u
    PROVE  /\ \A i : i \in Guards(Append(C, a), u) <=>
                        i \in Guards(C, u) \/ (i \in Nat \ {0} /\ a.t = u /\ IsPcall(a) /\ a.old_ci = i)
           /\ Lives(Append(C, a), u) <=> Lives(C, u) \/ (a.t = u /\ IsResume(a))
<1>1. PICK D \in Seq(Activation) : D = Append(C, a)
  BY AppendFacts
<1>2. PICK n \in Nat : n = Len(C)
  OBVIOUS
<1>3. Len(D) = n + 1 /\ D[n + 1] = a /\ \A i \in 1..n : D[i] = C[i]
  BY <1>1, <1>2, AppendFacts
<1>4. /\ \A j \in 1..Len(D) : j \in 1..n \/ j = n + 1
      /\ n + 1 \in 1..Len(D) /\ \A j \in 1..n : j \in 1..Len(D)
  BY <1>3
<1>5. ASSUME NEW i
      PROVE (\E j \in 1..Len(D) : GuardAt(D, u, i, j)) <=>
               (\E j \in 1..n : GuardAt(C, u, i, j)) \/ (a.t = u /\ IsPcall(a) /\ a.old_ci = i)
  BY <1>3, <1>4 DEF GuardAt
<1>6. \A i : i \in Guards(D, u) <=>
                i \in Guards(C, u) \/ (i \in Nat \ {0} /\ a.t = u /\ IsPcall(a) /\ a.old_ci = i)
  BY <1>2, <1>5 DEF Guards
<1>7. Lives(D, u) <=> Lives(C, u) \/ (a.t = u /\ IsResume(a))
  BY <1>2, <1>3, <1>4 DEF Lives
<1>. QED
  BY <1>1, <1>6, <1>7

-----------------------------------------------------------------------------
(* Steps of the running thread that a program sees, or does not see.       *)

(* Nothing changes, or one frame is added.                                 *)
OneMore(p, q) == p = q \/ \E f \in Frame : p = Append(q, f)

LEMMA QuietStep ==
    ASSUME Fine(Now), Fine(Then), NEW t \in Thread, Alters(Now, Then, t), th'[t].ci = th[t].ci
    PROVE  CoStep
<1>1. Now.cs = cstack /\ Now.th = th /\ cstack \in Seq(Activation)
  BY NowFacts
<1>2. Then.cs = cstack' /\ Then.th = th' /\ cstack' \in Seq(Activation)
  BY ThenFacts
<1>3. /\ StatesSeen(Then) = StatesSeen(Now) /\ ChainOf(cstack') = ChainOf(cstack)
      /\ FramesSeen(Then) = [FramesSeen(Now) EXCEPT ![t] = Seen(Guards(cstack, t), th'[t].ci)]
  BY <1>1, <1>2, AltersSeen
<1>4. FramesSeen(Then) = FramesSeen(Now)
  BY <1>1, <1>3 DEF FramesSeen
<1>5. /\ [u \in Thread |-> FramesFrom(u)]' = [u \in Thread |-> FramesFrom(u)]
      /\ [u \in Thread |-> StateFrom(u)]' = [u \in Thread |-> StateFrom(u)]
      /\ Chain' = Chain
  BY <1>3, <1>4, ViewNow, ViewThen
<1>. QED
  BY <1>5 DEF CoStep, Co!coVars

(* The story of the running thread.                                        *)
LEMMA TopStory ==
    ASSUME NEW s, OK(s), Told(s), Acts(s), NEW t, t = TopThread(s.cs)
    PROVE  \E f : Tells(s.cs, t, f) /\ f[Len(s.cs)] = s.th[t].ci
<1>1. PICK o : o = Own(s)
  OBVIOUS
<1>2. Acting(s, t, o)
  BY <1>1, ActingFacts
<1>3. t \in Thread /\ o = s.th[t] /\ Running(o) = o.ci
  BY <1>2 DEF Acting
<1>4. Amount(s.cs, t, Running(s.th[t]))
  BY <1>3 DEF Told, Stories, Story
<1>. QED
  BY <1>3, <1>4 DEF Amount

LEMMA TopRoom ==
    ASSUME NEW s, OK(s), NEW b, Held(s, b), Told(s), NEW t, t = TopThread(s.cs),
           Own(s).status = "ok"
    PROVE  Len(s.th[t].ci) + 1 \notin Guards(s.cs, t)
<1>1. CASE s.cs = <<>>
  <2>1. Len(s.cs) = 0
    BY <1>1
  <2>2. 1..Len(s.cs) = {}
    BY <2>1
  <2>. QED
    BY <2>2 DEF Guards
<1>2. CASE s.cs # <<>>
  <2>1. PICK f : Tells(s.cs, t, f) /\ f[Len(s.cs)] = s.th[t].ci
    BY <1>2, TopStory DEF Acts
  <2>2. PICK m \in Nat : m = Len(s.cs)
    BY OwnFacts
  <2>3. m \in 0..m /\ (m + 2)..m = {}
    OBVIOUS
  <2>4. ASSUME NEW i \in Guards(s.cs, t)
        PROVE  i \in Nat /\ Len(f[m]) \in Nat /\ i <= Len(f[m])
    BY <2>1, <2>2, <2>3, GuardsBelow
  <2>5. ASSUME Len(f[m]) + 1 \in Guards(s.cs, t) PROVE FALSE
    <3>1. Len(f[m]) \in Nat /\ Len(f[m]) + 1 <= Len(f[m])
      BY <2>4, <2>5
    <3>. QED
      BY <3>1
  <2>. QED
    BY <2>1, <2>2, <2>5
<1>. QED
  BY <1>1, <1>2

(* The running thread enters a function, or fails to.                      *)
LEMMA EnterSeen ==
    ASSUME NEW q \in Seq(Frame), NEW p, OneMore(p, q), NEW S, Len(q) + 1 \notin S
    PROVE  Seen(S, p) \in Co!Enter(Seen(S, q))
<1>1. CASE p = q
  BY <1>1, SameEnter
<1>2. CASE \E f \in Frame : p = Append(q, f)
  BY <1>2, SeenMore
<1>. QED
  BY <1>1, <1>2 DEF OneMore

LEMMA EnterStep ==
    ASSUME Safe, Told(Now), Fine(Then), NEW t, t = TopThread(cstack), th[t].status = "ok",
           Alters(Now, Then, t), OneMore(th'[t].ci, th[t].ci)
    PROVE  CoStep
<1>1. Now.cs = cstack /\ Now.th = th /\ cstack \in Seq(Activation) /\ OK(Now)
  BY NowFacts DEF Safe
<1>2. Then.cs = cstack' /\ Then.th = th' /\ cstack' \in Seq(Activation)
  BY ThenFacts
<1>3. t \in Thread /\ th[t] \in LuaState /\ Own(Now) = th[t]
  BY <1>1, OwnFacts DEF Own
<1>4. PICK S : S = Guards(cstack, t)
  OBVIOUS
<1>5. /\ StatesSeen(Then) = StatesSeen(Now) /\ ChainOf(cstack') = ChainOf(cstack)
      /\ FramesSeen(Then) = [FramesSeen(Now) EXCEPT ![t] = Seen(S, th'[t].ci)]
  BY <1>1, <1>2, <1>3, <1>4, AltersSeen
<1>6. FramesSeen(Now)[t] = Seen(S, th[t].ci)
  BY <1>1, <1>3, <1>4 DEF FramesSeen
<1>7. Len(th[t].ci) + 1 \notin S
  BY <1>1, <1>3, <1>4, TopRoom DEF Safe
<1>8. th[t].ci \in Seq(Frame)
  BY <1>3 DEF LuaState
<1>9. Seen(S, th'[t].ci) \in Co!Enter(Seen(S, th[t].ci))
  BY <1>7, <1>8, EnterSeen
<1>10. Seen(S, th'[t].ci) \in CoSteps(FramesSeen(Now)[t])
  BY <1>6, <1>9 DEF CoSteps
<1>. QED
  BY <1>5, <1>10, RunStep DEF Safe

(* The function on top returns.                                            *)
LEMMA LeaveStepSeen ==
    ASSUME Safe, Fine(Then), NEW t, t = TopThread(cstack),
           Alters(Now, Then, t), th[t].ci # <<>>,
           th'[t].ci = SubSeq(th[t].ci, 1, Len(th[t].ci) - 1)
    PROVE  CoStep
<1>1. Now.cs = cstack /\ Now.th = th /\ cstack \in Seq(Activation) /\ OK(Now)
  BY NowFacts DEF Safe
<1>2. Then.cs = cstack' /\ Then.th = th' /\ cstack' \in Seq(Activation)
  BY ThenFacts
<1>3. t \in Thread /\ th[t] \in LuaState
  BY <1>1, OwnFacts DEF Own
<1>4. PICK S : S = Guards(cstack, t)
  OBVIOUS
<1>5. /\ StatesSeen(Then) = StatesSeen(Now) /\ ChainOf(cstack') = ChainOf(cstack)
      /\ FramesSeen(Then) = [FramesSeen(Now) EXCEPT ![t] = Seen(S, th'[t].ci)]
  <2>1. Alters(Now, Then, t)
    OBVIOUS
  <2>. QED
    BY ONLY <1>1, <1>2, <1>3, <1>4, <2>1, AltersSeen
<1>6. FramesSeen(Now)[t] = Seen(S, th[t].ci)
  BY <1>1, <1>3, <1>4 DEF FramesSeen
<1>8. th[t].ci \in Seq(Frame)
  BY <1>3 DEF LuaState
<1>9. Seen(S, th'[t].ci) \in Co!Leave(Seen(S, th[t].ci))
  BY <1>8, SeenLess
<1>10. Seen(S, th'[t].ci) \in CoSteps(FramesSeen(Now)[t])
  BY <1>6, <1>9 DEF CoSteps
<1>. QED
  BY <1>5, <1>10, RunStep DEF Safe

(* A C function calls another in protected mode.                           *)
LEMMA ProtectStep ==
    ASSUME Safe, Told(Now), Fine(Then), Acts(Now), NEW t, t = TopThread(cstack),
           TopOf(Now).k = "cfun", TopOf(Now).f \in Protecting,
           NEW a \in Activation, IsPcall(a), a.t = t, a.old_ci = Len(th[t].ci),
           NEW p, p.cs = Append(cstack, a),
           \A u \in Thread : p.th[u].ci = th[u].ci /\ p.th[u].status = th[u].status
                             /\ p.th[u].fn = th[u].fn,
           Alters(p, Then, t), OneMore(th'[t].ci, th[t].ci)
    PROVE  CoStep
<1>1. Now.cs = cstack /\ Now.th = th /\ cstack \in Seq(Activation) /\ OK(Now)
  BY NowFacts DEF Safe
<1>2. Then.cs = cstack' /\ Then.th = th' /\ cstack' \in Seq(Activation)
  BY ThenFacts
<1>3. t \in Thread /\ th[t] \in LuaState /\ Own(Now) = th[t]
  BY <1>1, OwnFacts DEF Own
<1>4. PICK S : S = Guards(cstack, t)
  OBVIOUS
<1>5. PICK q \in Seq(Frame) : q = th[t].ci
  BY <1>3 DEF LuaState
<1>6. PICK n \in Nat : n = Len(q)
  OBVIOUS
<1>7. n # 0 /\ q[n] \in Protecting /\ \A i \in S : i < n
  <2>1. PICK f : Tells(cstack, t, f) /\ f[Len(cstack)] = q
    BY <1>1, <1>5, TopStory DEF Safe
  <2>2. PICK m \in Nat : Len(cstack) = m + 1
    <3>1. cstack # <<>>
      BY <1>1 DEF Acts
    <3>. QED
      BY <1>1, <3>1, Positive
  <2>3. m + 1 \in 1..Len(cstack) /\ (m + 1) - 1 = m /\ m \in 0..Len(cstack)
        /\ (m + 2)..Len(cstack) = {}
    BY <2>2
  <2>4. cstack[m + 1] = TopOf(Now) /\ cstack[m + 1] \in Activation
    BY <1>1, <2>2, <2>3 DEF TopOf
  <2>5. cstack[m + 1].t = t
    BY <1>1, <2>4, OwnFacts DEF Acts
  <2>6. cstack[m + 1].f \in Frame
    <3>1. cstack[m + 1] \in CFun
      BY <2>4, ActivationFacts
    <3>. QED
      BY <3>1 DEF CFun, Frame
  <2>7. Part(cstack[m + 1], t) = <<cstack[m + 1].f>>
    BY <2>4, <2>5, PartFacts
  <2>8. q = f[m] \o <<cstack[m + 1].f>>
    BY <2>1, <2>2, <2>3, <2>7 DEF Tells, Follows
  <2>9. f[m] \in Seq(Frame)
    BY <2>1, <2>3 DEF Tells
  <2>10. /\ Len(q) = Len(f[m]) + 1 /\ Len(f[m]) \in Nat /\ q[Len(q)] = cstack[m + 1].f
    BY ONLY <2>6, <2>8, <2>9, LastAppended
  <2>11. ASSUME NEW i \in S PROVE i < n
    <3>1. i \in Nat /\ i <= Len(f[m])
      BY <1>1, <1>4, <2>1, <2>3, GuardsBelow DEF Safe
    <3>. QED
      BY <1>6, <2>10, <3>1
  <2>. QED
    BY <1>6, <2>4, <2>10, <2>11
<1>8. n \notin S /\ n + 1 \notin S \cup {n}
  <2>1. \A i \in S : i \in Nat
    BY <1>4 DEF Guards
  <2>2. \A i \in S : i # n /\ i # n + 1
    BY <1>7, <2>1
  <2>. QED
    BY <2>2
<1>9. \A u : /\ \A i : i \in Guards(p.cs, u) <=>
                          i \in Guards(cstack, u) \/ (i \in Nat \ {0} /\ a.t = u /\ IsPcall(a) /\ a.old_ci = i)
             /\ Lives(p.cs, u) <=> Lives(cstack, u) \/ (a.t = u /\ IsResume(a))
  BY <1>1, GuardsMore
<1>10. Guards(p.cs, t) = S \cup {n}
  BY <1>4, <1>5, <1>6, <1>7, <1>9
<1>11. ~IsResume(a) /\ p.cs \in Seq(Activation)
  BY <1>1, AppendFacts DEF IsPcall, IsResume
<1>12. \A u \in Thread : u # t => Guards(p.cs, u) = Guards(cstack, u)
  BY <1>9
<1>13. \A u : Lives(p.cs, u) <=> Lives(cstack, u)
  BY <1>9, <1>11
<1>14. /\ StatesSeen(Then) = StatesSeen(p) /\ ChainOf(cstack') = ChainOf(p.cs)
       /\ FramesSeen(Then) = [FramesSeen(p) EXCEPT ![t] = Seen(S \cup {n}, th'[t].ci)]
  <2>1. Alters(p, Then, t) /\ Then.cs \in Seq(Activation) /\ p.cs \in Seq(Activation)
    BY <1>2, <1>11
  <2>2. /\ StatesSeen(Then) = StatesSeen(p) /\ ChainOf(Then.cs) = ChainOf(p.cs)
        /\ FramesSeen(Then) = [FramesSeen(p) EXCEPT ![t] = Seen(Guards(p.cs, t), Then.th[t].ci)]
    BY ONLY <1>3, <2>1, AltersSeen
  <2>. QED
    BY ONLY <1>2, <1>10, <2>2
<1>15. StatesSeen(p) = StatesSeen(Now)
  BY <1>1, <1>13 DEF StatesSeen, StateSeen
<1>16. \A u \in Thread : u # t => FramesSeen(p)[u] = FramesSeen(Now)[u]
  BY <1>1, <1>12 DEF FramesSeen
<1>17. FramesSeen(Then) = [FramesSeen(Now) EXCEPT ![t] = Seen(S \cup {n}, th'[t].ci)]
  BY <1>14, <1>16 DEF FramesSeen
<1>18. ChainOf(p.cs) = ChainOf(cstack)
  <2>1. PICK m \in Nat : m = Len(cstack)
    BY <1>1
  <2>2. Len(p.cs) = m + 1 /\ p.cs[m + 1] = a /\ \A i \in 1..m : p.cs[i] = cstack[i]
    BY <1>1, <2>1, AppendFacts
  <2>3. ASSUME NEW j \in Nat
        PROVE  /\ ResumeAt(cstack, j) <=> ResumeAt(p.cs, j)
               /\ ResumeAt(cstack, j) => p.cs[j].t = cstack[j].t
    <3>1. CASE j \in 1..m
      <4>1. j \in 1..Len(p.cs) /\ j \in 1..Len(cstack)
        BY <2>1, <2>2, <3>1
      <4>. QED
        BY <2>2, <3>1, <4>1 DEF ResumeAt
    <3>2. CASE j = m + 1
      <4>1. j \notin 1..Len(cstack) /\ p.cs[j] = a
        BY <2>1, <2>2, <3>2
      <4>. QED
        BY <1>11, <4>1 DEF ResumeAt
    <3>3. CASE j \notin 1..m /\ j # m + 1
      <4>1. j \notin 1..Len(p.cs) /\ j \notin 1..Len(cstack)
        BY <2>1, <2>2, <3>3
      <4>. QED
        BY <4>1 DEF ResumeAt
    <3>. QED
      BY <3>1, <3>2, <3>3
  <2>. QED
    BY <1>1, <1>11, <2>3, ChainSame
<1>19. FramesSeen(Now)[t] = Seen(S, q)
  BY <1>1, <1>3, <1>4, <1>5 DEF FramesSeen
<1>20. Seen(S \cup {n}, th'[t].ci) \in Co!Enter(Seen(S \cup {n}, q))
  BY <1>5, <1>6, <1>8, EnterSeen
<1>21. Seen(S \cup {n}, th'[t].ci) \in Co!Protect(Seen(S, q))
  BY <1>6, <1>7, <1>8, <1>20, SeenProtected
<1>22. Seen(S \cup {n}, th'[t].ci) \in CoSteps(FramesSeen(Now)[t])
  BY <1>19, <1>21 DEF CoSteps
<1>. QED
  BY <1>14, <1>15, <1>17, <1>18, <1>22, RunStep DEF Safe

-----------------------------------------------------------------------------
(* The running thread goes on: it may have a frame more, and activations   *)
(* that are no handlers.                                                   *)
Goes(s, r, t) ==
    /\ SameMarks(s.cs, r.cs)
    /\ \A u \in Thread : u # t => r.th[u] = s.th[u]
    /\ OneMore(r.th[t].ci, s.th[t].ci)

(* It has the same frames.                                                 *)
Stays(s, r, t) == Goes(s, r, t) /\ r.th[t].ci = s.th[t].ci

LEMMA StaysGoes ==
    ASSUME NEW s, NEW x, NEW r, NEW t, Stays(s, x, t), Goes(x, r, t)
    PROVE  Goes(s, r, t)
BY MarksChain DEF Goes, Stays

LEMMA StaysStill ==
    ASSUME NEW s, NEW r, NEW t, r.cs = s.cs, r.th[t].ci = s.th[t].ci,
           \A u \in Thread : u # t => r.th[u] = s.th[u]
    PROVE  Stays(s, r, t)
BY MarksKept DEF Goes, Stays, OneMore

LEMMA GoesAlters ==
    ASSUME NEW s, NEW r, NEW t, Goes(s, r, t), Lives(s.cs, t)
    PROVE  Alters(s, r, t) /\ OneMore(r.th[t].ci, s.th[t].ci)
BY DEF Goes, Alters

(* The running thread is live.                                             *)
LEMMA TopLives ==
    ASSUME NEW s, OK(s), NEW t, t = TopThread(s.cs)
    PROVE  Lives(s.cs, t)
<1>1. CASE Len(s.cs) = 0
  BY <1>1 DEF TopThread, Lives
<1>2. CASE Len(s.cs) # 0
  <2>1. PICK n \in Nat \ {0} : n = Len(s.cs)
    BY <1>2, OwnFacts
  <2>2. PICK F, G, H : Measured(s.cs, F, G, H)
    BY DEF OK, Good, Shape
  <2>3. Based(s.cs, n) /\ \A i \in 1..n : Stacked(s.cs, i)
    <3>1. n \in 1..Len(s.cs)
      BY <2>1
    <3>. QED
      BY <2>1, <2>2, <3>1 DEF Measured, Placed
  <2>4. PICK m \in 1..n : Base(s.cs, m, n)
    BY <2>3 DEF Based
  <2>5. s.cs[m].t = t /\ t = s.cs[n].t
    <3>1. t = s.cs[n].t
      BY <1>2, <2>1 DEF TopThread
    <3>2. m \in m..n
      BY <2>4
    <3>. QED
      BY <2>4, <3>1, <3>2 DEF Base
  <2>6. CASE IsResume(s.cs[m])
    BY <2>1, <2>5, <2>6 DEF Lives
  <2>7. CASE m = 1
    <3>1. Stacked(s.cs, 1)
      BY <2>3, <2>7
    <3>2. s.cs[1].t = MainThread
      BY <3>1 DEF Stacked
    <3>. QED
      BY <2>5, <2>7, <3>2 DEF Lives
  <2>. QED
    BY <2>4, <2>6, <2>7 DEF Base
<1>. QED
  BY <1>1, <1>2

-----------------------------------------------------------------------------
(* What luaD_call and the like do to the running thread.                   *)
LEMMA SetsGoes ==
    ASSUME NEW s, s.th \in [Thread -> LuaState], NEW t \in Thread, t = TopThread(s.cs),
           NEW l, NEW D, NEW N, SameMarks(s.cs, D), OneMore(l.ci, s.th[t].ci)
    PROVE  Goes(s, Sets(s, l, D, N), t) /\ (l.ci = s.th[t].ci => Stays(s, Sets(s, l, D, N), t))
<1>1. PICK r : r = Sets(s, l, D, N)
  OBVIOUS
<1>2. r.cs = D /\ r.th = [s.th EXCEPT ![t] = l]
  BY <1>1 DEF Sets
<1>3. r.th[t] = l /\ \A u \in Thread : u # t => r.th[u] = s.th[u]
  BY <1>2
<1>. QED
  BY <1>1, <1>2, <1>3 DEF Goes, Stays

LEMMA ModeStays ==
    ASSUME NEW s \in State, NEW t, NEW N
    PROVE  Stays(s, [s EXCEPT !.mode = N], t)
<1>1. [s EXCEPT !.mode = N].cs = s.cs /\ [s EXCEPT !.mode = N].th = s.th
  BY StateFields
<1>. QED
  BY <1>1, StaysStill

LEMMA GrowStays ==
    ASSUME NEW x \in State, NEW t \in Thread
    PROVE  Stays(x, Grow(x, t), t) /\ Grow(x, t).cs = x.cs
<1>1. x.th \in [Thread -> LuaState]
  BY DEF State
<1>2. PICK o \in LuaState : o = x.th[t]
  BY <1>1
<1>3. PICK z : z = 2 * o.size_ci
  OBVIOUS
<1>. DEFINE big == [x EXCEPT !.th[t].size_ci = z]
            l == [o EXCEPT !.size_ci = z]
<1>4. big = [th |-> [x.th EXCEPT ![t] = l], cs |-> x.cs, mode |-> x.mode] /\ l.ci = o.ci
  <2>1. big = [x EXCEPT !.th = [x.th EXCEPT ![t] = l]]
    BY <1>1, <1>2
  <2>2. l.ci = o.ci
    BY DEF LuaState
  <2>. QED
    BY <2>1, <2>2, StateFields
<1>5. PICK g : g = Grow(x, t)
  OBVIOUS
<1>6. g = x \/ g = ErrErr(x) \/ g = Raise(big) \/ g = big
  BY <1>2, <1>3, <1>5 DEF Grow, growCI
<1>. HIDE DEF big, l
<1>7. ErrErr(x).th = x.th /\ ErrErr(x).cs = x.cs
  BY StateFields DEF ErrErr
<1>8. big.th = [x.th EXCEPT ![t] = l] /\ big.cs = x.cs
  BY <1>4
<1>9. Raise(big).th = big.th /\ Raise(big).cs = big.cs
  <2>1. PICK w, D, N : w = [x.th EXCEPT ![t] = l] /\ D = x.cs /\ N = x.mode
    OBVIOUS
  <2>2. big = [th |-> w, cs |-> D, mode |-> N]
    BY <1>4, <2>1
  <2>3. Raise(big) = [th |-> w, cs |-> D, mode |-> "error"]
    BY <2>2 DEF Raise
  <2>. QED
    BY <2>2, <2>3
<1>10. g.cs = x.cs /\ (g.th = x.th \/ g.th = [x.th EXCEPT ![t] = l])
  BY <1>6, <1>7, <1>8, <1>9
<1>11. g.th[t].ci = x.th[t].ci /\ \A u \in Thread : u # t => g.th[u] = x.th[u]
  BY <1>1, <1>2, <1>4, <1>10
<1>. QED
  BY <1>5, <1>10, <1>11, StaysStill

LEMMA EntryUnmarked ==
    ASSUME NEW f \in Frame, NEW t \in Thread
    PROVE  Entry(f, t) \in Activation /\ ~Mark(Entry(f, t))
BY DEF Entry, Activation, CFun, Exec, Frame, Mark, IsResume, IsPcall

(* A function is entered, by luaV_execute or a C function.                 *)
LEMMA EnterGoes ==
    ASSUME NEW x, Fine(x), Acts(x), x.mode = "run", NEW t, t = TopThread(x.cs), NEW f \in Frame
    PROVE  Goes(x, Entered(x, t, f), t)
<1>. DEFINE g == Grow(x, t)
<1>1. /\ Grown(x, g, t) /\ t \in Thread /\ x.th \in [Thread -> LuaState] /\ x \in State
      /\ x.cs \in Seq(Activation)
  BY GrowFacts, OwnFacts DEF Fine, OK
<1>2. inc_ci(x, t, f) = IF g.mode = "run" THEN PushFrame(g, t, f) ELSE g
  BY DEF inc_ci, Grow
<1>3. Stays(x, g, t) /\ g.cs = x.cs
  BY <1>1, GrowStays
<1>. HIDE DEF g
<1>4. CASE g.mode # "run"
  <2>1. luaD_precall(x, t, f) = g
    BY <1>2, <1>4 DEF luaD_precall
  <2>2. Entered(x, t, f) = g
    BY <1>4, <2>1 DEF Entered
  <2>. QED
    BY <1>3, <2>2 DEF Stays
<1>5. CASE g.mode = "run"
  <2>1. g \in State /\ t = TopThread(g.cs) /\ Own(g) = g.th[t] /\ g.th \in [Thread -> LuaState]
    BY <1>1 DEF Grown, Fine, OK, Own, State
  <2>2. PushFrame(g, t, f).mode = "run"
    BY <1>1, <1>5, <2>1, PushFrameFacts
  <2>3. Entered(x, t, f) = Push(PushFrame(g, t, f), Entry(f, t))
    <3>1. CASE f = "lua"
      <4>1. luaD_precall(x, t, f) = PushFrame(g, t, f)
        BY <1>2, <1>5, <2>2, <3>1 DEF luaD_precall
      <4>. QED
        BY <2>2, <3>1, <4>1 DEF Entered, Execute, Entry
    <3>2. CASE f # "lua"
      <4>1. luaD_precall(x, t, f) = Push(PushFrame(g, t, f), Entry(f, t))
        BY <1>2, <1>5, <2>2, <3>2 DEF luaD_precall, Entry
      <4>. QED
        BY <3>2, <4>1 DEF Entered
    <3>. QED
      BY <3>1, <3>2
  <2>. DEFINE l == [Own(g) EXCEPT !.ci = Append(@, f)]
  <2>4. Entered(x, t, f) = Sets(g, l, Append(g.cs, Entry(f, t)), g.mode)
    BY <1>1, <2>1, <2>3, PushFrameFacts
  <2>5. l.ci = Append(g.th[t].ci, f)
    <3>1. PICK o \in LuaState : o = Own(g)
      BY <1>1, <2>1
    <3>2. l.ci = Append(o.ci, f)
      BY <3>1 DEF LuaState
    <3>. QED
      BY <2>1, <3>1, <3>2
  <2>. HIDE DEF l
  <2>6. OneMore(l.ci, g.th[t].ci)
    BY <2>5 DEF OneMore
  <2>7. SameMarks(g.cs, Append(g.cs, Entry(f, t)))
    BY <1>1, <1>3, EntryUnmarked, MarksMore
  <2>8. Goes(g, Entered(x, t, f), t)
    BY <1>1, <2>1, <2>4, <2>6, <2>7, SetsGoes
  <2>. QED
    BY <1>3, <2>8, StaysGoes
<1>. QED
  BY <1>4, <1>5

(* luaD_call, from a C function or luaV_execute.                           *)
LEMMA CallGoes ==
    ASSUME NEW x, Fine(x), Acts(x), x.mode = "run", ~IsResume(TopOf(x)),
           NEW t, t = TopThread(x.cs), NEW f \in Frame
    PROVE  Goes(x, luaD_call(x, t, f), t)
<1>. DEFINE m == x.th[t].nCcalls + 1
            a == [k |-> "call", t |-> t]
            v == [x EXCEPT !.th[t].nCcalls = m]
            y == Push(v, a)
<1>1. /\ t \in Thread /\ x.th \in [Thread -> LuaState] /\ x.cs \in Seq(Activation)
      /\ x \in State /\ Own(x) = x.th[t] /\ x.cs # <<>> /\ Own(x).status = "ok"
  BY OwnFacts DEF Fine, OK, Own, Acts
<1>2. PICK o \in LuaState : o = x.th[t]
  BY <1>1
<1>. DEFINE l == [o EXCEPT !.nCcalls = @ + 1]
<1>3. y = Sets(x, l, Append(x.cs, a), x.mode)
  <2>1. v = [x EXCEPT !.th = [x.th EXCEPT ![t] = l]]
    BY <1>1, <1>2
  <2>. HIDE DEF l, a, v
  <2>2. v = [th |-> [x.th EXCEPT ![t] = l], cs |-> x.cs, mode |-> x.mode]
    BY <1>1, <2>1, StateFields
  <2>. QED
    BY <2>2, PushFields DEF Sets
<1>4. a \in Activation /\ ~Mark(a) /\ a.t = t /\ a.k = "call"
  BY <1>1 DEF Activation, Plain, Mark, IsResume, IsPcall
<1>5. l \in LuaState /\ l.ci = o.ci /\ l.status = o.status
  BY DEF LuaState
<1>6. m \in Nat
  BY <1>2 DEF LuaState
<1>7. \/ m = MaxCCalls /\ luaD_call(x, t, f) = Raise(y)
      \/ m >= MaxCCalls + ErrorRoom /\ luaD_call(x, t, f) = ErrErr(y)
      \/ /\ ~(m = MaxCCalls) /\ ~(m >= MaxCCalls + ErrorRoom)
         /\ luaD_call(x, t, f) = Entered(y, t, f)
  BY DEF luaD_call, Entered
<1>. HIDE DEF y, l, a, v
<1>8. SameMarks(x.cs, Append(x.cs, a))
  BY <1>1, <1>4, MarksMore
<1>9. Stays(x, y, t)
  BY <1>1, <1>2, <1>3, <1>5, <1>8, SetsGoes DEF OneMore
<1>10. y \in State
  <2>1. [x.th EXCEPT ![t] = l] \in [Thread -> LuaState]
    BY <1>1, <1>5
  <2>2. Append(x.cs, a) \in Seq(Activation) /\ x.mode \in Mode
    BY <1>1, <1>4, AppendFacts DEF State
  <2>. QED
    BY <1>1, <1>3, <2>1, <2>2 DEF State, Sets
<1>11. ASSUME NEW N PROVE Goes(x, [y EXCEPT !.mode = N], t)
  BY <1>9, <1>10, ModeStays, StaysGoes DEF Stays
<1>12. CASE ~(m = MaxCCalls) /\ ~(m >= MaxCCalls + ErrorRoom) /\ luaD_call(x, t, f) = Entered(y, t, f)
  <2>1. m < MaxCCalls + ErrorRoom /\ m # MaxCCalls
    <3>. HIDE DEF m
    <3>. QED
      BY <1>6, <1>12, CallsAssumption
  <2>2. y = Sets(x, [Own(x) EXCEPT !.nCcalls = @ + 1],
                 Append(x.cs, [k |-> "call", t |-> TopThread(x.cs)]), "run")
    BY <1>1, <1>2, <1>3 DEF l, a
  <2>3. CallMove(x, y)
    <3>1. "run" \in Mode /\ Counts(Own(x).nCcalls + 1, "run")
      BY <1>1, <2>1 DEF Mode, Counts
    <3>. QED
      BY <1>1, <2>2, <3>1 DEF CallMove
  <2>4. Fine(y)
    BY <2>3, NoMove, OneMove, MovesKeep DEF Move
  <2>5. y.cs = Append(x.cs, a) /\ y.th = [x.th EXCEPT ![t] = l] /\ y.mode = "run"
    BY <1>1, <1>3 DEF Sets
  <2>6. y.cs # <<>> /\ TopThread(y.cs) = t
    BY <1>1, <1>4, <2>5, PushedTop
  <2>7. Acts(y)
    BY <1>1, <1>2, <1>5, <2>5, <2>6 DEF Acts, Own
  <2>8. Goes(y, Entered(y, t, f), t)
    BY <2>4, <2>5, <2>6, <2>7, EnterGoes
  <2>. QED
    BY <1>9, <1>12, <2>8, StaysGoes
<1>. QED
  BY <1>7, <1>11, <1>12 DEF Raise, ErrErr

-----------------------------------------------------------------------------
(* The steps of the running thread.                                        *)


(* A chain of moves in which the running thread goes on.                   *)
LEMMA GoesStep ==
    ASSUME AllTold, Fine(Then), NEW t, t = TopThread(cstack), th[t].status = "ok",
           Goes(Now, Then, t)
    PROVE  CoStep
<1>1. Now.cs = cstack /\ Now.th = th /\ Then.th = th' /\ OK(Now)
  BY NowFacts, ThenFacts DEF AllTold, Safe
<1>2. Lives(Now.cs, t)
  BY <1>1, TopLives
<1>3. Alters(Now, Then, t) /\ OneMore(Then.th[t].ci, Now.th[t].ci)
  BY <1>2, GoesAlters
<1>. QED
  BY <1>1, <1>3, EnterStep DEF AllTold

LEMMA StaysStep ==
    ASSUME AllTold, Fine(Then), NEW t, t = TopThread(cstack), Stays(Now, Then, t)
    PROVE  CoStep
<1>1. Now.cs = cstack /\ Now.th = th /\ Then.th = th' /\ OK(Now) /\ Fine(Now)
  BY NowFacts, ThenFacts DEF AllTold, Safe
<1>2. Lives(Now.cs, t) /\ t \in Thread
  BY <1>1, TopLives, OwnFacts
<1>3. Alters(Now, Then, t)
  BY <1>2, GoesAlters DEF Stays
<1>4. th'[t].ci = th[t].ci
  BY <1>1 DEF Stays
<1>. QED
  BY <1>1, <1>2, <1>3, <1>4, QuietStep

(* Where a step leads to.                                                  *)
LEMMA NextFine == ASSUME AllTold, Next PROVE Fine(Then) /\ Fine(Now)
BY StepFine DEF AllTold, Safe

LEMMA RunsOK ==
    ASSUME AllTold, Runs
    PROVE  /\ Top.t = TopThread(cstack) /\ th[Top.t].status = "ok" /\ Top.t \in Thread
           /\ Top = TopOf(Now) /\ Top \in Activation /\ th[Top.t] \in LuaState
           /\ Acts(Now) /\ ~IsResume(TopOf(Now)) /\ Now.mode = "run" /\ Own(Now) = th[Top.t]
           /\ Now \in State /\ cstack # <<>> /\ Top = cstack[Len(cstack)] /\ ~Mark(Top)
           /\ Fine(Now) /\ Now.cs = cstack /\ Now.th = th /\ cstack \in Seq(Activation)
<1>1. Fine(Now)
  BY DEF AllTold, Safe
<1>2. /\ Acts(Now) /\ ~IsResume(TopOf(Now)) /\ Now.mode = "run"
      /\ Top = TopOf(Now) /\ Top.t = TopThread(Now.cs) /\ Top.t \in Thread
      /\ Own(Now) = th[Top.t] /\ Now.th[Top.t] = th[Top.t] /\ Top \in Activation
  BY <1>1, RunsFacts
<1>3. Now.cs = cstack /\ Now.th = th /\ cstack \in Seq(Activation) /\ th \in [Thread -> LuaState]
      /\ Now \in State
  BY <1>1, NowFacts
<1>4. ~Mark(Top) /\ Top = cstack[Len(cstack)]
  BY DEF Runs, Mark, IsResume, IsPcall, Top
<1>. QED
  BY <1>1, <1>2, <1>3, <1>4 DEF Acts

LEMMA CallCo ==
    ASSUME AllTold, Next, Runs, NEW f \in Frame, Become(luaD_call(Now, Top.t, f))
    PROVE  CoStep
<1>1. PICK r : r = luaD_call(Now, Top.t, f)
  OBVIOUS
<1>2. Fine(r) /\ Goes(Now, r, Top.t)
  BY <1>1, RunsOK, CallFacts, CallGoes
<1>3. Then = r
  BY <1>1, <1>2, BecomeThen
<1>. QED
  BY <1>2, <1>3, RunsOK, GoesStep

LEMMA CallingCo == ASSUME AllTold, Next, OpMeta \/ CallFromC \/ generic_reader PROVE CoStep
<1>1. Runs
  BY DEF OpMeta, InLua, CallFromC, Starts, InC, generic_reader, InParser, Runs
<1>2. \E f \in Frame : Become(luaD_call(Now, Top.t, f))
  BY FramesKnown DEF OpMeta, CallFromC, generic_reader
<1>. QED
  BY <1>1, <1>2, CallCo

-----------------------------------------------------------------------------
(* The function on top returns, or something else on top ends.             *)
LEMMA TopMeasures ==
    ASSUME AllTold, Acts(Now), NEW t, t = TopThread(cstack), ~IsTry(TopOf(Now))
    PROVE  /\ FramesOf(TopOf(Now)) <= Len(th[t].ci) /\ FramesOf(TopOf(Now)) \in Nat
           /\ th[t].ci \in Seq(Frame)
<1>1. Fine(Now) /\ OK(Now)
  BY DEF AllTold, Safe, Fine
<1>2. Held(Now, closing = "open")
  BY DEF AllTold, Safe
<1>3. cstack # <<>> /\ Own(Now) = th[t] /\ TopOf(Now) \in Activation /\ th[t] \in LuaState
  BY <1>1, NowFacts, OwnFacts DEF Acts
<1>4. /\ th[t].errfunc + FramesOf(TopOf(Now)) <= Len(th[t].ci)
      /\ th[t].errfunc \in Nat /\ Len(th[t].ci) \in Nat
  BY <1>1, <1>2, <1>3, ErrBelow
<1>5. FramesOf(TopOf(Now)) \in Nat
  BY <1>3, ActivationFacts
<1>6. th[t].ci \in Seq(Frame)
  BY <1>3, CallInfoFacts, FramesKnown
<1>7. FramesOf(TopOf(Now)) <= Len(th[t].ci)
  <2>1. PICK m, e, k : m = FramesOf(TopOf(Now)) /\ e = th[t].errfunc /\ k = Len(th[t].ci)
    OBVIOUS
  <2>. QED
    BY <1>4, <1>5, <2>1
<1>. QED
  BY <1>5, <1>6, <1>7

LEMMA LeaveCo == ASSUME AllTold, Fine(Then), LeaveMove(Now, Then) PROVE CoStep
<1>1. /\ Fine(Now) /\ OK(Now) /\ Now.cs = cstack /\ Now.th = th /\ cstack # <<>> /\ Acts(Now)
      /\ cstack \in Seq(Activation)
  BY NowFacts DEF AllTold, Safe, Fine, LeaveMove, Acts
<1>2. PICK t \in Thread : t = TopThread(cstack) /\ Own(Now) = th[t]
  BY <1>1, NowFacts
<1>3. PICK n \in Nat \ {0} : n = Len(cstack) /\ TopOf(Now) = cstack[n]
  BY <1>1, OwnFacts DEF TopOf
<1>4. PICK l \in LuaState, y \in BOOLEAN :
         /\ ~Mark(TopOf(Now)) /\ ~IsTry(TopOf(Now))
         /\ y => FramesOf(TopOf(Now)) = 1 /\ l.ci = SubSeq(th[t].ci, 1, Len(th[t].ci) - 1)
         /\ ~y => l.ci = th[t].ci
         /\ Then = Sets(Now, l, SubSeq(cstack, 1, Len(cstack) - 1), "run")
  <2>1. PICK l \in LuaState :
          /\ \/ /\ TopOf(Now).k = "cfun" \/ (TopOf(Now).k = "exec" /\ TopOf(Now).n = 1)
                /\ l = [Own(Now) EXCEPT !.ci = SubSeq(@, 1, Len(@) - 1)]
             \/ TopOf(Now).k = "call" /\ l = [Own(Now) EXCEPT !.nCcalls = @ - 1]
             \/ TopOf(Now).k = "parse" /\ TopOf(Now).level = 0 /\ l = Own(Now)
             \/ TopOf(Now).k = "hook" /\ l = [Own(Now) EXCEPT !.allowhook = TRUE]
             \/ TopOf(Now).k = "gctm" /\ l = [Own(Now) EXCEPT !.allowhook = TopOf(Now).oldah]
          /\ Then = Sets(Now, l, SubSeq(cstack, 1, Len(cstack) - 1), "run")
    BY <1>1 DEF LeaveMove
  <2>2. ~Mark(TopOf(Now)) /\ ~IsTry(TopOf(Now))
    BY <2>1 DEF Mark, IsResume, IsPcall, IsTry
  <2>3. PICK o \in LuaState : o = Own(Now) /\ o = th[t]
    BY <1>1, <1>2, OwnFacts
  <2>4. CASE TopOf(Now).k = "cfun" \/ (TopOf(Now).k = "exec" /\ TopOf(Now).n = 1)
    <3>1. FramesOf(TopOf(Now)) = 1
      BY <2>4 DEF FramesOf
    <3>2. l = [o EXCEPT !.ci = SubSeq(@, 1, Len(@) - 1)]
      BY <2>1, <2>3, <2>4
    <3>3. l.ci = SubSeq(o.ci, 1, Len(o.ci) - 1)
      BY <3>2 DEF LuaState
    <3>. QED
      BY <2>1, <2>2, <2>3, <3>1, <3>3
  <2>5. CASE ~(TopOf(Now).k = "cfun" \/ (TopOf(Now).k = "exec" /\ TopOf(Now).n = 1))
    <3>1. \/ l = [o EXCEPT !.nCcalls = @ - 1] \/ l = o \/ \E h : l = [o EXCEPT !.allowhook = h]
      BY <2>1, <2>3, <2>5
    <3>2. l.ci = o.ci
      BY <3>1 DEF LuaState
    <3>. QED
      BY <2>1, <2>2, <2>3, <3>2
  <2>. QED
    BY <2>4, <2>5
<1>5. SameMarks(cstack, SubSeq(cstack, 1, Len(cstack) - 1))
  <2>1. n - 1 \in 0..Len(cstack) /\ \A j \in (n - 1 + 1)..Len(cstack) : j = n
    BY <1>3
  <2>2. \A j \in (n - 1 + 1)..Len(cstack) : ~Mark(cstack[j])
    BY <1>3, <1>4, <2>1
  <2>3. SameMarks(cstack, SubSeq(cstack, 1, n - 1))
    BY <1>1, <2>1, <2>2, MarksLess
  <2>. QED
    BY <1>3, <2>3
<1>6. CASE ~y
  <2>1. OneMore(l.ci, th[t].ci)
    BY <1>4, <1>6 DEF OneMore
  <2>2. Stays(Now, Then, t)
    BY <1>1, <1>2, <1>4, <1>5, <1>6, <2>1, SetsGoes, NowFacts
  <2>. QED
    BY <1>2, <2>2, StaysStep
<1>7. CASE y
  <2>1. th[t].ci # <<>>
    <3>1. FramesOf(TopOf(Now)) = 1 /\ 1 <= Len(th[t].ci)
      BY <1>1, <1>2, <1>4, <1>7, TopMeasures
    <3>. QED
      BY <3>1
  <2>2. /\ Then.cs = SubSeq(cstack, 1, Len(cstack) - 1) /\ Then.th = [th EXCEPT ![t] = l]
    BY <1>1, <1>2, <1>4 DEF Sets
  <2>3. Alters(Now, Then, t)
    <3>1. Lives(cstack, t)
      BY <1>1, <1>2, TopLives
    <3>2. \A u \in Thread : u # t => Then.th[u] = th[u]
      BY <2>2, NowFacts, <1>1
    <3>. QED
      BY <1>1, <1>5, <2>2, <3>1, <3>2 DEF Alters
  <2>4. th'[t].ci = SubSeq(th[t].ci, 1, Len(th[t].ci) - 1)
    <3>1. th' = [th EXCEPT ![t] = l]
      BY <2>2, ThenFacts
    <3>. QED
      BY <1>1, <1>2, <1>4, <1>7, <3>1, NowFacts
  <2>. QED
    BY <1>2, <2>1, <2>3, <2>4, LeaveStepSeen DEF AllTold
<1>. QED
  BY <1>6, <1>7

(* luaV_execute goes on with a function, or returns from it.               *)
LEMMA TopSame ==
    ASSUME NEW s, OK(s), s.cs # <<>>, NEW b \in Activation, ~Mark(TopOf(s)), ~Mark(b)
    PROVE  SameMarks(s.cs, [s.cs EXCEPT ![Len(s.cs)] = b])
<1>1. s.cs \in Seq(Activation) /\ ~Mark(s.cs[Len(s.cs)])
  BY OwnFacts DEF TopOf
<1>. QED
  BY <1>1, MarksTop

LEMMA DeeperGoes ==
    ASSUME NEW s, OK(s), Acts(s), TopOf(s).k = "exec", NEW t, t = TopThread(s.cs)
    PROVE  Goes(s, Deeper(s), t)
<1>1. s.th \in [Thread -> LuaState] /\ t \in Thread /\ s.cs # <<>> /\ TopOf(s) \in Activation
  BY OwnFacts DEF Acts
<1>2. PICK o \in LuaState : o = Own(s) /\ o = s.th[t]
  BY OwnFacts DEF Own
<1>3. PICK b \in Exec : b = TopOf(s)
  BY <1>1, ActivationFacts
<1>. DEFINE c == [b EXCEPT !.n = @ + 1]
            l == [o EXCEPT !.ci = Append(@, "lua")]
<1>4. c \in Activation /\ c.k = "exec"
  BY <1>3 DEF Exec, Activation
<1>5. l.ci = Append(o.ci, "lua")
  BY DEF LuaState
<1>6. OneMore(l.ci, s.th[t].ci)
  BY <1>2, <1>5, FramesKnown DEF OneMore
<1>7. ~Mark(c) /\ ~Mark(b)
  BY <1>3, <1>4 DEF Mark, IsResume, IsPcall
<1>. HIDE DEF c
<1>8. SameMarks(s.cs, [s.cs EXCEPT ![Len(s.cs)] = c])
  BY <1>1, <1>3, <1>4, <1>7, TopSame
<1>9. Deeper(s) = Sets(s, l, [s.cs EXCEPT ![Len(s.cs)] = c], s.mode)
  BY <1>2, <1>3 DEF Deeper, c
<1>. HIDE DEF l
<1>. QED
  BY <1>1, <1>6, <1>8, <1>9, SetsGoes

LEMMA ReenterCo == ASSUME AllTold, Fine(Then), ReenterMove(Now, Then) PROVE CoStep
<1>1. /\ Fine(Now) /\ OK(Now) /\ Now.cs = cstack /\ Now.th = th /\ cstack # <<>> /\ Acts(Now)
      /\ cstack \in Seq(Activation) /\ TopOf(Now).k = "exec"
  BY NowFacts DEF AllTold, Safe, Fine, ReenterMove, Acts
<1>2. PICK t \in Thread : t = TopThread(cstack) /\ Own(Now) = th[t]
  BY <1>1, NowFacts
<1>3. CASE Then = Deeper(Now)
  <2>1. Goes(Now, Then, t) /\ th[t].status = "ok"
    BY <1>1, <1>2, <1>3, DeeperGoes DEF Acts
  <2>. QED
    BY <1>2, <2>1, GoesStep
<1>4. CASE Then # Deeper(Now)
  <2>1. PICK o \in LuaState : o = Own(Now) /\ o = th[t]
    BY <1>1, <1>2, OwnFacts
  <2>2. PICK b \in Exec : b = TopOf(Now)
    BY <1>1, OwnFacts, ActivationFacts
  <2>. DEFINE c == [b EXCEPT !.n = @ - 1]
              l == [o EXCEPT !.ci = SubSeq(@, 1, Len(@) - 1)]
  <2>3. b.n > 1 /\ Then = Sets(Now, l, [cstack EXCEPT ![Len(cstack)] = c], Now.mode)
    BY <1>1, <1>4, <2>1, <2>2 DEF ReenterMove, Deeper
  <2>4. l.ci = SubSeq(th[t].ci, 1, Len(th[t].ci) - 1)
    BY <2>1 DEF LuaState
  <2>5. c \in Activation /\ c.k = "exec" /\ b.k = "exec"
    BY <2>2, <2>3 DEF Exec, Activation
  <2>6. ~Mark(c) /\ ~Mark(b) /\ ~IsTry(b)
    BY <2>5 DEF Mark, IsResume, IsPcall, IsTry
  <2>. HIDE DEF c
  <2>7. SameMarks(cstack, [cstack EXCEPT ![Len(cstack)] = c])
    BY <1>1, <2>2, <2>5, <2>6, TopSame
  <2>8. th[t].ci # <<>>
    <3>1. FramesOf(b) = b.n /\ FramesOf(b) <= Len(th[t].ci)
      BY <1>1, <1>2, <2>2, <2>5, <2>6, TopMeasures DEF FramesOf
    <3>2. b.n \in Nat /\ b.n > 1
      BY <2>2, <2>3 DEF Exec
    <3>3. Len(<<>>) = 0
      OBVIOUS
    <3>. QED
      BY ONLY <3>1, <3>2, <3>3
  <2>. HIDE DEF l
  <2>9. Then.cs = [cstack EXCEPT ![Len(cstack)] = c] /\ Then.th = [th EXCEPT ![t] = l]
    BY <1>1, <1>2, <2>3 DEF Sets
  <2>10. Alters(Now, Then, t)
    <3>1. Lives(cstack, t)
      BY <1>1, <1>2, TopLives
    <3>2. \A u \in Thread : u # t => Then.th[u] = th[u]
      BY <2>9, NowFacts, <1>1
    <3>. QED
      BY <1>1, <2>7, <2>9, <3>1, <3>2 DEF Alters
  <2>11. th'[t].ci = SubSeq(th[t].ci, 1, Len(th[t].ci) - 1)
    <3>1. th' = [th EXCEPT ![t] = l]
      BY <2>9, ThenFacts
    <3>. QED
      BY <1>1, <1>2, <2>4, <3>1, NowFacts
  <2>. QED
    BY <1>2, <2>8, <2>10, <2>11, LeaveStepSeen DEF AllTold
<1>. QED
  BY <1>3, <1>4

LEMMA OpCallCo == ASSUME AllTold, Next, OpCall PROVE CoStep
<1>1. Runs /\ Top.k = "exec"
  BY DEF OpCall, InLua, Runs
<1>2. PICK t \in Thread : t = Top.t /\ t = TopThread(cstack) /\ th[t].status = "ok"
  BY <1>1, RunsOK
<1>3. Fine(Now) /\ Acts(Now) /\ Now.mode = "run" /\ Now \in State /\ Now.cs = cstack
  BY <1>1, RunsOK
<1>4. Grown(Now, Grow(Now, t), t) /\ Stays(Now, Grow(Now, t), t) /\ Grow(Now, t).cs = cstack
  BY <1>2, <1>3, GrowFacts, GrowStays
<1>5. Goes(Now, Then, t)
  <2>1. CASE \E f \in Frame : Then = Entered(Now, Top.t, f)
    BY <1>2, <1>3, <2>1, EnterGoes
  <2>2. CASE Then = Grow(Now, Top.t)
    BY <1>2, <1>4, <2>2 DEF Stays
  <2>3. CASE Grow(Now, Top.t).mode = "run" /\ Then = Deeper(Grow(Now, Top.t))
    <3>1. PICK g : g = Grow(Now, t)
      OBVIOUS
    <3>2. OK(g) /\ Acts(g) /\ g.cs = cstack /\ TopOf(g) = Top
      BY <1>4, <3>1 DEF Grown, Fine, TopOf, Top
    <3>3. Goes(g, Deeper(g), t)
      BY <1>1, <1>2, <3>2, DeeperGoes
    <3>. QED
      BY <1>2, <1>4, <2>3, <3>1, <3>3, StaysGoes
  <2>. QED
    BY <1>3, <2>1, <2>2, <2>3, OpCallEnters
<1>. QED
  BY <1>2, <1>5, NextFine, GoesStep

LEMMA OpTailCallCo == ASSUME AllTold, Next, OpTailCall PROVE CoStep
<1>1. Runs
  BY DEF OpTailCall, InLua, Runs
<1>2. PICK t \in Thread : t = Top.t /\ t = TopThread(cstack)
  BY <1>1, RunsOK
<1>3. Fine(Now) /\ Now \in State
  BY <1>1, RunsOK
<1>4. Stays(Now, Then, t)
  BY <1>2, <1>3, GrowStays, OpTailCallGrows
<1>. QED
  BY <1>2, <1>4, NextFine, StaysStep

(* The parser counts a level, or the CallInfos of a thread are halved.     *)
LEMMA LevelCo == ASSUME AllTold, Fine(Then), LevelMove(Now, Then) PROVE CoStep
<1>1. /\ Fine(Now) /\ OK(Now) /\ Now.cs = cstack /\ Now.th = th /\ cstack # <<>> /\ Acts(Now)
      /\ cstack \in Seq(Activation) /\ th \in [Thread -> LuaState]
  BY NowFacts DEF AllTold, Safe, Fine, LevelMove, Acts
<1>2. PICK t \in Thread : t = TopThread(cstack) /\ Own(Now) = th[t]
  BY <1>1, NowFacts
<1>3. PICK o \in LuaState : o = Own(Now) /\ o = th[t]
  BY <1>1, <1>2, OwnFacts
<1>4. PICK d \in {1, -1}, N \in {"run", "throw"} :
       /\ TopOf(Now).k = "parse" /\ TopOf(Now).level + d >= 0
       /\ Then = Sets(Now, [o EXCEPT !.nCcalls = @ + d],
                   [cstack EXCEPT ![Len(cstack)] = [TopOf(Now) EXCEPT !.level = @ + d]], N)
  BY <1>1, <1>3 DEF LevelMove
<1>5. PICK b \in Parse : b = TopOf(Now)
  BY <1>1, <1>4, OwnFacts, ActivationFacts
<1>6. PICK c, l : c = [b EXCEPT !.level = @ + d] /\ l = [o EXCEPT !.nCcalls = @ + d]
  BY Zenon
<1>7. c \in Activation /\ c.k = "parse" /\ b.k = "parse"
  <2>1. b.level + d \in Nat
    BY <1>4, <1>5 DEF Parse
  <2>. QED
    BY <1>6, <2>1 DEF Parse, Activation
<1>8. l.ci = th[t].ci
  BY <1>3, <1>6 DEF LuaState
<1>9. ~Mark(c) /\ ~Mark(b)
  BY <1>7 DEF Mark, IsResume, IsPcall
<1>10. SameMarks(cstack, [cstack EXCEPT ![Len(cstack)] = c])
  BY <1>1, <1>5, <1>7, <1>9, TopSame
<1>11. Then = Sets(Now, l, [cstack EXCEPT ![Len(cstack)] = c], N)
  BY <1>4, <1>5, <1>6
<1>12. OneMore(l.ci, th[t].ci)
  BY <1>8 DEF OneMore
<1>13. Stays(Now, Then, t)
  BY <1>1, <1>2, <1>8, <1>10, <1>11, <1>12, SetsGoes
<1>. QED
  BY <1>2, <1>13, StaysStep

LEMMA SizeCo == ASSUME AllTold, Fine(Then), SizeMove(Now, Then) PROVE CoStep
<1>1. Fine(Now) /\ OK(Now) /\ Now.cs = cstack /\ Now.th = th /\ th \in [Thread -> LuaState]
  BY NowFacts DEF AllTold, Safe
<1>2. PICK x \in Thread, z \in Nat : Then = [Now EXCEPT !.th[x].size_ci = z]
  BY DEF SizeMove
<1>3. PICK o \in LuaState : o = th[x]
  BY <1>1
<1>4. PICK l : l = [o EXCEPT !.size_ci = z]
  OBVIOUS
<1>5. Then.th = [th EXCEPT ![x] = l] /\ Then.cs = cstack
  BY <1>1, <1>2, <1>3, <1>4 DEF Now
<1>6. l.ci = o.ci /\ l.status = o.status /\ l.fn = o.fn
  BY <1>4 DEF LuaState
<1>7. \A u \in Thread : /\ Then.th[u].ci = th[u].ci /\ Then.th[u].status = th[u].status
                        /\ Then.th[u].fn = th[u].fn
  BY <1>1, <1>3, <1>5, <1>6
<1>8. Alters(Now, Then, x)
  BY <1>1, <1>5, <1>7, MarksKept DEF Alters
<1>9. th'[x].ci = th[x].ci
  BY <1>7, ThenFacts
<1>. QED
  BY <1>1, <1>8, <1>9, QuietStep

(* An error is raised, or its handler returns.                             *)
LEMMA ThrowingCo ==
    ASSUME AllTold, Next, RaiseError \/ OutOfMemory \/ SyntaxError \/ HandlerReturns
    PROVE  CoStep
<1>1. Runs
  BY DEF RaiseError, OutOfMemory, SyntaxError, HandlerReturns, InLua, InC, InParser, Runs
<1>2. PICK N : Become([Now EXCEPT !.mode = N])
  BY DEF RaiseError, OutOfMemory, SyntaxError, HandlerReturns, Raise
<1>3. PICK t \in Thread : t = TopThread(cstack)
  BY <1>1, RunsOK
<1>4. Then = [Now EXCEPT !.mode = N]
  BY <1>2 DEF Become, Then, Now
<1>5. Stays(Now, Then, t)
  BY <1>1, <1>4, RunsOK, ModeStays
<1>. QED
  BY <1>3, <1>5, NextFine, StaysStep


-----------------------------------------------------------------------------
(* Hooks, finalizers and error handlers are called.                        *)
LEMMA BegunCo ==
    ASSUME AllTold, Next, NEW t, t = TopThread(cstack), th[t].status = "ok",
           NEW y, Stays(Now, y, t), Fine(y), Acts(y), y.mode = "run", ~IsResume(TopOf(y)),
           TopThread(y.cs) = t, NEW f \in Frame, Become(luaD_call(y, t, f))
    PROVE  CoStep
<1>1. PICK r : r = luaD_call(y, t, f)
  OBVIOUS
<1>2. Fine(r) /\ Goes(y, r, t)
  BY <1>1, CallFacts, CallGoes
<1>3. Then = r
  BY <1>1, <1>2, BecomeThen
<1>4. Goes(Now, Then, t)
  BY <1>2, <1>3, StaysGoes
<1>. QED
  BY <1>2, <1>3, <1>4, GoesStep

LEMMA BeginCo ==
    ASSUME AllTold, Next, Acts(Now), mode = "run", NEW t, t = TopThread(cstack),
           NEW a \in Activation, a.t = t, NEW h \in BOOLEAN,
           \/ a.k = "hook" /\ Own(Now).allowhook /\ h = FALSE
           \/ a.k = "gctm" /\ a.oldah = Own(Now).allowhook /\ h = FALSE,
           NEW y, y = Push([Now EXCEPT !.th[t].allowhook = h], a),
           NEW f \in Frame, Become(luaD_call(y, t, f))
    PROVE  CoStep
<1>1. /\ Fine(Now) /\ OK(Now) /\ Now \in State /\ Now.cs = cstack /\ Now.th = th
      /\ Now.mode = "run" /\ t \in Thread /\ cstack \in Seq(Activation)
      /\ th \in [Thread -> LuaState]
  BY NowFacts, OwnFacts DEF AllTold, Safe
<1>2. PICK o \in LuaState : o = Own(Now) /\ o = th[t]
  BY <1>1, OwnFacts DEF Own
<1>3. PICK l : l = [o EXCEPT !.allowhook = h]
  OBVIOUS
<1>4. y = Sets(Now, l, Append(cstack, a), Now.mode)
  <2>1. Push([Now EXCEPT !.th[t].allowhook = h], a) =
             Sets(Now, [Own(Now) EXCEPT !.allowhook = h], Append(Now.cs, a), Now.mode)
    BY <1>1, BegunFields
  <2>. QED
    BY <1>1, <1>2, <1>3, <2>1
<1>5. Fine(y) /\ Acts(y) /\ TopOf(y) = a /\ TopThread(y.cs) = t /\ y.mode = "run"
  <2>1. BeginMove(Now, y)
    BY <1>1, <1>2, <1>3, <1>4 DEF BeginMove
  <2>2. l = [Own(Now) EXCEPT !.allowhook = h] /\ y = Sets(Now, l, Append(Now.cs, a), Now.mode)
    BY <1>1, <1>2, <1>3, <1>4
  <2>. QED
    BY <1>1, <2>1, <2>2, BeginStep
<1>6. ~IsResume(TopOf(y)) /\ ~Mark(a)
  BY <1>5 DEF IsResume, Mark, IsPcall
<1>7. l.ci = th[t].ci
  BY <1>2, <1>3 DEF LuaState
<1>8. SameMarks(cstack, Append(cstack, a))
  BY <1>1, <1>6, MarksMore
<1>9. Stays(Now, y, t)
  <2>1. OneMore(l.ci, th[t].ci)
    BY <1>7 DEF OneMore
  <2>. QED
    BY <1>1, <1>4, <1>7, <1>8, <2>1, SetsGoes
<1>10. th[t].status = "ok"
  BY <1>2 DEF Acts
<1>. QED
  BY <1>5, <1>6, <1>9, <1>10, BegunCo

LEMMA luaD_callhookCo == ASSUME AllTold, Next, luaD_callhook PROVE CoStep
<1>1. Runs /\ mode = "run" /\ th[Top.t].allowhook
  BY DEF luaD_callhook, InLua, Starts, InC, Runs
<1>2. PICK t, a : t = Top.t /\ a = [k |-> "hook", t |-> t]
  OBVIOUS
<1>3. PICK y : y = Push([Now EXCEPT !.th[t].allowhook = FALSE], a) /\ Become(luaD_call(y, t, "lua"))
  BY <1>2 DEF luaD_callhook
<1>4. a \in Activation /\ a.t = t /\ a.k = "hook"
  BY <1>1, <1>2, RunsOK DEF Activation, Plain
<1>5. PICK h \in BOOLEAN : h = FALSE
  OBVIOUS
<1>6. y = Push([Now EXCEPT !.th[t].allowhook = h], a)
  BY <1>3, <1>5
<1>7. Acts(Now) /\ t = TopThread(cstack) /\ Own(Now).allowhook
  BY <1>1, <1>2, RunsOK
<1>. QED
  BY <1>1, <1>3, <1>4, <1>5, <1>6, <1>7, BeginCo, FramesKnown

LEMMA GCTMCo == ASSUME AllTold, Next, GCTM PROVE CoStep
<1>1. /\ mode = "run" /\ cstack # <<>> /\ Fine(Now)
      /\ Top.k \in {"exec", "parse"} \/ (Top.k = "try" /\ Top.kind = "close")
  BY DEF GCTM, InLua, InParser, AllTold, Safe
<1>2. PICK t, a, b : t = Top.t /\ b = th[t].allowhook /\ a = [k |-> "gctm", t |-> t, oldah |-> b]
  OBVIOUS
<1>3. PICK y : y = Push([Now EXCEPT !.th[t].allowhook = FALSE], a) /\ Become(luaD_call(y, t, "lua"))
  BY <1>2 DEF GCTM
<1>4. Acts(Now) /\ t = TopThread(cstack) /\ t \in Thread /\ Own(Now) = th[t]
  <2>1. ~IsResume(TopOf(Now))
    BY <1>1, NowFacts DEF IsResume
  <2>. QED
    BY <1>1, <1>2, <2>1, NowFacts, ActsFacts
<1>5. a \in Activation /\ a.t = t /\ a.k = "gctm" /\ a.oldah = Own(Now).allowhook
  <2>1. b \in BOOLEAN
    BY <1>1, <1>2, <1>4, NowFacts DEF LuaState
  <2>. QED
    BY <1>2, <1>4, <2>1 DEF Activation, Gctm
<1>6. PICK h \in BOOLEAN : h = FALSE
  BY Zenon
<1>7. y = Push([Now EXCEPT !.th[t].allowhook = h], a)
  BY Zenon, <1>3, <1>6
<1>. QED
  BY <1>1, <1>3, <1>4, <1>5, <1>6, <1>7, BeginCo, FramesKnown

LEMMA luaG_errormsgCo == ASSUME AllTold, Next, luaG_errormsg PROVE CoStep
<1>0. Fine(Now) /\ Now \in State
  BY NowFacts DEF AllTold, Safe
<1>1. mode = "error" /\ cstack # <<>>
  <2>1. mode = "error"
    BY DEF luaG_errormsg
  <2>. QED
    BY <1>0, <2>1, ThrowFacts
<1>2. Acts(Now)
  BY <1>0, <1>1, NowFacts, ActsFacts
<1>3. PICK t, s, a : t = Top.t /\ s = [Now EXCEPT !.mode = "run"] /\ a = [k |-> "errormsg", t |-> t]
  OBVIOUS
<1>4. t = TopThread(cstack) /\ th[t].status = "ok" /\ Now.cs = cstack /\ Now.th = th
      /\ cstack \in Seq(Activation)
  BY <1>0, <1>1, <1>2, <1>3, NowFacts DEF Acts
<1>5. PICK x : /\ Become(x)
               /\ \/ \E N : x = [Now EXCEPT !.mode = N]
                  \/ x = luaD_call(Push(s, a), t, "lua")
  BY <1>3 DEF luaG_errormsg, ErrErr
<1>6. CASE \E N : x = [Now EXCEPT !.mode = N]
  <2>1. Then = x
    BY <1>5, <1>6 DEF Become, Then, Now
  <2>2. PICK N : Then = [Now EXCEPT !.mode = N]
    BY <1>6, <2>1
  <2>3. Stays(Now, Then, t)
    BY <1>0, <2>2, ModeStays
  <2>. QED
    BY <1>4, <2>3, NextFine, StaysStep
<1>7. CASE x = luaD_call(Push(s, a), t, "lua")
  <2>1. PICK z : z = Push(s, a)
    OBVIOUS
  <2>2. /\ Fine(z) /\ Acts(z) /\ TopThread(z.cs) = t /\ ~IsResume(TopOf(z))
        /\ a \in Activation /\ z = [th |-> th, cs |-> Append(cstack, a), mode |-> "run"]
    BY <1>0, <1>1, <1>2, <1>3, <2>1, HandlerBegins
  <2>3. z.th = th /\ z.cs = Append(cstack, a) /\ z.mode = "run"
    BY <2>2
  <2>4. ~Mark(a)
    BY <1>3 DEF Mark, IsResume, IsPcall
  <2>5. SameMarks(cstack, z.cs)
    BY <1>4, <2>2, <2>3, <2>4, MarksMore
  <2>6. Stays(Now, z, t)
    BY <1>4, <2>3, <2>5 DEF Stays, Goes, OneMore
  <2>. QED
    BY <1>4, <1>5, <1>7, <2>1, <2>2, <2>3, <2>6, BegunCo, FramesKnown
<1>. QED
  BY <1>5, <1>6, <1>7

(* lua_yield raises an error instead.                                      *)
LEMMA YieldFailsCo ==
    ASSUME AllTold, Next, lua_yield, Then = Raise(Now)
    PROVE  CoStep
<1>1. Runs
  BY DEF lua_yield, Starts, InC, Runs
<1>2. PICK t \in Thread : t = TopThread(cstack)
  BY <1>1, RunsOK
<1>3. Stays(Now, Then, t)
  BY <1>1, RunsOK, ModeStays DEF Raise
<1>. QED
  BY <1>2, <1>3, NextFine, StaysStep


-----------------------------------------------------------------------------
(* Protected calls begin.                                                  *)
LEMMA ProtectBegun ==
    ASSUME AllTold, NEW f \in Protecting, Starts(f), NEW t, t = Top.t,
           NEW ef, ef = HandlerFor(Now), NEW p, p = luaD_pcall(Now, t, ef)
    PROVE  /\ Fine(p) /\ Acts(p) /\ TopThread(p.cs) = t /\ ~IsResume(TopOf(p)) /\ p.mode = "run"
           /\ OK(p) /\ t = TopThread(cstack) /\ t \in Thread /\ p \in State
<1>1. Fine(Now)
  BY DEF AllTold, Safe
<1>2. Runs /\ TopOf(Now).k = "cfun" /\ TopOf(Now).f = f /\ Own(Now).status = "ok"
  BY <1>1, StartsFacts
<1>3. t = TopThread(Now.cs) /\ t \in Thread /\ Now.mode = "run" /\ Now.cs = cstack
  BY <1>2, RunsOK
<1>4. Began(Now, p, t)
  BY <1>1, <1>2, <1>3, PcallStep
<1>. QED
  BY <1>3, <1>4 DEF Began, Fine, OK

LEMMA ProtectCo ==
    ASSUME AllTold, Next, NEW f \in Protecting, Starts(f), NEW t, t = Top.t,
           NEW ef, ef = HandlerFor(Now), NEW p, p = luaD_pcall(Now, t, ef), Goes(p, Then, t)
    PROVE  CoStep
<1>1. Fine(Now) /\ Fine(Then)
  BY NextFine
<1>2. Runs /\ TopOf(Now).k = "cfun" /\ TopOf(Now).f = f /\ Own(Now).status = "ok"
  BY <1>1, StartsFacts
<1>3. /\ OK(p) /\ t = TopThread(cstack) /\ t = TopThread(p.cs) /\ t \in Thread
      /\ Acts(Now) /\ Now \in State /\ Now.cs = cstack /\ Now.th = th /\ cstack \in Seq(Activation)
  BY <1>2, ProtectBegun, RunsOK
<1>4. PICK o \in LuaState : o = Own(Now) /\ o = th[t]
  BY <1>2, <1>3, RunsOK
<1>5. PICK a : a = TryOf("pcall", t, o)
  OBVIOUS
<1>6. a \in Activation /\ IsPcall(a) /\ a.t = t /\ a.old_ci = Len(th[t].ci)
  <2>1. a \in Try /\ a.kind = "pcall" /\ a.t = t /\ a.old_ci = Len(o.ci)
    BY <1>3, <1>5, TryFacts
  <2>. QED
    BY <1>4, <2>1 DEF Activation, Try, IsPcall
<1>7. PICK l : l = [o EXCEPT !.errorJmp = Len(cstack) + 1, !.errfunc = ef]
  OBVIOUS
<1>8. p.th = [th EXCEPT ![t] = l] /\ p.cs = Append(cstack, a)
  <2>1. p = Sets(Now, [Own(Now) EXCEPT !.errorJmp = Len(Now.cs) + 1, !.errfunc = ef],
                 Append(Now.cs, TryOf("pcall", t, Own(Now))), Now.mode)
    BY <1>3, PcallFields
  <2>2. p = Sets(Now, l, Append(cstack, a), Now.mode)
    BY <1>3, <1>4, <1>5, <1>7, <2>1
  <2>3. Sets(Now, l, Append(cstack, a), Now.mode).th = [th EXCEPT ![t] = l]
        /\ Sets(Now, l, Append(cstack, a), Now.mode).cs = Append(cstack, a)
    BY ONLY <1>3 DEF Sets
  <2>. QED
    BY ONLY <2>2, <2>3
<1>9. l.ci = o.ci /\ l.status = o.status /\ l.fn = o.fn
  BY <1>7 DEF LuaState
<1>10. \A u \in Thread : p.th[u].ci = th[u].ci /\ p.th[u].status = th[u].status
                         /\ p.th[u].fn = th[u].fn
  <2>1. th \in [Thread -> LuaState]
    BY <1>1, NowFacts
  <2>. QED
    BY <1>3, <1>4, <1>8, <1>9, <2>1
<1>11. Lives(p.cs, t)
  BY <1>3, TopLives
<1>12. Alters(p, Then, t) /\ OneMore(Then.th[t].ci, p.th[t].ci)
  BY <1>11, GoesAlters
<1>13. OneMore(th'[t].ci, th[t].ci)
  BY <1>1, <1>3, <1>10, <1>12, ThenFacts
<1>14. Safe /\ Told(Now)
  BY DEF AllTold
<1>15. TopOf(Now).k = "cfun" /\ TopOf(Now).f \in Protecting /\ t = TopThread(cstack)
       /\ Acts(Now) /\ Fine(Then)
  BY <1>1, <1>2, <1>3
<1>16. Alters(p, Then, t) /\ p.cs = Append(cstack, a)
  BY <1>8, <1>12
<1>. QED
  BY ONLY <1>6, <1>10, <1>13, <1>14, <1>15, <1>16, ProtectStep

LEMMA ProtectedCallCo ==
    ASSUME AllTold, Next, NEW f \in Protecting, Starts(f), NEW t, t = Top.t,
           NEW ef, ef = HandlerFor(Now), NEW g \in Frame,
           Become(luaD_call(luaD_pcall(Now, t, ef), t, g))
    PROVE  CoStep
<1>1. PICK p, r : p = luaD_pcall(Now, t, ef) /\ r = luaD_call(p, t, g)
  OBVIOUS
<1>2. Fine(p) /\ Acts(p) /\ TopThread(p.cs) = t /\ ~IsResume(TopOf(p)) /\ p.mode = "run"
  BY <1>1, ProtectBegun
<1>3. Fine(r) /\ Goes(p, r, t)
  BY <1>1, <1>2, CallFacts, CallGoes
<1>4. Then = r
  BY <1>1, <1>3, BecomeThen
<1>. QED
  BY <1>1, <1>3, <1>4, ProtectCo

LEMMA luaB_pcallCo == ASSUME AllTold, Next, luaB_pcall PROVE CoStep
<1>1. Starts("pcall") /\ Fine(Now)
  BY DEF luaB_pcall, AllTold, Safe
<1>2. PICK f \in Callee : Become(luaD_call(luaD_pcall(Now, Top.t, 0), Top.t, f))
  BY DEF luaB_pcall
<1>3. 0 = HandlerFor(Now) /\ f \in Frame
  BY <1>1, StartsFacts, FramesKnown DEF HandlerFor
<1>. QED
  BY <1>1, <1>2, <1>3, ProtectedCallCo DEF Protecting

LEMMA luaB_xpcallCo == ASSUME AllTold, Next, luaB_xpcall PROVE CoStep
<1>0. Fine(Now)
  BY DEF AllTold, Safe
<1>1. PICK f \in {"xpcall", "xpcallnil"} : Starts(f)
  BY DEF luaB_xpcall
<1>2. PICK ef : ef = Len(th[Top.t].ci)
  OBVIOUS
<1>3. Become(luaD_call(luaD_pcall(Now, Top.t, ef), Top.t, "lua"))
  BY <1>2 DEF luaB_xpcall
<1>4. ef = HandlerFor(Now) /\ "lua" \in Frame
  BY <1>0, <1>1, <1>2, StartsFacts, RunsFacts, FramesKnown DEF HandlerFor
<1>. QED
  BY <1>1, <1>3, <1>4, ProtectedCallCo DEF Protecting

LEMMA luaD_protectedparserCo == ASSUME AllTold, Next, luaD_protectedparser PROVE CoStep
<1>0. Fine(Now) /\ Fine(Then)
  BY NextFine
<1>1. Starts("load")
  BY DEF luaD_protectedparser
<1>2. PICK t, a, p, ef : /\ t = Top.t /\ a = [k |-> "parse", t |-> t, level |-> 0]
                         /\ ef = th[t].errfunc /\ p = luaD_pcall(Now, t, ef)
  OBVIOUS
<1>3. Become(Push(p, a))
  BY <1>2 DEF luaD_protectedparser
<1>4. Runs /\ ef = HandlerFor(Now) /\ t \in Thread
  BY <1>0, <1>1, <1>2, StartsFacts, RunsFacts DEF HandlerFor
<1>5. p \in State
  BY <1>1, <1>2, <1>4, ProtectBegun DEF Protecting
<1>6. a \in Activation /\ ~Mark(a)
  <2>1. a \in Activation
    BY <1>2, <1>4 DEF Activation, Parse
  <2>2. a.k = "parse"
    BY <1>2
  <2>. QED
    BY <2>1, <2>2 DEF Mark, IsResume, IsPcall
<1>7. Push(p, a) = [th |-> p.th, cs |-> Append(p.cs, a), mode |-> p.mode]
  BY <1>5, PushState
<1>8. Then.th = p.th /\ Then.cs = Append(p.cs, a)
  <2>1. PICK r : r = Push(p, a) /\ Become(r)
    BY <1>3
  <2>2. r.th = p.th /\ r.cs = Append(p.cs, a)
    BY <1>7, <2>1
  <2>. QED
    BY <2>1, <2>2 DEF Become, Then
<1>9. SameMarks(p.cs, Then.cs)
  BY <1>5, <1>6, <1>8, MarksMore DEF State
<1>10. Goes(p, Then, t)
  BY <1>8, <1>9 DEF Goes, OneMore
<1>. QED
  BY <1>1, <1>2, <1>4, <1>10, ProtectCo DEF Protecting

(* The host program calls.                                                 *)
LEMMA MainEmpty ==
    ASSUME Fine(Now), cstack = <<>>
    PROVE  th[MainThread].ci = <<>> /\ th[MainThread] \in LuaState /\ MainThread \in Thread
<1>1. PICK F, G, H : Shape(th, cstack, mode, F, G, H)
  BY NowFacts DEF OK, Good
<1>2. Len(cstack) = 0 /\ TopThread(cstack) = MainThread /\ MainThread \in Thread
  BY NowFacts, CallsAssumption
<1>3. F[0] = 0
  BY <1>1 DEF Shape, Measured
<1>4. ~Switching(th[MainThread], cstack, mode)
  BY <1>2 DEF Switching
<1>5. Len(th[MainThread].ci) = 0
  BY <1>1, <1>2, <1>3, <1>4, TopMeasure DEF TopAt
<1>6. th[MainThread] \in LuaState
  BY <1>2, NowFacts
<1>7. th[MainThread].ci \in Seq(Frame)
  BY <1>6 DEF LuaState
<1>. QED
  BY <1>2, <1>5, <1>6, <1>7

LEMMA lua_cpcallCo == ASSUME AllTold, Next, lua_cpcall PROVE CoStep
<1>0. Fine(Now) /\ Fine(Then)
  BY NextFine
<1>1. /\ cstack = <<>>
      /\ Become(luaD_call(luaD_pcall(Now, MainThread, 0), MainThread, "c"))
  BY DEF lua_cpcall
<1>2. PICK t \in Thread : t = MainThread
  BY CallsAssumption
<1>3. /\ Now.cs = <<>> /\ Now.mode = "run" /\ Own(Now).status = "ok" /\ Now \in State
      /\ t = TopThread(Now.cs) /\ t = TopThread(cstack) /\ Now.th = th
      /\ th[t] \in LuaState /\ Own(Now) = th[t] /\ th \in [Thread -> LuaState]
  BY <1>0, <1>1, <1>2, NowFacts, BetweenCalls
<1>4. 0 = HandlerFor(Now) /\ "c" \in Frame
  BY <1>3 DEF HandlerFor, Frame, CFunction
<1>5. PICK p, r : p = luaD_pcall(Now, t, 0) /\ r = luaD_call(p, t, "c")
  OBVIOUS
<1>6. Began(Now, p, t)
  BY <1>0, <1>3, <1>4, <1>5, PcallStep
<1>7. Fine(p) /\ Acts(p) /\ TopThread(p.cs) = t /\ ~IsResume(TopOf(p)) /\ p.mode = "run"
  BY <1>3, <1>6 DEF Began
<1>8. Fine(r) /\ Goes(p, r, t)
  BY <1>4, <1>5, <1>7, CallFacts, CallGoes
<1>9. Then = r
  BY <1>1, <1>2, <1>5, <1>8, BecomeThen
<1>10. PICK o \in LuaState : o = th[t]
  BY <1>3
<1>11. PICK a, l : a = TryOf("pcall", t, o) /\ l = [o EXCEPT !.errorJmp = Len(Now.cs) + 1, !.errfunc = 0]
  OBVIOUS
<1>12. a \in Activation /\ ~Mark(a)
  <2>1. a \in Try /\ a.kind = "pcall" /\ a.old_ci = Len(o.ci)
    BY <1>11, TryFacts
  <2>2. a.old_ci = 0
    BY <1>0, <1>1, <1>2, <1>10, <2>1, MainEmpty
  <2>. QED
    BY <2>1, <2>2 DEF Activation, Mark, IsResume, IsPcall
<1>13. p = Sets(Now, l, Append(Now.cs, a), Now.mode)
  <2>1. p = Sets(Now, [Own(Now) EXCEPT !.errorJmp = Len(Now.cs) + 1, !.errfunc = 0],
                 Append(Now.cs, TryOf("pcall", t, Own(Now))), Now.mode)
    BY <1>3, <1>5, PcallFields
  <2>. QED
    BY <1>3, <1>10, <1>11, <2>1
<1>14. l.ci = o.ci
  BY <1>11 DEF LuaState
<1>15. SameMarks(Now.cs, Append(Now.cs, a))
  BY <1>3, <1>12, MarksMore DEF State
<1>16. Stays(Now, p, t)
  <2>1. OneMore(l.ci, Now.th[t].ci)
    BY <1>3, <1>10, <1>14 DEF OneMore
  <2>. QED
    BY <1>3, <1>10, <1>13, <1>14, <1>15, <2>1, SetsGoes
<1>17. Goes(Now, Then, t)
  BY <1>8, <1>9, <1>16, StaysGoes
<1>. QED
  BY <1>0, <1>3, <1>17, GoesStep

-----------------------------------------------------------------------------
(* Activations of the running thread go away.                              *)
LEMMA CutUnresumed ==
    ASSUME NEW C \in Seq(Activation), NEW k \in 0..Len(C),
           \A j \in (k + 1)..Len(C) : ~IsResume(C[j])
    PROVE  /\ ChainOf(SubSeq(C, 1, k)) = ChainOf(C)
           /\ \A u : Lives(SubSeq(C, 1, k), u) <=> Lives(C, u)
<1>1. PICK D \in Seq(Activation) : D = SubSeq(C, 1, k)
  BY CutFacts
<1>2. Len(D) = k /\ Len(C) \in Nat /\ \A i \in 1..k : D[i] = C[i]
  BY <1>1, CutFacts
<1>3. \A j \in 1..Len(C) : IsResume(C[j]) => j \in 1..k
  BY <1>2
<1>4. \A j \in 1..k : j \in 1..Len(C)
  BY <1>2
<1>5. \A j \in Nat : (ResumeAt(D, j) <=> ResumeAt(C, j)) /\ (ResumeAt(D, j) => C[j].t = D[j].t)
  BY <1>2, <1>3, <1>4 DEF ResumeAt
<1>6. \A u : Lives(D, u) <=> Lives(C, u)
  BY <1>2, <1>3, <1>4 DEF Lives
<1>. QED
  BY <1>1, <1>5, <1>6, ChainSame

LEMMA CutStep ==
    ASSUME Fine(Now), Fine(Then), NEW t, t = TopThread(cstack), NEW k \in 0..Len(cstack),
           \A j \in (k + 1)..Len(cstack) : cstack[j].t = t /\ ~IsResume(cstack[j]),
           NEW D, D = SubSeq(cstack, 1, k), SameMarks(D, cstack'),
           \A u \in Thread : u # t => th'[u] = th[u],
           Seen(Guards(D, t), th'[t].ci) \in CoSteps(FramesSeen(Now)[t])
    PROVE  CoStep
<1>1. Now.cs = cstack /\ Now.th = th /\ cstack \in Seq(Activation) /\ OK(Now)
  BY NowFacts
<1>2. Then.cs = cstack' /\ Then.th = th' /\ cstack' \in Seq(Activation)
  BY ThenFacts
<1>3. t \in Thread /\ Lives(cstack, t)
  BY <1>1, OwnFacts, TopLives
<1>4. D \in Seq(Activation)
  BY <1>1, CutFacts
<1>5. ChainOf(D) = ChainOf(cstack) /\ \A u : Lives(D, u) <=> Lives(cstack, u)
  BY <1>1, CutUnresumed
<1>6. /\ ChainOf(cstack') = ChainOf(D)
      /\ \A u : Guards(cstack', u) = Guards(D, u) /\ (Lives(cstack', u) <=> Lives(D, u))
  BY <1>2, <1>4, MarksChainOf, MarksGuards
<1>7. \A u : u # t => Guards(D, u) = Guards(cstack, u)
  BY <1>1, CutOthers
<1>8. StatesSeen(Then) = StatesSeen(Now)
  <2>1. \A u \in Thread : StateSeen(cstack', u, th'[u]) = StateSeen(cstack, u, th[u])
    BY <1>3, <1>5, <1>6 DEF StateSeen
  <2>. QED
    BY <1>1, <1>2, <2>1 DEF StatesSeen
<1>9. FramesSeen(Then) = [FramesSeen(Now) EXCEPT ![t] = Seen(Guards(D, t), th'[t].ci)]
  <2>1. ASSUME NEW u \in Thread, u # t
        PROVE  Seen(Guards(cstack', u), th'[u].ci) = Seen(Guards(cstack, u), th[u].ci)
    BY <1>6, <1>7, <2>1
  <2>2. Seen(Guards(cstack', t), th'[t].ci) = Seen(Guards(D, t), th'[t].ci)
    BY <1>6
  <2>. QED
    BY <1>1, <1>2, <1>3, <2>1, <2>2 DEF FramesSeen
<1>. QED
  BY <1>5, <1>6, <1>8, <1>9, RunStep

(* Nothing is guarded.                                                     *)
LEMMA SeenBare ==
    ASSUME NEW q \in Seq(Frame), NEW S, \A i : i \notin S
    PROVE  Co!Unprotected(Seen(S, q)) /\ Seen(S, q) \in Seq(Sight)
BY SeenFacts DEF Co!Unprotected, Look

LEMMA SeenEmpty ==
    ASSUME NEW S
    PROVE  Seen(S, <<>>) = <<>>
<1>0. <<>> \in Seq(Frame) /\ Len(<<>>) = 0
  OBVIOUS
<1>1. PICK q \in Seq(Frame) : q = <<>> /\ Len(q) = 0
  BY <1>0
<1>2. Seen(S, q) \in Seq(Sight) /\ Len(Seen(S, q)) = 0
  BY <1>1, SeenFacts
<1>. QED
  BY <1>1, <1>2

(* The host protects what it calls in the main thread.                     *)
LEMMA WipeStep ==
    ASSUME Fine(Now), MainThread = TopThread(cstack), \A i : i \notin Guards(cstack, MainThread)
    PROVE  <<>> \in CoSteps(FramesSeen(Now)[MainThread])
<1>1. Now.cs = cstack /\ Now.th = th /\ cstack \in Seq(Activation) /\ OK(Now)
      /\ MainThread \in Thread /\ th[MainThread] \in LuaState
  BY NowFacts, OwnFacts
<1>2. Co!running = MainThread
  <2>1. PICK x : x = ChainOf(cstack)
    OBVIOUS
  <2>2. x[Len(x)] = MainThread
    BY <1>1, <2>1, ChainTop
  <2>. QED
    BY <2>1, <2>2, ViewNow DEF Co!running
<1>3. PICK S, q : S = Guards(cstack, MainThread) /\ q = th[MainThread].ci
  OBVIOUS
<1>4. Co!Unprotected(Seen(S, q))
  BY <1>1, <1>3, SeenBare DEF LuaState
<1>5. FramesSeen(Now)[MainThread] = Seen(S, q)
  BY <1>1, <1>3 DEF FramesSeen
<1>. QED
  BY <1>2, <1>4, <1>5 DEF CoSteps, Co!Catch

-----------------------------------------------------------------------------
(* Protected calls end.                                                    *)
PcallPlace(t, e) ==
    /\ t = TopThread(cstack) /\ t \in Thread /\ e \in 1..Len(cstack)
    /\ cstack \in Seq(Activation) /\ IsPcall(cstack[e])
    /\ cstack[e] \in Try /\ th[t] \in LuaState /\ th[t].status = "ok"
    /\ \A j \in e..Len(cstack) : cstack[j].t = t
    /\ \A j \in (e + 1)..Len(cstack) : ~IsTry(cstack[j])
    /\ cstack[e].old_ci <= Len(th[t].ci)
    /\ e = 1 \/ (cstack[e - 1].k = "cfun" /\ cstack[e - 1].t = t)

LEMMA PcallPlaced ==
    ASSUME Fine(Now), cstack # <<>>, NEW t, t = TopThread(cstack),
           NEW e, e = th[t].errorJmp, cstack[e].kind = "pcall"
    PROVE  PcallPlace(t, e)
<1>1. Now.cs = cstack /\ Now.th = th /\ cstack \in Seq(Activation) /\ OK(Now)
      /\ th \in [Thread -> LuaState]
  BY NowFacts
<1>2. PICK n \in Nat \ {0} : n = Len(cstack)
  BY <1>1, OwnFacts
<1>3. t = cstack[n].t
  BY <1>2 DEF TopThread
<1>4. PICK F, G, H : Shape(th, cstack, mode, F, G, H)
  BY NowFacts DEF OK, Good
<1>5. TopReady(th, cstack, mode, n, t, e)
  BY <1>1, <1>2, <1>3, <1>4, TopFacts
<1>6. Good(th, cstack, mode)
  BY <1>1, NowFacts DEF OK
<1>7. PcallFacts(th, cstack, n, t, e)
  BY <1>2, <1>3, <1>6, EndOfPcall
<1>8. IsPcall(cstack[e])
  BY <1>5 DEF TopReady, IsPcall, IsTry
<1>. QED
  BY <1>1, <1>2, <1>5, <1>7, <1>8 DEF PcallPlace, TopReady, PcallFacts

(* The frames above the innermost protected call go away.                  *)
LEMMA CaughtStep ==
    ASSUME Safe, Told(Now), NEW t, NEW e, PcallPlace(t, e), NEW k \in Nat, e = k + 1,
           NEW D, D = SubSeq(cstack, 1, k), NEW p, p = SubSeq(th[t].ci, 1, cstack[e].old_ci)
    PROVE  Seen(Guards(D, t), p) \in CoSteps(FramesSeen(Now)[t])
<1>1. Now.cs = cstack /\ Now.th = th /\ OK(Now) /\ Fine(Now) /\ Held(Now, closing = "open")
  BY NowFacts DEF Safe
<1>2. /\ t = TopThread(cstack) /\ t \in Thread /\ k + 1 \in 1..Len(cstack)
      /\ cstack \in Seq(Activation) /\ IsPcall(cstack[k + 1]) /\ cstack[k + 1].t = t
      /\ cstack[k + 1] \in Try /\ th[t] \in LuaState /\ th[t].status = "ok"
      /\ \A j \in (k + 2)..Len(cstack) : ~IsTry(cstack[j])
      /\ cstack[k + 1].old_ci <= Len(th[t].ci)
  BY DEF PcallPlace
<1>3. Acts(Now)
  <2>1. cstack # <<>>
    BY <1>2
  <2>. QED
    BY <1>1, <1>2, <2>1 DEF Acts, Own
<1>4. PICK q \in Seq(Frame) : q = th[t].ci
  BY <1>2 DEF LuaState
<1>5. PICK f : Tells(cstack, t, f) /\ f[Len(cstack)] = q
  BY <1>1, <1>2, <1>3, <1>4, TopStory
<1>6. PICK n \in Nat : n = cstack[k + 1].old_ci
  BY <1>2 DEF Try
<1>7. GuardAt(cstack, t, n, k + 1)
  BY <1>2, <1>6 DEF GuardAt
<1>8. GuardFacts(cstack, t, f, k, n)
  BY <1>1, <1>2, <1>5, <1>6, <1>7, GuardPlace
<1>9. PICK S, Z : S = Guards(cstack, t) /\ Z = Guards(D, t)
  OBVIOUS
<1>10. /\ n # 0 => n \in S
       /\ \A i \in S : i <= n
       /\ \A i : i \in Z <=> i \in S /\ i # n
  <2>1. /\ Tells(Now.cs, t, f) /\ k + 1 \in 1..Len(Now.cs) /\ n = Now.cs[k + 1].old_ci
        /\ GuardAt(Now.cs, t, n, k + 1) /\ \A j \in (k + 2)..Len(Now.cs) : ~IsTry(Now.cs[j])
    BY <1>1, <1>2, <1>5, <1>6, <1>7
  <2>2. S = Guards(Now.cs, t) /\ Z = Guards(SubSeq(Now.cs, 1, k), t)
    BY <1>1, <1>9
  <2>3. OK(Now) /\ Held(Now, closing = "open")
    BY <1>1
  <2>. QED
    BY ONLY <2>1, <2>2, <2>3, GuardsCut
<1>11. FramesSeen(Now)[t] = Seen(S, q)
  BY <1>1, <1>2, <1>4, <1>9 DEF FramesSeen
<1>12. CASE n = 0
  <2>1. k = 0
    BY <1>8, <1>12 DEF GuardFacts
  <2>2. t = MainThread
    <3>1. PICK F, G, H : Shape(th, cstack, mode, F, G, H)
      BY <1>1, NowFacts DEF OK, Good
    <3>2. Stacked(cstack, 1)
      BY <1>2, <2>1, <3>1 DEF Shape, Measured, Placed
    <3>. QED
      BY <1>2, <2>1, <3>2 DEF Stacked
  <2>3. \A i : i \notin S
    <3>1. \A i \in S : i \in Nat \ {0} /\ i <= 0
      BY <1>9, <1>10, <1>12 DEF Guards
    <3>. QED
      BY <3>1
  <2>4. p = <<>>
    BY <1>4, <1>6, <1>12
  <2>. QED
    BY <1>1, <1>2, <1>9, <2>2, <2>3, <2>4, WipeStep, SeenEmpty
<1>13. CASE n # 0
  <2>1. n \in 1..Len(q)
    BY <1>2, <1>4, <1>6, <1>13
  <2>2. q[n] \in Protecting
    <3>1. k # 0 /\ f[k][n] \in Protecting /\ k \in 0..Len(cstack) /\ n = Len(f[k])
      <4>1. k # 0
        <5>1. CASE k = 0
          BY <1>8, <1>13, <5>1 DEF GuardFacts
        <5>. QED
          BY <5>1
      <4>. QED
        BY <1>8, <4>1 DEF GuardFacts
    <3>2. f[k] \in Seq(Frame) /\ Prefix(f[k], q)
      <4>1. Len(cstack) \in 0..Len(cstack) /\ k \in 0..Len(cstack)
        BY <1>2, <3>1
      <4>2. PICK b \in 0..Len(cstack) : b = Len(cstack)
        BY <4>1
      <4>3. PICK a \in 0..b : a = k
        BY <4>1, <4>2
      <4>4. Tells(cstack, t, f) /\ cstack \in Seq(Activation)
        BY <1>2, <1>5
      <4>5. f[a] \in Seq(Frame) /\ Prefix(f[a], f[b])
        BY <4>2, <4>3, <4>4, TellsRise
      <4>. QED
        BY <1>5, <4>2, <4>3, <4>5
    <3>3. q[n] = f[k][n]
      <4>1. n \in 1..Len(f[k])
        BY <3>1, <1>13
      <4>. QED
        BY <3>2, <4>1, PrefixAt
    <3>. QED
      BY <3>1, <3>3
  <2>3. Seen(Z, SubSeq(q, 1, n)) \in Co!Catch(Seen(S, q))
    <3>1. n \in S /\ \A i \in S : i <= n
      BY <1>10, <1>13
    <3>. QED
      BY <1>10, <2>1, <2>2, <3>1, SeenCaught
  <2>. QED
    BY <1>4, <1>6, <1>9, <1>11, <2>3 DEF CoSteps
<1>. QED
  BY <1>12, <1>13


LEMMA ThroughMarks ==
    ASSUME NEW x, OK(x), NEW r, ThroughMove(x, r)
    PROVE  SameMarks(x.cs, r.cs) /\ r.th = x.th
<1>1. x.cs # <<>> /\ TopOf(x) \in Activation /\ TopOf(x).k = "cfun" /\ x \in State
  BY OwnFacts DEF ThroughMove, Acts, OK
<1>2. PICK a \in CFun : a = TopOf(x)
  BY <1>1, ActivationFacts
<1>3. PICK b : b = [a EXCEPT !.st = "done"]
  OBVIOUS
<1>4. b \in Activation /\ b.k = "cfun" /\ a.k = "cfun"
  BY <1>3 DEF CFun, Activation
<1>5. ~Mark(a) /\ ~Mark(b)
  BY <1>4 DEF Mark, IsResume, IsPcall
<1>6. PICK C : C = [x.cs EXCEPT ![Len(x.cs)] = b]
  OBVIOUS
<1>7. r = [x EXCEPT !.cs = C]
  BY <1>2, <1>3, <1>6 DEF ThroughMove, TopOf
<1>8. r.cs = C /\ r.th = x.th
  BY <1>1, <1>7, StateFields
<1>. QED
  BY <1>1, <1>2, <1>4, <1>5, <1>6, <1>8, TopSame

LEMMA EndPcallCo == ASSUME AllTold, Next, EndsPcall(Now, Then) PROVE CoStep
<1>1. /\ Fine(Now) /\ Fine(Then) /\ OK(Now) /\ Now.cs = cstack /\ Now.th = th /\ Now \in State
      /\ cstack \in Seq(Activation) /\ th \in [Thread -> LuaState] /\ Safe /\ Told(Now)
  BY NextFine, NowFacts DEF AllTold
<1>2. PICK x : EndPcallMove(Now, x) /\ (Then = x \/ ThroughMove(x, Then))
  BY DEF EndsPcall
<1>3. PICK t \in Thread : t = TopThread(cstack) /\ Own(Now) = th[t]
  BY <1>1, OwnFacts DEF Own
<1>4. PICK e : e = th[t].errorJmp
  OBVIOUS
<1>5. cstack # <<>> /\ cstack[e].kind = "pcall"
  BY <1>1, <1>2, <1>3, <1>4 DEF EndPcallMove
<1>6. PcallPlace(t, e)
  BY <1>1, <1>3, <1>4, <1>5, PcallPlaced
<1>7. PICK k \in Nat : e = k + 1
  <2>1. e \in 1..Len(cstack)
    BY <1>6 DEF PcallPlace
  <2>2. e - 1 \in Nat /\ e = (e - 1) + 1
    BY <1>1, <2>1
  <2>. QED
    BY <2>2
<1>8. k \in 0..Len(cstack) /\ e - 1 = k
  BY <1>1, <1>6, <1>7 DEF PcallPlace
<1>9. PICK D \in Seq(Activation) : D = SubSeq(cstack, 1, k)
  BY <1>1, <1>8, CutFacts
<1>10. PICK o \in LuaState : o = th[t]
  BY <1>1
<1>11. PICK l : x = Sets(Now, l, D, "run") /\ l.ci = SubSeq(o.ci, 1, cstack[e].old_ci)
  <2>1. PICK z \in Nat :
         x = Sets(Now, [Own(Now) EXCEPT !.ci = SubSeq(@, 1, Now.cs[Own(Now).errorJmp].old_ci),
                                    !.nCcalls = Now.cs[Own(Now).errorJmp].oldnCcalls,
                                    !.allowhook = Now.cs[Own(Now).errorJmp].old_allowhooks,
                                    !.errfunc = Now.cs[Own(Now).errorJmp].old_errfunc,
                                    !.errorJmp = Now.cs[Own(Now).errorJmp].previous, !.size_ci = z],
                  SubSeq(Now.cs, 1, Own(Now).errorJmp - 1), "run")
    BY Zenon, <1>2 DEF EndPcallMove
  <2>2. Own(Now) = o /\ Own(Now).errorJmp = e
    BY <1>3, <1>4, <1>10
  <2>3. PICK j : j = cstack[e]
    OBVIOUS
  <2>4. PICK l : l = [o EXCEPT !.ci = SubSeq(@, 1, j.old_ci), !.nCcalls = j.oldnCcalls,
                               !.allowhook = j.old_allowhooks, !.errfunc = j.old_errfunc,
                               !.errorJmp = j.previous, !.size_ci = z]
    OBVIOUS
  <2>5. x = Sets(Now, l, D, "run")
    BY <1>1, <1>8, <1>9, <2>1, <2>2, <2>3, <2>4
  <2>6. l.ci = SubSeq(o.ci, 1, j.old_ci)
    BY <2>4 DEF LuaState
  <2>. QED
    BY <2>3, <2>5, <2>6
<1>12. x.th = [th EXCEPT ![t] = l] /\ x.cs = D
  BY <1>1, <1>3, <1>11 DEF Sets
<1>13. OK(x)
  BY <1>1, <1>2, EndPcallMoveKeeps
<1>14. SameMarks(D, Then.cs) /\ Then.th = x.th
  BY <1>2, <1>12, <1>13, ThroughMarks, MarksKept
<1>15. th' = [th EXCEPT ![t] = l] /\ cstack' = Then.cs
  BY <1>1, <1>12, <1>14, ThenFacts
<1>16. Seen(Guards(D, t), th'[t].ci) \in CoSteps(FramesSeen(Now)[t])
  <2>1. PICK p : p = SubSeq(th[t].ci, 1, cstack[e].old_ci)
    OBVIOUS
  <2>2. th'[t].ci = p
    BY <1>1, <1>10, <1>11, <1>15, <2>1
  <2>. QED
    BY <1>1, <1>6, <1>7, <1>9, <2>1, <2>2, CaughtStep
<1>17. \A j \in (k + 1)..Len(cstack) : cstack[j].t = t /\ ~IsResume(cstack[j])
  <2>1. \A j \in e..Len(cstack) : cstack[j].t = t
    BY <1>6 DEF PcallPlace
  <2>2. \A j \in (e + 1)..Len(cstack) : ~IsResume(cstack[j])
    BY <1>6 DEF PcallPlace, IsResume, IsTry
  <2>3. ~IsResume(cstack[e]) /\ e \in Nat
    BY <1>6, <1>7 DEF PcallPlace, IsPcall, IsResume
  <2>4. \A j \in e..Len(cstack) : j = e \/ j \in (e + 1)..Len(cstack)
    BY <1>1, <2>3
  <2>. QED
    BY <1>7, <2>1, <2>2, <2>3, <2>4
<1>18. \A u \in Thread : u # t => th'[u] = th[u]
  BY <1>1, <1>15
<1>. QED
  BY <1>1, <1>3, <1>8, <1>9, <1>14, <1>15, <1>16, <1>17, <1>18, CutStep


-----------------------------------------------------------------------------
(* lua_close, and the yield of a coroutine.                                *)
LEMMA QuietSets ==
    ASSUME AllTold, Fine(Then), NEW l, l.ci = Own(Now).ci, NEW D, SameMarks(cstack, D),
           NEW N, Then = Sets(Now, l, D, N)
    PROVE  CoStep
<1>1. Fine(Now) /\ OK(Now) /\ Now.cs = cstack /\ Now.th = th /\ th \in [Thread -> LuaState]
  BY NowFacts DEF AllTold, Safe
<1>2. PICK t \in Thread : t = TopThread(cstack) /\ Own(Now) = th[t]
  BY <1>1, OwnFacts DEF Own
<1>3. l.ci = Now.th[t].ci /\ t = TopThread(Now.cs) /\ SameMarks(Now.cs, D)
  BY <1>1, <1>2
<1>4. OneMore(l.ci, Now.th[t].ci)
  BY <1>3 DEF OneMore
<1>5. Stays(Now, Then, t)
  BY <1>1, <1>3, <1>4, SetsGoes
<1>. QED
  BY <1>2, <1>5, StaysStep

LEMMA ClosedCo == ASSUME AllTold, Fine(Then), ClosedMove(Now, Then) PROVE CoStep
<1>1. Fine(Now) /\ OK(Now) /\ Now.cs = cstack /\ cstack \in Seq(Activation)
  BY NowFacts DEF AllTold, Safe
<1>2. cstack # <<>> /\ TopOf(Now).k = "try" /\ TopOf(Now).kind = "close"
  BY <1>1 DEF ClosedMove, Acts, IsTry
<1>3. PICK k \in Nat : Len(cstack) = k + 1
  BY <1>1, <1>2, Positive
<1>4. k \in 0..Len(cstack) /\ Len(cstack) - 1 = k /\ \A j \in (k + 1)..Len(cstack) : j = k + 1
  BY <1>3
<1>5. ~Mark(cstack[k + 1])
  BY <1>1, <1>2, <1>3 DEF TopOf, Mark, IsPcall, IsResume
<1>6. SameMarks(cstack, SubSeq(cstack, 1, k))
  BY <1>1, <1>4, <1>5, MarksLess
<1>7. PICK o \in LuaState : o = Own(Now)
  BY <1>1, OwnFacts
<1>8. PICK l : l = [o EXCEPT !.errorJmp = 0]
  OBVIOUS
<1>9. Then = Sets(Now, l, SubSeq(cstack, 1, k), "run")
  BY <1>1, <1>4, <1>7, <1>8 DEF ClosedMove
<1>10. l.ci = Own(Now).ci
  BY <1>7, <1>8 DEF LuaState
<1>. QED
  BY <1>6, <1>9, <1>10, QuietSets

LEMMA YieldCo == ASSUME AllTold, Fine(Then), YieldMove(Now, Then) PROVE CoStep
<1>1. Fine(Now) /\ OK(Now) /\ Now.cs = cstack /\ Now.th = th /\ cstack \in Seq(Activation)
  BY NowFacts DEF AllTold, Safe
<1>2. /\ cstack # <<>> /\ TopOf(Now).k = "cfun" /\ Own(Now).nCcalls <= Own(Now).baseCcalls
      /\ Then = Sets(Now, [Own(Now) EXCEPT !.status = "yield"],
                     SubSeq(cstack, 1, Len(cstack) - 2), "run")
  BY <1>1 DEF YieldMove, Acts
<1>3. PICK n \in Nat \ {0} : n = Len(cstack)
  BY <1>1, <1>2, OwnFacts
<1>4. TopOf(Now) = cstack[n] /\ Own(Now) = th[cstack[n].t]
  BY <1>1, <1>2, <1>3, OwnFacts DEF TopOf, Own
<1>5. PICK F, G, H : Shape(th, cstack, mode, F, G, H)
  BY <1>1, NowFacts DEF OK, Good
<1>6. Good(th, cstack, mode)
  BY <1>1, NowFacts DEF OK
<1>7. Yields(cstack, n, cstack[n].t)
  BY <1>2, <1>3, <1>4, <1>5, <1>6, YieldPlace
<1>8. n > 2 /\ cstack[n - 1].k = "exec"
  BY <1>7 DEF Yields
<1>9. PICK k \in Nat : n = k + 2
  <2>1. n - 2 \in Nat /\ n = (n - 2) + 2
    BY <1>8
  <2>. QED
    BY <2>1
<1>10. k \in 0..Len(cstack) /\ Len(cstack) - 2 = k /\ n - 1 = k + 1
       /\ \A j \in (k + 1)..Len(cstack) : j = n - 1 \/ j = n
  BY <1>3, <1>9
<1>11. ~Mark(cstack[n - 1]) /\ ~Mark(cstack[n])
  BY <1>2, <1>4, <1>8 DEF Mark, IsPcall, IsResume
<1>12. SameMarks(cstack, SubSeq(cstack, 1, k))
  BY <1>1, <1>10, <1>11, MarksLess
<1>13. PICK o \in LuaState : o = Own(Now)
  BY <1>1, OwnFacts
<1>14. PICK l : l = [o EXCEPT !.status = "yield"]
  OBVIOUS
<1>15. Then = Sets(Now, l, SubSeq(cstack, 1, k), "run")
  BY <1>2, <1>10, <1>13, <1>14
<1>16. l.ci = Own(Now).ci
  BY <1>13, <1>14 DEF LuaState
<1>. QED
  BY <1>12, <1>15, <1>16, QuietSets

LEMMA CloseCo == ASSUME AllTold, Fine(Then), CloseMove(Now, Then) PROVE CoStep
<1>1. /\ Fine(Now) /\ OK(Now) /\ Now.cs = cstack /\ Now.th = th /\ cstack \in Seq(Activation)
      /\ th \in [Thread -> LuaState] /\ Len(cstack) \in Nat
  BY NowFacts, OwnFacts DEF AllTold, Safe
<1>2. PICK l \in LuaState, f \in Nat :
       /\ \A j \in 1..Len(Now.cs) : Now.cs[j].t = MainThread
       /\ Now.cs = <<>> \/ (Own(Now).errorJmp = 1 /\ Now.cs[1].kind = "close")
       /\ l = [Own(Now) EXCEPT !.ci = <<>>, !.nCcalls = 0, !.baseCcalls = 0,
                             !.errfunc = f, !.errorJmp = 0]
       /\ Then = Sets(Now, [l EXCEPT !.errorJmp = 1], <<TryOf("close", MainThread, l)>>, "run")
  BY DEF CloseMove
<1>3. \A j \in 1..Len(cstack) : cstack[j].t = MainThread
  BY <1>1, <1>2
<1>4. MainThread \in Thread /\ TopThread(cstack) = MainThread
  BY <1>1, <1>3, CallsAssumption DEF TopThread
<1>5. PICK F, G, H : Shape(th, cstack, mode, F, G, H)
  BY <1>1, NowFacts DEF OK, Good
<1>6. \A j \in 1..Len(cstack) : ~IsResume(cstack[j])
  <2>1. \A j \in 1..Len(cstack) : Stacked(cstack, j)
    BY <1>5 DEF Shape, Measured, Placed
  <2>. QED
    BY <1>3, <2>1 DEF Stacked, IsResume, IsTry
<1>7. \A j \in 1..Len(cstack) : ~IsPcall(cstack[j])
  <2>1. CASE cstack = <<>>
    BY <2>1
  <2>2. CASE cstack # <<>>
    <3>1. th[MainThread].errorJmp = 1 /\ cstack[1].kind = "close"
      BY <1>1, <1>2, <1>4, <2>2 DEF Own
    <3>2. \A j \in 2..Len(cstack) : ~(IsTry(cstack[j]) /\ cstack[j].t = MainThread)
      BY <1>4, <1>5, <3>1 DEF Shape, Jumps, Innermost
    <3>3. \A j \in 1..Len(cstack) : j = 1 \/ j \in 2..Len(cstack)
      BY <1>1
    <3>4. ~IsPcall(cstack[1])
      BY <3>1 DEF IsPcall
    <3>5. \A j \in 2..Len(cstack) : ~IsPcall(cstack[j])
      <4>1. \A j \in 2..Len(cstack) : cstack[j].t = MainThread
        BY <1>1, <1>3
      <4>. QED
        BY <3>2, <4>1 DEF IsPcall, IsTry
    <3>. QED
      BY <3>3, <3>4, <3>5
  <2>. QED
    BY <2>1, <2>2
<1>8. \A i : i \notin Guards(cstack, MainThread)
  BY <1>7 DEF Guards, GuardAt
<1>9. PICK a : a = TryOf("close", MainThread, l)
  OBVIOUS
<1>10. a \in Activation /\ ~Mark(a)
  BY <1>4, <1>9, TryFacts DEF Activation, Mark, IsResume, IsPcall
<1>11. PICK m : m = [l EXCEPT !.errorJmp = 1]
  OBVIOUS
<1>12. m.ci = <<>>
  <2>1. PICK o \in LuaState : o = Own(Now)
    BY <1>1, OwnFacts
  <2>2. l.ci = <<>>
    BY <1>2, <2>1 DEF LuaState
  <2>. QED
    BY <1>11, <2>2 DEF LuaState
<1>13. th' = [th EXCEPT ![MainThread] = m] /\ cstack' = <<a>>
  <2>1. Then = Sets(Now, m, <<a>>, "run")
    BY <1>2, <1>9, <1>11
  <2>2. Then.th = [th EXCEPT ![MainThread] = m] /\ Then.cs = <<a>>
    BY <1>1, <1>4, <2>1 DEF Sets
  <2>. QED
    BY <2>2, ThenFacts
<1>14. PICK D \in Seq(Activation) : D = SubSeq(cstack, 1, 0) /\ D = <<>>
  <2>1. SubSeq(cstack, 1, 0) = <<>> /\ <<>> \in Seq(Activation)
    BY <1>1
  <2>. QED
    BY <2>1
<1>15. SameMarks(D, cstack')
  <2>1. Append(<<>>, a) = <<a>>
    BY <1>10
  <2>2. Append(D, a) = <<a>>
    BY ONLY <1>14, <2>1
  <2>3. SameMarks(D, Append(D, a))
    BY <1>10, <1>14, MarksMore
  <2>. QED
    BY ONLY <1>13, <2>2, <2>3
<1>16. Seen(Guards(D, MainThread), th'[MainThread].ci) \in CoSteps(FramesSeen(Now)[MainThread])
  <2>1. th'[MainThread].ci = <<>>
    BY <1>1, <1>4, <1>12, <1>13
  <2>. QED
    BY <1>1, <1>4, <1>8, <2>1, SeenEmpty, WipeStep
<1>17. \A u \in Thread : u # MainThread => th'[u] = th[u]
  BY <1>1, <1>13
<1>18. 0 \in 0..Len(cstack)
  BY <1>1
<1>19. \A j \in (0 + 1)..Len(cstack) : cstack[j].t = MainThread /\ ~IsResume(cstack[j])
  BY <1>3, <1>6
<1>. QED
  BY <1>1, <1>4, <1>14, <1>15, <1>16, <1>17, <1>18, <1>19, CutStep

-----------------------------------------------------------------------------
(* The function of a coroutine is on its stack only until it is started.   *)
FreshAt(t, l) == l.fn => t # MainThread /\ l.status = "ok" /\ l.errorJmp = 0

Fresh(s) == \A t \in Thread : FreshAt(t, s.th[t])

(* A thread that runs was started.                                         *)
LEMMA TopStarted ==
    ASSUME NEW s, OK(s), Fresh(s)
    PROVE  ~Own(s).fn
<1>1. PICK t \in Thread : t = TopThread(s.cs)
  BY OwnFacts
<1>2. Own(s) = s.th[t] /\ FreshAt(t, s.th[t])
  BY <1>1 DEF Own, Fresh
<1>3. CASE s.cs = <<>>
  BY <1>1, <1>2, <1>3, OwnFacts DEF FreshAt
<1>4. CASE s.cs # <<>>
  <2>1. PICK C \in Seq(Activation) : C = s.cs
    BY OwnFacts
  <2>2. PICK n \in Nat \ {0} : n = Len(C)
    BY <1>4, <2>1, OwnFacts
  <2>3. t = C[n].t
    BY <1>1, <1>4, <2>1, <2>2, OwnFacts DEF TopOf
  <2>4. PICK F, G, H : Shape(s.th, C, s.mode, F, G, H)
    BY <2>1 DEF OK, Good
  <2>5. n \in 1..Len(C)
    BY <2>2
  <2>6. s.th[t].errorJmp # 0
    BY <2>3, <2>4, <2>5, HandlerBelow
  <2>. QED
    BY <1>2, <2>6 DEF FreshAt
<1>. QED
  BY <1>3, <1>4

(* Its fields change.                                                      *)
LEMMA OwnFresh ==
    ASSUME NEW s, OK(s), Fresh(s), NEW l, l.fn = Own(s).fn, NEW D, NEW N,
           NEW r, r = Sets(s, l, D, N)
    PROVE  Fresh(r)
<1>1. PICK t \in Thread : t = TopThread(s.cs)
  BY OwnFacts
<1>2. ~l.fn
  BY TopStarted
<1>3. r.th = [s.th EXCEPT ![t] = l] /\ s.th \in [Thread -> LuaState]
  BY <1>1, OwnFacts DEF Sets
<1>. QED
  BY <1>2, <1>3 DEF Fresh, FreshAt

LEMMA SameFresh ==
    ASSUME NEW s, Fresh(s), NEW r, r.th = s.th
    PROVE  Fresh(r)
BY DEF Fresh

(* Another thread changes.                                                 *)
LEMMA OtherFresh ==
    ASSUME NEW s, OK(s), Fresh(s), NEW c \in Thread, NEW l, FreshAt(c, l),
           NEW r, r.th = [s.th EXCEPT ![c] = l]
    PROVE  Fresh(r)
<1>1. s.th \in [Thread -> LuaState]
  BY OwnFacts
<1>. QED
  BY <1>1 DEF Fresh

LEMMA OwnMovesFresh ==
    ASSUME NEW s, OK(s), Fresh(s), NEW r,
           \/ CallMove(s, r) \/ EnterMove(s, r) \/ ReenterMove(s, r) \/ LevelMove(s, r)
           \/ BeginMove(s, r) \/ LeaveMove(s, r) \/ PcallMove(s, r) \/ EndPcallMove(s, r)
           \/ ContinueMove(s, r) \/ YieldMove(s, r) \/ EndResumeMove(s, r)
           \/ CloseMove(s, r) \/ ClosedMove(s, r)
    PROVE  Fresh(r)
<1>1. PICK o \in LuaState : o = Own(s)
  BY OwnFacts
<1>2. SUFFICES \E l, D, N : l.fn = o.fn /\ r = Sets(s, l, D, N)
  BY <1>1, OwnFresh
<1>3. CASE CallMove(s, r)
  <2>1. \E D, N : r = Sets(s, [o EXCEPT !.nCcalls = @ + 1], D, N)
    BY <1>1, <1>3 DEF CallMove
  <2>2. [o EXCEPT !.nCcalls = @ + 1].fn = o.fn
    BY DEF LuaState
  <2>. QED
    BY <2>1, <2>2
<1>4. CASE EnterMove(s, r)
  <2>1. PICK f \in Frame : \E D, N : r = Sets(s, [o EXCEPT !.ci = Append(@, f)], D, N)
    BY <1>1, <1>4 DEF EnterMove
  <2>2. [o EXCEPT !.ci = Append(@, f)].fn = o.fn
    BY DEF LuaState
  <2>. QED
    BY <2>1, <2>2
<1>5. CASE ReenterMove(s, r)
  <2>1. \/ \E D, N : r = Sets(s, [o EXCEPT !.ci = Append(@, "lua")], D, N)
        \/ \E D, N : r = Sets(s, [o EXCEPT !.ci = SubSeq(@, 1, Len(@) - 1)], D, N)
    BY <1>1, <1>5 DEF ReenterMove
  <2>2. /\ [o EXCEPT !.ci = Append(@, "lua")].fn = o.fn
        /\ [o EXCEPT !.ci = SubSeq(@, 1, Len(@) - 1)].fn = o.fn
    BY DEF LuaState
  <2>. QED
    BY <2>1, <2>2
<1>6. CASE LevelMove(s, r)
  <2>1. PICK d \in {1, -1} : \E D, N : r = Sets(s, [o EXCEPT !.nCcalls = @ + d], D, N)
    BY <1>1, <1>6 DEF LevelMove
  <2>2. [o EXCEPT !.nCcalls = @ + d].fn = o.fn
    BY DEF LuaState
  <2>. QED
    BY <2>1, <2>2
<1>7. CASE BeginMove(s, r)
  <2>1. PICK h \in BOOLEAN : \E D, N : r = Sets(s, [o EXCEPT !.allowhook = h], D, N)
    BY <1>1, <1>7 DEF BeginMove
  <2>2. [o EXCEPT !.allowhook = h].fn = o.fn
    BY DEF LuaState
  <2>. QED
    BY <2>1, <2>2
<1>8. CASE LeaveMove(s, r)
  <2>1. PICK l \in LuaState :
          /\ \/ l = [o EXCEPT !.ci = SubSeq(@, 1, Len(@) - 1)]
             \/ l = [o EXCEPT !.nCcalls = @ - 1]
             \/ l = o
             \/ l = [o EXCEPT !.allowhook = TRUE]
             \/ l = [o EXCEPT !.allowhook = TopOf(s).oldah]
          /\ \E D, N : r = Sets(s, l, D, N)
    BY Zenon, <1>1, <1>8 DEF LeaveMove
  <2>2. l.fn = o.fn
    BY <2>1 DEF LuaState
  <2>. QED
    BY <2>1, <2>2
<1>9. CASE PcallMove(s, r)
  <2>1. \E D, N : r = Sets(s, [o EXCEPT !.errorJmp = Len(s.cs) + 1, !.errfunc = HandlerFor(s)], D, N)
    BY <1>1, <1>9 DEF PcallMove
  <2>2. [o EXCEPT !.errorJmp = Len(s.cs) + 1, !.errfunc = HandlerFor(s)].fn = o.fn
    BY DEF LuaState
  <2>. QED
    BY <2>1, <2>2
<1>10. CASE EndPcallMove(s, r)
  <2>1. PICK z, j : \E D, N :
          r = Sets(s, [o EXCEPT !.ci = SubSeq(@, 1, j.old_ci), !.nCcalls = j.oldnCcalls,
                                !.allowhook = j.old_allowhooks, !.errfunc = j.old_errfunc,
                                !.errorJmp = j.previous, !.size_ci = z], D, N)
    BY Zenon, <1>1, <1>10 DEF EndPcallMove
  <2>2. [o EXCEPT !.ci = SubSeq(@, 1, j.old_ci), !.nCcalls = j.oldnCcalls,
                  !.allowhook = j.old_allowhooks, !.errfunc = j.old_errfunc,
                  !.errorJmp = j.previous, !.size_ci = z].fn = o.fn
    BY DEF LuaState
  <2>. QED
    BY <2>1, <2>2
<1>11. CASE ContinueMove(s, r)
  <2>1. \E D, N : r = Sets(s, [o EXCEPT !.ci = SubSeq(@, 1, Len(@) - 1), !.status = "ok"], D, N)
    BY <1>1, <1>11 DEF ContinueMove
  <2>2. [o EXCEPT !.ci = SubSeq(@, 1, Len(@) - 1), !.status = "ok"].fn = o.fn
    BY DEF LuaState
  <2>. QED
    BY <2>1, <2>2
<1>12. CASE YieldMove(s, r)
  <2>1. \E D, N : r = Sets(s, [o EXCEPT !.status = "yield"], D, N)
    BY <1>1, <1>12 DEF YieldMove
  <2>2. [o EXCEPT !.status = "yield"].fn = o.fn
    BY DEF LuaState
  <2>. QED
    BY <2>1, <2>2
<1>13. CASE EndResumeMove(s, r)
  <2>1. PICK code \in Status : \E D, N :
          r = Sets(s, [o EXCEPT !.status = code, !.nCcalls = @ - 1, !.errorJmp = 0], D, N)
    BY Zenon, <1>1, <1>13 DEF EndResumeMove
  <2>2. [o EXCEPT !.status = code, !.nCcalls = @ - 1, !.errorJmp = 0].fn = o.fn
    BY DEF LuaState
  <2>. QED
    BY <2>1, <2>2
<1>14. CASE CloseMove(s, r)
  <2>1. PICK l \in LuaState, f \in Nat :
          /\ l = [o EXCEPT !.ci = <<>>, !.nCcalls = 0, !.baseCcalls = 0, !.errfunc = f, !.errorJmp = 0]
          /\ \E D, N : r = Sets(s, [l EXCEPT !.errorJmp = 1], D, N)
    BY Zenon, <1>1, <1>14 DEF CloseMove
  <2>2. l.fn = o.fn /\ [l EXCEPT !.errorJmp = 1].fn = l.fn
    BY <2>1 DEF LuaState
  <2>. QED
    BY <2>1, <2>2
<1>15. CASE ClosedMove(s, r)
  <2>1. \E D, N : r = Sets(s, [o EXCEPT !.errorJmp = 0], D, N)
    BY <1>1, <1>15 DEF ClosedMove
  <2>2. [o EXCEPT !.errorJmp = 0].fn = o.fn
    BY DEF LuaState
  <2>. QED
    BY <2>1, <2>2
<1>. QED
  BY <1>3, <1>4, <1>5, <1>6, <1>7, <1>8, <1>9, <1>10, <1>11, <1>12, <1>13, <1>14, <1>15

LEMMA MoveFresh ==
    ASSUME NEW s, OK(s), Fresh(s), NEW r, Move(s, r)
    PROVE  Fresh(r)
<1>1. s.th \in [Thread -> LuaState] /\ s \in State
  BY OwnFacts DEF OK
<1>2. CASE r = s
  BY <1>2
<1>3. CASE ModeMove(s, r) \/ ThroughMove(s, r)
  <2>1. r.th = s.th
    BY <1>1, <1>3 DEF ModeMove, ThroughMove, State
  <2>. QED
    BY <2>1, SameFresh
<1>4. CASE SizeMove(s, r)
  <2>1. PICK x \in Thread, z \in Nat : r = [s EXCEPT !.th[x].size_ci = z]
    BY <1>4 DEF SizeMove
  <2>2. PICK o \in LuaState : o = s.th[x]
    BY <1>1
  <2>3. PICK l : l = [o EXCEPT !.size_ci = z]
    OBVIOUS
  <2>4. l.fn = o.fn /\ l.status = o.status /\ l.errorJmp = o.errorJmp
    BY <2>3 DEF LuaState
  <2>5. FreshAt(x, l)
    BY <2>2, <2>4 DEF Fresh, FreshAt
  <2>6. r.th = [s.th EXCEPT ![x] = l]
    <3>1. [s EXCEPT !.th[x].size_ci = z] = [s EXCEPT !.th = [s.th EXCEPT ![x] = l]]
      BY <2>2, <2>3
    <3>. QED
      BY ONLY <1>1, <2>1, <3>1 DEF State
  <2>. QED
    BY <2>5, <2>6, OtherFresh
<1>5. CASE ResumeMove(s, r)
  <2>0. PICK m : m = Own(s).nCcalls
    OBVIOUS
  <2>1. PICK c \in Thread \ {MainThread} :
         LET n == Own(s).nCcalls
             l == [s.th[c] EXCEPT !.nCcalls = n + 1, !.baseCcalls = n + 1,
                                  !.fn = @ /\ s.th[c].status = "yield"]
         IN r = [th |-> [s.th EXCEPT ![c] = [l EXCEPT !.errorJmp = Len(s.cs) + 1]],
                 cs |-> Append(s.cs, TryOf("resume", c, l)), mode |-> "run"]
    BY Zenon, <1>5 DEF ResumeMove
  <2>2. PICK o \in LuaState : o = s.th[c]
    BY <1>1
  <2>3. PICK l : l = [[o EXCEPT !.nCcalls = m + 1, !.baseCcalls = m + 1,
                                !.fn = @ /\ o.status = "yield"]
                      EXCEPT !.errorJmp = Len(s.cs) + 1]
    OBVIOUS
  <2>4. l.fn = (o.fn /\ o.status = "yield")
    BY <2>3 DEF LuaState
  <2>5. FreshAt(c, l)
    BY <2>2, <2>4 DEF Fresh, FreshAt
  <2>6. r.th = [s.th EXCEPT ![c] = l]
    BY <2>0, <2>1, <2>2, <2>3
  <2>. QED
    BY <2>5, <2>6, OtherFresh
<1>6. CASE OtherMove(s, r)
  <2>1. PICK c \in Thread \ {MainThread}, l \in LuaState :
        /\ s.th[c].errorJmp = 0
        /\ \/ l = NewThread(TRUE)
           \/ l = [s.th[c] EXCEPT !.nCcalls = Own(s).nCcalls,
                                  !.fn = @ /\ s.th[c].status = "yield"]
        /\ r = [s EXCEPT !.th = [s.th EXCEPT ![c] = l]]
    BY Zenon, <1>6 DEF OtherMove
  <2>2. PICK o \in LuaState : o = s.th[c]
    BY <1>1
  <2>3. FreshAt(c, l)
    <3>1. CASE l = NewThread(TRUE)
      BY <3>1 DEF NewThread, FreshAt
    <3>2. CASE l = [o EXCEPT !.nCcalls = Own(s).nCcalls, !.fn = @ /\ o.status = "yield"]
      <4>1. l.fn = (o.fn /\ o.status = "yield")
        BY <3>2 DEF LuaState
      <4>. QED
        BY <2>2, <4>1 DEF Fresh, FreshAt
    <3>. QED
      BY <2>1, <2>2, <3>1, <3>2
  <2>4. r.th = [s.th EXCEPT ![c] = l]
    BY <1>1, <2>1 DEF State
  <2>. QED
    BY <2>3, <2>4, OtherFresh
<1>. QED
  BY <1>2, <1>3, <1>4, <1>5, <1>6, OwnMovesFresh DEF Move

LEMMA MovesFresh ==
    ASSUME NEW s, Fine(s), Fresh(s), NEW r, Moves(s, r)
    PROVE  Fresh(r)
<1>. DEFINE I == {x \in State : Fine(x) /\ Fresh(x)}
<1>1. s \in I
  BY DEF Fine, OK
<1>2. Closed(I)
  <2>1. ASSUME NEW x \in I, NEW y, Move(x, y) PROVE y \in I
    <3>1. Fine(y)
      BY <2>1, MoveKeepsRoom
    <3>2. Fresh(y)
      BY <2>1, MoveFresh DEF Fine
    <3>. QED
      BY <3>1, <3>2 DEF Fine, OK
  <2>. QED
    BY <2>1 DEF Closed
<1>3. r \in I
  BY <1>1, <1>2 DEF Moves
<1>. QED
  BY <1>3

LEMMA EndsFresh ==
    ASSUME NEW s, Fine(s), Fresh(s), NEW r, EndsPcall(s, r)
    PROVE  Fresh(r)
<1>1. PICK x : EndPcallMove(s, x) /\ (r = x \/ ThroughMove(x, r))
  BY DEF EndsPcall
<1>2. OK(s) /\ OK(x) /\ Fresh(x)
  BY <1>1, OwnMovesFresh, MoveKeepsRoom DEF Fine
<1>. QED
  BY <1>1, <1>2, MoveFresh DEF Move

LEMMA InitFresh == ASSUME Init PROVE Fresh(Now)
<1>1. th = [t \in Thread |-> NewThread(FALSE)] /\ Now.th = th
  BY DEF Init, Now
<1>. QED
  BY <1>1 DEF NewThread, Fresh, FreshAt

LEMMA StepFresh == ASSUME Fine(Now), Fresh(Now), [Next]_vars PROVE Fresh(Then)
<1>1. CASE UNCHANGED vars
  <2>1. Then = Now
    BY <1>1 DEF vars, Then, Now
  <2>. QED
    BY <2>1
<1>2. CASE Next
  <2>1. \/ Moves(Now, Then) \/ EndsPcall(Now, Then) \/ CloseMove(Now, Then)
        \/ ClosedMove(Now, Then)
    BY <1>2, NextMoves DEF Closes
  <2>. QED
    BY <2>1, MovesFresh, EndsFresh, OwnMovesFresh DEF Fine
<1>. QED
  BY <1>1, <1>2

-----------------------------------------------------------------------------
(* A coroutine comes back to the thread that has resumed it.               *)
ResumePlace(t, e) ==
    /\ t = TopThread(cstack) /\ t \in Thread /\ t # MainThread /\ e \in 1..Len(cstack)
    /\ IsResume(cstack[e])
    /\ \A j \in e..Len(cstack) : cstack[j].t = t
    /\ \A j \in (e + 1)..Len(cstack) : ~IsTry(cstack[j])
    /\ \A j \in 1..(e - 1) : ~(IsTry(cstack[j]) /\ cstack[j].t = t)

LEMMA ResumePlaced ==
    ASSUME Fine(Now), cstack # <<>>, NEW t, t = TopThread(cstack),
           NEW e, e = th[t].errorJmp, IsResume(cstack[e])
    PROVE  ResumePlace(t, e)
<1>1. Now.cs = cstack /\ Now.th = th /\ cstack \in Seq(Activation) /\ OK(Now)
      /\ th \in [Thread -> LuaState]
  BY NowFacts
<1>2. PICK n \in Nat \ {0} : n = Len(cstack)
  BY <1>1, OwnFacts
<1>3. t = cstack[n].t
  BY <1>2 DEF TopThread
<1>4. PICK F, G, H : Shape(th, cstack, mode, F, G, H)
  BY NowFacts DEF OK, Good
<1>5. TopReady(th, cstack, mode, n, t, e)
  BY <1>1, <1>2, <1>3, <1>4, TopFacts
<1>6. e \in 1..n /\ cstack[e].t = t /\ IsTry(cstack[e]) /\ cstack[e].kind = "resume"
  BY <1>5 DEF TopReady, IsResume, IsTry
<1>7. Stacked(cstack, e) /\ Linked(cstack, e)
  BY <1>2, <1>4, <1>6 DEF Shape, Measured, Placed
<1>8. cstack[e].previous = 0 /\ t # MainThread
  BY <1>6, <1>7 DEF Stacked
<1>9. \A j \in 1..(e - 1) : ~(IsTry(cstack[j]) /\ cstack[j].t = t)
  <2>1. Innermost(cstack, t, 0, e - 1)
    BY <1>6, <1>7, <1>8 DEF Linked
  <2>. QED
    BY <2>1 DEF Innermost
<1>. QED
  BY <1>1, <1>2, <1>5, <1>8, <1>9 DEF ResumePlace, TopReady

(* D: the stack without it.                                                *)
Bared(t, D) ==
    /\ \A i : i \notin Guards(cstack, t) /\ i \notin Guards(D, t)
    /\ ~Lives(D, t) /\ ChainOf(D) = Co!Below(ChainOf(cstack))
    /\ D \in Seq(Activation)
    /\ \A u : u # t => Guards(D, u) = Guards(cstack, u) /\ (Lives(D, u) <=> Lives(cstack, u))

LEMMA ResumeBare ==
    ASSUME Fine(Now), NEW t, NEW k \in Nat, ResumePlace(t, k + 1)
    PROVE  Bared(t, SubSeq(cstack, 1, k))
<1>0. PICK D : D = SubSeq(cstack, 1, k)
  OBVIOUS
<1>1. cstack \in Seq(Activation)
  BY NowFacts
<1>2. PICK n \in Nat : n = Len(cstack)
  BY <1>1
<1>3. /\ t # MainThread /\ k + 1 \in 1..n /\ IsResume(cstack[k + 1])
      /\ \A j \in (k + 1)..n : cstack[j].t = t
      /\ \A j \in (k + 2)..n : ~IsTry(cstack[j])
      /\ \A j \in 1..k : ~(IsTry(cstack[j]) /\ cstack[j].t = t)
  <2>1. (k + 1) + 1 = k + 2 /\ (k + 1) - 1 = k
    OBVIOUS
  <2>. QED
    BY <1>2, <2>1 DEF ResumePlace
<1>4. k \in 0..Len(cstack)
  BY <1>2, <1>3
<1>5. D \in Seq(Activation) /\ Len(D) = k /\ \A j \in 1..k : D[j] = cstack[j]
  BY <1>0, <1>1, <1>4, CutFacts
<1>6. \A j \in 1..n : ~(IsPcall(cstack[j]) /\ cstack[j].t = t)
  <2>1. \A j \in 1..n : j \in 1..k \/ j = k + 1 \/ j \in (k + 2)..n
    BY <1>2
  <2>. QED
    BY <1>3, <2>1 DEF IsPcall, IsTry, IsResume
<1>7. \A j \in 1..k : ~(IsTry(D[j]) /\ D[j].t = t)
  BY <1>3, <1>5
<1>8. \A i : i \notin Guards(cstack, t) /\ i \notin Guards(D, t)
  BY <1>2, <1>5, <1>6, <1>7 DEF Guards, GuardAt, IsPcall, IsTry
<1>9. ~Lives(D, t)
  BY <1>3, <1>5, <1>7 DEF Lives, IsResume, IsTry
<1>10. ChainOf(D) = Co!Below(ChainOf(cstack))
  <2>1. \A j \in (k + 2)..Len(cstack) : ~IsResume(cstack[j])
    BY <1>2, <1>3 DEF IsResume, IsTry
  <2>. QED
    BY <1>0, <1>1, <1>2, <1>3, <2>1, ChainLess
<1>11. \A u : u # t => Guards(D, u) = Guards(cstack, u) /\ (Lives(D, u) <=> Lives(cstack, u))
  BY <1>0, <1>1, <1>2, <1>3, <1>4, CutOthers
<1>. QED
  BY <1>0, <1>5, <1>8, <1>9, <1>10, <1>11 DEF Bared

(* A coroutine has yielded with nothing but Lua functions in between.      *)
LEMMA SeenYield ==
    ASSUME NEW q \in Seq(Frame), Yielded(q), Len(q) >= 2, NEW S
    PROVE  Co!Ends(Seen(S, q), "c") /\ \A i \in 1..(Len(Seen(S, q)) - 1) : Seen(S, q)[i] = "lua"
<1>1. PICK n \in Nat : n = Len(q)
  OBVIOUS
<1>2. q[n] = "yield" /\ \A i \in 1..(n - 1) : q[i] = "lua"
  <2>1. q = [i \in 1..n |-> IF i = n THEN "yield" ELSE "lua"]
    BY <1>1 DEF Yielded
  <2>2. n \in 1..n /\ \A i \in 1..(n - 1) : i \in 1..n /\ i # n
    BY <1>1
  <2>. QED
    BY <2>1, <2>2
<1>3. PICK x \in Seq(Sight) : x = Seen(S, q) /\ Len(x) = n /\ \A i \in 1..n : x[i] = Look(q[i], i, S)
  BY <1>1, SeenFacts
<1>4. Look(q[n], n, S) = "c"
  BY <1>2 DEF Look, Protecting
<1>5. \A i \in 1..(n - 1) : x[i] = "lua"
  BY <1>1, <1>2, <1>3 DEF Look
<1>6. x # <<>> /\ x[n] = "c" /\ Len(x) = n
  BY <1>1, <1>3, <1>4
<1>. QED
  BY <1>3, <1>5, <1>6 DEF Co!Ends

(* How it leaves: its fields, and what is seen of the other threads.       *)
LeavesAs(l) == IF l.status = "yield" THEN "suspended" ELSE "dead"

Left(t, l, r) ==
    /\ FramesSeen(r) = FramesSeen(Now) /\ ChainOf(r.cs) = Co!Below(ChainOf(cstack))
    /\ StatesSeen(r) = [StatesSeen(Now) EXCEPT ![t] = LeavesAs(l)]

LEMMA LeftSeen ==
    ASSUME Fine(Now), Fresh(Now), NEW t \in Thread, NEW D, Bared(t, D),
           NEW l, l.ci = th[t].ci, ~l.fn, NEW r,
           r.th = [th EXCEPT ![t] = l], SameMarks(D, r.cs), r.cs \in Seq(Activation)
    PROVE  Left(t, l, r)
<1>1. Now.cs = cstack /\ Now.th = th /\ th \in [Thread -> LuaState]
  BY NowFacts
<1>2. /\ \A i : i \notin Guards(cstack, t) /\ i \notin Guards(D, t)
      /\ ~Lives(D, t) /\ ChainOf(D) = Co!Below(ChainOf(cstack)) /\ D \in Seq(Activation)
      /\ \A u : u # t => Guards(D, u) = Guards(cstack, u) /\ (Lives(D, u) <=> Lives(cstack, u))
  BY DEF Bared
<1>3. /\ ChainOf(r.cs) = ChainOf(D)
      /\ \A u : Guards(r.cs, u) = Guards(D, u) /\ (Lives(r.cs, u) <=> Lives(D, u))
  BY <1>2, MarksChainOf, MarksGuards
<1>4. t \in Thread
  OBVIOUS
<1>5. Guards(r.cs, t) = Guards(cstack, t)
  <2>1. \A i : i \in Guards(D, t) <=> i \in Guards(cstack, t)
    BY <1>2
  <2>2. Guards(D, t) = Guards(cstack, t)
    BY <2>1 DEF Guards
  <2>. QED
    BY <1>3, <2>2
<1>6. ASSUME NEW u \in Thread
      PROVE  Seen(Guards(r.cs, u), r.th[u].ci) = Seen(Guards(cstack, u), th[u].ci)
  <2>1. CASE u = t
    BY <1>1, <1>4, <1>5, <2>1
  <2>2. CASE u # t
    BY <1>1, <1>2, <1>3, <2>2
  <2>. QED
    BY <2>1, <2>2
<1>7. FramesSeen(r) = FramesSeen(Now)
  BY <1>1, <1>6 DEF FramesSeen
<1>8. ASSUME NEW u \in Thread, u # t
      PROVE  StateSeen(r.cs, u, r.th[u]) = StateSeen(cstack, u, th[u])
  <2>1. Lives(r.cs, u) <=> Lives(cstack, u)
    BY <1>2, <1>3, <1>8
  <2>2. r.th[u] = th[u]
    BY <1>1, <1>8
  <2>. QED
    BY <2>1, <2>2 DEF StateSeen
<1>9. StateSeen(r.cs, t, r.th[t]) = LeavesAs(l)
  <2>1. r.th[t] = l
    BY <1>1, <1>4
  <2>2. ~Lives(r.cs, t)
    BY <1>2, <1>3
  <2>. QED
    BY <2>1, <2>2 DEF StateSeen, LeavesAs
<1>10. StatesSeen(r) = [StatesSeen(Now) EXCEPT ![t] = LeavesAs(l)]
  BY <1>1, <1>4, <1>8, <1>9 DEF StatesSeen
<1>. QED
  BY <1>2, <1>3, <1>7, <1>10 DEF Left

LEMMA LeftCo == ASSUME AllTold, Fresh(Now), Next, EndsResume(Now, Then) PROVE CoStep
<1>1. /\ Fine(Now) /\ Fine(Then) /\ OK(Now) /\ Now.cs = cstack /\ Now.th = th /\ Now \in State
      /\ cstack \in Seq(Activation) /\ th \in [Thread -> LuaState] /\ Told(Now)
  BY NextFine, NowFacts DEF AllTold
<1>2. PICK x : /\ EndResumeMove(Now, x) /\ Fine(x) /\ Acts(x) /\ TopOf(x).k = "cfun"
               /\ x.mode = "run" /\ (ThroughMove(x, Then) \/ Then = Raise(x))
  BY DEF EndsResume
<1>3. PICK t \in Thread : t = TopThread(cstack) /\ Own(Now) = th[t]
  BY <1>1, OwnFacts DEF Own
<1>4. PICK o \in LuaState : o = th[t]
  BY <1>1
<1>5. PICK e : e = th[t].errorJmp
  OBVIOUS
<1>6. cstack # <<>> /\ IsResume(cstack[e])
  BY <1>1, <1>2, <1>3, <1>5 DEF EndResumeMove
<1>7. ResumePlace(t, e)
  BY <1>1, <1>3, <1>5, <1>6, ResumePlaced
<1>8. PICK k \in Nat : e = k + 1
  <2>1. e \in 1..Len(cstack)
    BY <1>7 DEF ResumePlace
  <2>2. e - 1 \in Nat /\ e = (e - 1) + 1
    BY <1>1, <2>1
  <2>. QED
    BY <2>2
<1>9. k \in 0..Len(cstack) /\ e - 1 = k
  BY <1>1, <1>7, <1>8 DEF ResumePlace
<1>10. PICK D \in Seq(Activation) : D = SubSeq(cstack, 1, k)
  BY <1>1, <1>9, CutFacts
<1>11. PICK code \in Status :
          /\ code \in {"throw", "errerr"} \/ code = o.status
          /\ x = Sets(Now, [o EXCEPT !.status = code, !.nCcalls = @ - 1, !.errorJmp = 0], D, "run")
  <2>1. Own(Now) = o /\ Own(Now).errorJmp = e /\ SubSeq(Now.cs, 1, e - 1) = D
    BY <1>1, <1>3, <1>4, <1>5, <1>9, <1>10
  <2>. QED
    BY Zenon, <1>2, <2>1 DEF EndResumeMove
<1>12. PICK l : l = [o EXCEPT !.status = code, !.nCcalls = @ - 1, !.errorJmp = 0]
  OBVIOUS
<1>13. l.ci = th[t].ci /\ l.status = code /\ ~l.fn
  <2>1. ~o.fn
    BY <1>1, <1>3, <1>4, TopStarted
  <2>. QED
    BY <1>4, <1>12, <2>1 DEF LuaState
<1>14. x.th = [th EXCEPT ![t] = l] /\ x.cs = D
  BY <1>1, <1>3, <1>11, <1>12 DEF Sets
<1>15. SameMarks(D, Then.cs) /\ Then.th = x.th
  <2>1. OK(x) /\ x \in State
    BY <1>2 DEF Fine, OK
  <2>2. Then = Raise(x) => SameMarks(x.cs, Then.cs) /\ Then.th = x.th
    BY <2>1, MarksKept, StateFields DEF Raise
  <2>. QED
    BY <1>2, <1>14, <2>1, <2>2, ThroughMarks
<1>16. Then.cs \in Seq(Activation) /\ Then.cs = cstack'
  BY <1>1, ThenFacts
<1>17. Bared(t, D) /\ Left(t, l, Then)
  <2>1. Bared(t, D)
    BY <1>1, <1>7, <1>8, <1>10, ResumeBare
  <2>2. Then.th = [th EXCEPT ![t] = l]
    BY <1>14, <1>15
  <2>. QED
    BY <1>1, <1>13, <1>15, <1>16, <2>1, <2>2, LeftSeen
<1>18. Co!running = t /\ t # MainThread
  <2>1. PICK y : y = ChainOf(cstack)
    OBVIOUS
  <2>2. y[Len(y)] = t
    BY <1>1, <1>3, <2>1, ChainTop
  <2>3. Chain = y
    BY <1>1, <2>1, ViewNow
  <2>. QED
    BY <1>7, <2>2, <2>3 DEF Co!running, ResumePlace
<1>19. Co!LeaveThread(LeavesAs(l))
  BY <1>1, <1>16, <1>17, <1>18, ViewNow, ViewThen DEF Co!LeaveThread, Left
<1>20. PICK S : S = Guards(cstack, t) /\ \A i : i \notin S
  BY <1>17 DEF Bared
<1>21. [u \in Thread |-> FramesFrom(u)][Co!running] = Seen(S, o.ci)
  BY <1>1, <1>4, <1>18, <1>20, ViewNow DEF FramesSeen
<1>22. CASE l.status = "yield"
  <2>1. o.status = "yield"
    BY <1>11, <1>13, <1>22
  <2>2. Yielded(o.ci)
    BY <1>1, <1>4, <2>1 DEF Told, Stories, Story, Asleep
  <2>3. Len(o.ci) >= 2 /\ o.ci \in Seq(Frame)
    <3>1. Alive(th, cstack, mode)
      BY <1>1, NowFacts DEF OK, Good, Shape
    <3>. QED
      BY <1>4, <2>1, <3>1 DEF Alive, LuaState
  <2>4. Co!Ends(Seen(S, o.ci), "c")
        /\ \A i \in 1..(Len(Seen(S, o.ci)) - 1) : Seen(S, o.ci)[i] = "lua"
    BY <2>2, <2>3, SeenYield
  <2>5. Co!Yield
    BY <1>19, <1>21, <1>22, <2>4 DEF Co!Yield, LeavesAs
  <2>. QED
    BY <2>5 DEF CoStep, Co!CoNext
<1>23. CASE l.status # "yield"
  <2>1. Co!Unprotected(Seen(S, o.ci))
    BY <1>20, SeenBare DEF LuaState
  <2>2. Co!Kill
    BY <1>19, <1>21, <1>23, <2>1 DEF Co!Kill, LeavesAs
  <2>. QED
    BY <2>2 DEF CoStep, Co!CoNext
<1>. QED
  BY <1>22, <1>23


-----------------------------------------------------------------------------
(* A coroutine is made, lost, or resumed.                                  *)
(* Its thread has no handlers.                                             *)
LEMMA IdleSeen ==
    ASSUME Fine(Now), NEW c \in Thread \ {MainThread}, th[c].errorJmp = 0
    PROVE  ~Lives(cstack, c) /\ \A i : i \notin Guards(cstack, c)
<1>1. Jumps(th, cstack)
  BY NowFacts DEF OK, Good, Shape
<1>2. Innermost(cstack, c, 0, Len(cstack))
  BY <1>1 DEF Jumps
<1>3. \A j \in 1..Len(cstack) : ~(IsTry(cstack[j]) /\ cstack[j].t = c)
  BY <1>2 DEF Innermost
<1>4. ~Lives(cstack, c)
  BY <1>3 DEF Lives, IsResume, IsTry
<1>5. \A i : i \notin Guards(cstack, c)
  BY <1>3 DEF Guards, GuardAt, IsPcall, IsTry
<1>. QED
  BY <1>4, <1>5

(* Only its fields change.                                                 *)
LEMMA OtherSeen ==
    ASSUME Fine(Now), Fine(Then), NEW c \in Thread \ {MainThread}, th[c].errorJmp = 0, NEW l,
           th' = [th EXCEPT ![c] = l], SameMarks(cstack, cstack')
    PROVE  /\ FramesSeen(Then) = [FramesSeen(Now) EXCEPT ![c] = Seen(Guards(cstack, c), l.ci)]
           /\ StatesSeen(Then) = [StatesSeen(Now) EXCEPT ![c] = StateSeen(cstack, c, l)]
           /\ ChainOf(cstack') = ChainOf(cstack)
<1>1. Now.cs = cstack /\ Now.th = th /\ cstack \in Seq(Activation) /\ th \in [Thread -> LuaState]
  BY NowFacts
<1>2. Then.cs = cstack' /\ Then.th = th' /\ cstack' \in Seq(Activation)
  BY ThenFacts
<1>3. ChainOf(cstack') = ChainOf(cstack)
  BY <1>1, <1>2, MarksChainOf
<1>4. \A u : Guards(cstack', u) = Guards(cstack, u) /\ (Lives(cstack', u) <=> Lives(cstack, u))
  BY <1>1, <1>2, MarksGuards
<1>5. th'[c] = l /\ \A u \in Thread : u # c => th'[u] = th[u]
  BY <1>1
<1>6. \A u \in Thread : StateSeen(cstack', u, th'[u]) = StateSeen(cstack, u, th'[u])
  BY <1>4 DEF StateSeen
<1>7. StatesSeen(Then) = [StatesSeen(Now) EXCEPT ![c] = StateSeen(cstack, c, l)]
  BY <1>1, <1>2, <1>5, <1>6 DEF StatesSeen
<1>8. FramesSeen(Then) = [FramesSeen(Now) EXCEPT ![c] = Seen(Guards(cstack, c), l.ci)]
  BY <1>1, <1>2, <1>4, <1>5 DEF FramesSeen
<1>. QED
  BY <1>3, <1>7, <1>8

LEMMA luaB_cocreateCo ==
    ASSUME AllTold, Next, NEW c \in Thread \ {MainThread}, luaB_cocreate(c)
    PROVE  CoStep
<1>1. /\ Fine(Now) /\ Fine(Then) /\ Now.cs = cstack /\ Now.th = th /\ Now \in State
      /\ cstack \in Seq(Activation) /\ th \in [Thread -> LuaState]
  BY NextFine, NowFacts DEF AllTold, Fine, OK
<1>2. Starts("c") /\ costatus(Top.t, c) = "dead" /\ cstack # <<>>
  BY DEF luaB_cocreate, Starts, InC
<1>3. c # Top.t /\ th[c].errorJmp = 0
  BY <1>1, <1>2, IdleFacts
<1>4. PICK o \in LuaState : o = th[c]
  BY <1>1
<1>5. o.status # "yield" /\ (o.status # "ok" \/ ~o.fn)
  BY <1>2, <1>3, <1>4 DEF costatus
<1>6. PICK l : l = NewThread(TRUE)
  OBVIOUS
<1>7. l.ci = <<>> /\ l.status = "ok" /\ l.fn
  BY <1>6 DEF NewThread
<1>8. th' = [th EXCEPT ![c] = l] /\ cstack' = cstack
  <2>1. PICK r : r = [Now EXCEPT !.th[c] = l] /\ Become(r)
    BY <1>6 DEF luaB_cocreate
  <2>2. PICK v : v = [th EXCEPT ![c] = l]
    OBVIOUS
  <2>3. r = [Now EXCEPT !.th = v]
    BY <1>1, <2>1, <2>2
  <2>4. r.th = v /\ r.cs = cstack
    BY <1>1, <2>3, StateFields
  <2>. QED
    BY <2>1, <2>2, <2>4 DEF Become
<1>9. ~Lives(cstack, c) /\ \A i : i \notin Guards(cstack, c)
  BY <1>1, <1>3, IdleSeen
<1>10. /\ FramesSeen(Then) = [FramesSeen(Now) EXCEPT ![c] = Seen(Guards(cstack, c), l.ci)]
       /\ StatesSeen(Then) = [StatesSeen(Now) EXCEPT ![c] = StateSeen(cstack, c, l)]
       /\ ChainOf(cstack') = ChainOf(cstack)
  BY <1>1, <1>3, <1>8, MarksKept, OtherSeen
<1>11. Seen(Guards(cstack, c), l.ci) = <<>>
  BY <1>7, SeenEmpty
<1>12. StateSeen(cstack, c, l) = "fresh"
  BY <1>7, <1>9 DEF StateSeen
<1>13. StatesSeen(Now)[c] = "dead"
  BY <1>1, <1>4, <1>5, <1>9 DEF StatesSeen, StateSeen
<1>14. Co!Create(c)
  BY <1>1, <1>10, <1>11, <1>12, <1>13, ViewNow, ViewThen DEF Co!Create
<1>. QED
  BY <1>14 DEF CoStep, Co!CoNext

(* resume or wrap gets an error.                                           *)
LEMMA FailedMarks ==
    ASSUME NEW x, Fine(x), Acts(x), TopOf(x).k = "cfun", x.mode = "run",
           NEW r, r = ResumeFailed(x)
    PROVE  SameMarks(x.cs, r.cs) /\ r.th = x.th
<1>1. OK(x) /\ x \in State
  BY DEF Fine, OK
<1>2. CASE r = Raise(x)
  BY <1>1, <1>2, MarksKept, StateFields DEF Raise
<1>3. CASE r = Done(x)
  BY <1>1, <1>3, DoneStep, ThroughMarks
<1>. QED
  BY <1>2, <1>3 DEF ResumeFailed

LEMMA ResumeRefusedCo ==
    ASSUME AllTold, Next, NEW c \in Thread \ {MainThread}, auxresume(c),
           ~(costatus(Top.t, c) = "suspended" /\ Own(Now).nCcalls < MaxCCalls)
    PROVE  CoStep
<1>1. /\ Fine(Now) /\ Fine(Then) /\ Now.cs = cstack /\ Now.th = th /\ Now \in State /\ Then.th = th'
      /\ cstack \in Seq(Activation) /\ th \in [Thread -> LuaState] /\ Then.cs = cstack'
  BY NextFine, NowFacts, ThenFacts DEF AllTold, Fine, OK
<1>2. CASE costatus(Top.t, c) # "suspended"
  <2>1. Runs /\ TopOf(Now).k = "cfun"
    BY <1>1, StartsFacts DEF auxresume, Starts, InC
  <2>2. Acts(Now) /\ Now.mode = "run" /\ Become(ResumeFailed(Now))
    BY <1>1, <1>2, <2>1, RunsFacts, NowFacts DEF auxresume
  <2>3. SameMarks(cstack, cstack') /\ th' = th
    <3>1. PICK r : r = ResumeFailed(Now) /\ Become(r)
      BY <2>2
    <3>2. SameMarks(cstack, r.cs) /\ r.th = th
      BY <1>1, <2>1, <2>2, <3>1, FailedMarks
    <3>. QED
      BY <3>1, <3>2 DEF Become
  <2>4. Alters(Now, Then, c)
    BY <1>1, <2>3 DEF Alters
  <2>. QED
    BY <1>1, <2>3, <2>4, QuietStep
<1>3. CASE costatus(Top.t, c) = "suspended" /\ ~(Own(Now).nCcalls < MaxCCalls)
  <2>1. PICK x, l :
              /\ Fine(x) /\ Become(ResumeFailed(x))
              /\ Acts(x) /\ TopOf(x).k = "cfun" /\ x.mode = "run"
              /\ x.th = [th EXCEPT ![c] = l] /\ x.cs = cstack
              /\ th[c].errorJmp = 0 /\ l.ci = th[c].ci /\ l.status = th[c].status
              /\ l.fn = (th[c].fn /\ th[c].status = "yield")
              /\ th[c].status = "yield" \/ (th[c].status = "ok" /\ th[c].ci = <<>>)
    BY <1>1, <1>3, ResumeRefused
  <2>2. SameMarks(cstack, cstack') /\ th' = [th EXCEPT ![c] = l]
    <3>1. PICK r : r = ResumeFailed(x) /\ Become(r)
      BY <2>1
    <3>2. SameMarks(cstack, r.cs) /\ r.th = [th EXCEPT ![c] = l]
      BY <2>1, <3>1, FailedMarks
    <3>. QED
      BY <3>1, <3>2 DEF Become
  <2>3. ~Lives(cstack, c) /\ \A i : i \notin Guards(cstack, c)
    BY <1>1, <2>1, IdleSeen
  <2>4. /\ FramesSeen(Then) = [FramesSeen(Now) EXCEPT ![c] = Seen(Guards(cstack, c), l.ci)]
        /\ StatesSeen(Then) = [StatesSeen(Now) EXCEPT ![c] = StateSeen(cstack, c, l)]
        /\ ChainOf(cstack') = ChainOf(cstack)
    BY <1>1, <2>1, <2>2, OtherSeen
  <2>5. FramesSeen(Then) = FramesSeen(Now)
    BY <1>1, <2>1, <2>4 DEF FramesSeen
  <2>6. CASE th[c].status = "ok" /\ th[c].fn
    <3>1. StateSeen(cstack, c, l) = "dead" /\ StatesSeen(Now)[c] = "fresh"
      BY <1>1, <2>1, <2>3, <2>6 DEF StateSeen, StatesSeen
    <3>2. Co!Lose(c)
      BY <1>1, <2>4, <2>5, <3>1, ViewNow, ViewThen DEF Co!Lose
    <3>. QED
      BY <3>2 DEF CoStep, Co!CoNext
  <2>7. CASE ~(th[c].status = "ok" /\ th[c].fn)
    <3>1. StateSeen(cstack, c, l) = StateSeen(cstack, c, th[c])
      BY <2>1, <2>3, <2>7 DEF StateSeen
    <3>2. StatesSeen(Then) = StatesSeen(Now)
      BY <1>1, <2>4, <3>1 DEF StatesSeen
    <3>3. UNCHANGED Co!coVars
      BY <1>1, <2>4, <2>5, <3>2, ViewNow, ViewThen DEF Co!coVars
    <3>. QED
      BY <3>3 DEF CoStep
  <2>. QED
    BY <2>6, <2>7
<1>. QED
  BY <1>2, <1>3


(* A coroutine has room for its first frame.                               *)
LEMMA FirstRoom ==
    ASSUME NEW x, Fine(x), x.mode = "run", NEW t, t = TopThread(x.cs), Own(x).ci = <<>>
    PROVE  Grow(x, t).mode = "run"
<1>1. t \in Thread /\ x.th \in [Thread -> LuaState] /\ Own(x) = x.th[t] /\ x \in State
  BY OwnFacts DEF Fine, OK, Own
<1>2. PICK o \in LuaState : o = x.th[t]
  BY <1>1
<1>3. PICK z \in Nat : z = o.size_ci
  BY DEF LuaState
<1>4. Len(o.ci) = 0
  BY <1>1, <1>2
<1>5. MaxCalls \in Nat /\ MaxCalls >= 2
  BY CallsAssumption
<1>6. PICK g : g = Grow(x, t)
  OBVIOUS
<1>7. g = x \/ g = [x EXCEPT !.th[t].size_ci = 2 * z]
  <2>1. CASE 0 # z - 1
    BY <1>2, <1>3, <1>4, <1>6, <2>1 DEF Grow
  <2>2. CASE 0 = z - 1
    <3>1. ~(z > MaxCalls) /\ ~(2 * z > MaxCalls)
      BY <1>3, <1>5, <2>2
    <3>. QED
      BY <1>2, <1>3, <1>4, <1>6, <2>2, <3>1 DEF Grow, growCI
  <2>. QED
    BY <2>1, <2>2
<1>8. [x EXCEPT !.th[t].size_ci = 2 * z].mode = x.mode
  BY <1>1 DEF State
<1>. QED
  BY <1>6, <1>7, <1>8

(* What a coroutine that goes on has on its stack, and on the C stack.     *)
GoesOn(s, r, c, q) ==
    /\ SameMarks(s.cs, r.cs) /\ r.th[c].ci = q
    /\ \A u \in Thread : u # c => r.th[u] = s.th[u]

LEMMA StartedFrames ==
    ASSUME NEW x, Fine(x), Acts(x), x.mode = "run", NEW t, t = TopThread(x.cs), Own(x).ci = <<>>
    PROVE  GoesOn(x, Entered(x, t, "lua"), t, <<"lua">>)
<1>. DEFINE g == Grow(x, t)
<1>0. g.mode = "run" /\ "lua" \in Frame
  BY FirstRoom DEF Frame
<1>1. /\ Grown(x, g, t) /\ t \in Thread /\ x.th \in [Thread -> LuaState] /\ x \in State
      /\ x.cs \in Seq(Activation) /\ Own(x) = x.th[t]
  BY GrowFacts, OwnFacts DEF Fine, OK, Own
<1>2. inc_ci(x, t, "lua") = PushFrame(g, t, "lua")
  BY <1>0 DEF inc_ci, Grow
<1>3. Stays(x, g, t) /\ g.cs = x.cs
  BY <1>1, GrowStays
<1>. HIDE DEF g
<1>4. g \in State /\ t = TopThread(g.cs) /\ Own(g) = g.th[t] /\ g.th \in [Thread -> LuaState]
  BY <1>0, <1>1 DEF Grown, Fine, OK, Own, State
<1>5. PushFrame(g, t, "lua").mode = "run"
  BY <1>0, <1>1, <1>4, PushFrameFacts
<1>6. Entered(x, t, "lua") = Push(PushFrame(g, t, "lua"), Entry("lua", t))
  <2>1. luaD_precall(x, t, "lua") = PushFrame(g, t, "lua")
    BY <1>2, <1>5 DEF luaD_precall
  <2>. QED
    BY <1>5, <2>1 DEF Entered, Execute, Entry
<1>7. PICK o \in LuaState : o = Own(g)
  BY <1>1, <1>4
<1>8. PICK l : l = [o EXCEPT !.ci = Append(@, "lua")]
  OBVIOUS
<1>9. PICK D : D = Append(x.cs, Entry("lua", t))
  OBVIOUS
<1>10. Entered(x, t, "lua") = Sets(g, l, D, g.mode)
  <2>1. PICK b : b = Entry("lua", t)
    OBVIOUS
  <2>2. Push(PushFrame(g, t, "lua"), b) =
          Sets(g, [Own(g) EXCEPT !.ci = Append(@, "lua")], Append(g.cs, b), g.mode)
    BY <1>1, <1>4, PushFrameFacts
  <2>. QED
    BY <1>3, <1>6, <1>7, <1>8, <1>9, <2>1, <2>2
<1>11. l.ci = <<"lua">>
  <2>1. o.ci = <<>>
    BY <1>1, <1>3, <1>4, <1>7 DEF Stays
  <2>2. Append(<<>>, "lua") = <<"lua">>
    OBVIOUS
  <2>. QED
    BY <1>8, <2>1, <2>2 DEF LuaState
<1>12. SameMarks(x.cs, D)
  BY <1>0, <1>1, <1>9, EntryUnmarked, MarksMore
<1>13. Entered(x, t, "lua").th = [g.th EXCEPT ![t] = l] /\ Entered(x, t, "lua").cs = D
  BY <1>4, <1>10 DEF Sets
<1>14. \A u \in Thread : u # t => g.th[u] = x.th[u]
  BY <1>3 DEF Stays, Goes
<1>. QED
  BY <1>1, <1>4, <1>11, <1>12, <1>13, <1>14 DEF GoesOn

LEMMA ContinuedFrames ==
    ASSUME NEW s, OK(s), NEW r, ContinueMove(s, r), NEW t, t = TopThread(s.cs)
    PROVE  GoesOn(s, r, t, SubSeq(s.th[t].ci, 1, Len(s.th[t].ci) - 1))
<1>1. /\ t \in Thread /\ s.th \in [Thread -> LuaState] /\ s \in State
      /\ s.cs \in Seq(Activation) /\ Own(s) = s.th[t]
  BY OwnFacts DEF OK, Own
<1>2. PICK o \in LuaState : o = s.th[t]
  BY <1>1
<1>3. o.status = "yield"
  BY <1>1, <1>2 DEF ContinueMove
<1>4. Len(o.ci) >= 2 /\ o.ci \in Seq(Frame)
  <2>1. Good(s.th, s.cs, s.mode)
    BY DEF OK
  <2>. QED
    BY <1>1, <1>2, <1>3, <2>1, YieldedFrames DEF LuaState
<1>5. PICK m \in Nat \ {0} : m = Len(o.ci) - 1
  <2>1. Len(o.ci) \in Nat
    BY <1>4
  <2>2. \A i \in Nat : i >= 2 => i - 1 \in Nat /\ i - 1 # 0
    OBVIOUS
  <2>3. Len(o.ci) - 1 \in Nat /\ Len(o.ci) - 1 # 0
    BY Zenon, <1>4, <2>1, <2>2
  <2>. QED
    BY Zenon, <2>3
<1>6. PICK a : a = [k |-> "exec", t |-> t, n |-> m]
  OBVIOUS
<1>7. a \in Activation /\ ~Mark(a)
  BY <1>1, <1>6 DEF Activation, Exec, Mark, IsResume, IsPcall
<1>8. PICK l : l = [o EXCEPT !.ci = SubSeq(@, 1, Len(@) - 1), !.status = "ok"]
  OBVIOUS
<1>9. r = Sets(s, l, Append(s.cs, a), "run")
  <2>1. r = Sets(s, [Own(s) EXCEPT !.ci = SubSeq(@, 1, Len(@) - 1), !.status = "ok"],
                 Append(s.cs, [k |-> "exec", t |-> TopThread(s.cs), n |-> Len(Own(s).ci) - 1]),
                 "run")
    BY DEF ContinueMove
  <2>2. Own(s) = o /\ Len(Own(s).ci) - 1 = m
    BY <1>1, <1>2, <1>5
  <2>3. l = [Own(s) EXCEPT !.ci = SubSeq(@, 1, Len(@) - 1), !.status = "ok"]
    BY <1>8, <2>2
  <2>4. a = [k |-> "exec", t |-> TopThread(s.cs), n |-> Len(Own(s).ci) - 1]
    BY <1>6, <2>2
  <2>. QED
    BY Zenon, <2>1, <2>3, <2>4
<1>10. l.ci = SubSeq(o.ci, 1, Len(o.ci) - 1)
  BY <1>8 DEF LuaState
<1>11. r.th = [s.th EXCEPT ![t] = l] /\ r.cs = Append(s.cs, a)
  BY <1>9 DEF Sets
<1>12. SameMarks(s.cs, r.cs)
  BY <1>1, <1>7, <1>11, MarksMore
<1>. QED
  BY <1>1, <1>2, <1>10, <1>11, <1>12 DEF GoesOn

(* A thread is resumed: what is seen of it.                                *)
Resumed(c, q, r) ==
    /\ FramesSeen(r) = [FramesSeen(Now) EXCEPT ![c] = Seen(Guards(cstack, c), q)]
    /\ StatesSeen(r) = [StatesSeen(Now) EXCEPT ![c] = "active"]
    /\ ChainOf(r.cs) = Append(ChainOf(cstack), c)

LEMMA ResumedSeen ==
    ASSUME Fine(Now), NEW c \in Thread, NEW a \in Activation, IsResume(a), a.t = c,
           NEW s, s.cs = Append(cstack, a), \A u \in Thread : u # c => s.th[u] = th[u],
           NEW q, NEW r, GoesOn(s, r, c, q), r.cs \in Seq(Activation)
    PROVE  Resumed(c, q, r)
<1>1. Now.cs = cstack /\ Now.th = th /\ cstack \in Seq(Activation) /\ th \in [Thread -> LuaState]
  BY NowFacts
<1>2. PICK D \in Seq(Activation) : D = Append(cstack, a)
  BY <1>1, AppendFacts
<1>3. SameMarks(D, r.cs) /\ r.th[c].ci = q /\ \A u \in Thread : u # c => r.th[u] = th[u]
  BY <1>2 DEF GoesOn
<1>4. ~IsPcall(a)
  BY DEF IsResume, IsPcall
<1>5. \A u : /\ \A i : i \in Guards(D, u) <=> i \in Guards(cstack, u)
             /\ Lives(D, u) <=> Lives(cstack, u) \/ u = c
  BY <1>1, <1>2, <1>4, GuardsMore
<1>6. \A u : Guards(D, u) = Guards(r.cs, u) /\ (Lives(D, u) <=> Lives(r.cs, u))
  BY <1>2, <1>3, MarksGuards
<1>7. \A u : Guards(r.cs, u) = Guards(cstack, u)
  <2>1. \A u : Guards(D, u) = Guards(cstack, u)
    <3>. SUFFICES ASSUME NEW u PROVE Guards(D, u) = Guards(cstack, u)
      OBVIOUS
    <3>1. \A i : i \in Guards(D, u) <=> i \in Guards(cstack, u)
      BY <1>5
    <3>. QED
      BY Zenon, <3>1
  <2>. QED
    BY <1>6, <2>1
<1>8. ChainOf(r.cs) = Append(ChainOf(cstack), c)
  BY <1>1, <1>2, <1>3, ChainMore, MarksChainOf
<1>9. FramesSeen(r) = [FramesSeen(Now) EXCEPT ![c] = Seen(Guards(cstack, c), q)]
  BY <1>1, <1>3, <1>7 DEF FramesSeen
<1>10. \A u \in Thread : StateSeen(r.cs, u, r.th[u]) =
                           IF u = c THEN "active" ELSE StateSeen(cstack, u, th[u])
  BY <1>3, <1>5, <1>6 DEF StateSeen
<1>11. StatesSeen(r) = [StatesSeen(Now) EXCEPT ![c] = "active"]
  BY <1>1, <1>10 DEF StatesSeen
<1>. QED
  BY <1>8, <1>9, <1>11 DEF Resumed

LEMMA ResumeCo ==
    ASSUME AllTold, Next, NEW c \in Thread \ {MainThread}, auxresume(c),
           costatus(Top.t, c) = "suspended", Own(Now).nCcalls < MaxCCalls
    PROVE  CoStep
<1>1. /\ Fine(Now) /\ Fine(Then) /\ Now.cs = cstack /\ Now.th = th /\ Now \in State /\ Then.th = th'
      /\ cstack \in Seq(Activation) /\ th \in [Thread -> LuaState] /\ Then.cs = cstack'
      /\ cstack' \in Seq(Activation)
  BY NextFine, NowFacts, ThenFacts DEF AllTold, Fine, OK
<1>2. cstack # <<>>
  BY DEF auxresume, Starts, InC
<1>3. c # Top.t /\ th[c].errorJmp = 0
  BY <1>1, <1>2, IdleFacts
<1>4. PICK r : /\ Fine(r) /\ Become(Continue(r, c))
               /\ r.mode = "run" /\ r.cs # <<>> /\ IsResume(TopOf(r)) /\ TopThread(r.cs) = c
               /\ \E a \in Activation : IsResume(a) /\ a.t = c /\ r.cs = Append(cstack, a)
               /\ \A u \in Thread : u # c => r.th[u] = th[u]
               /\ Own(r).ci = th[c].ci /\ Own(r).status = th[c].status
               /\ \/ Own(r).status = "yield"
                  \/ Own(r).status = "ok" /\ Own(r).ci = <<>> /\ ~Own(r).fn
  BY <1>1, ResumeBegins
<1>5. PICK a \in Activation : IsResume(a) /\ a.t = c /\ r.cs = Append(cstack, a)
  BY <1>4
<1>6. PICK z : z = Continue(r, c) /\ z.th = th' /\ z.cs = cstack'
  BY <1>4 DEF Become
<1>7. ~Lives(cstack, c)
  BY <1>1, <1>3, IdleSeen
<1>8. ASSUME NEW q, GoesOn(r, z, c, q),
             StatesSeen(Now)[c] \in {"fresh", "suspended"},
             Seen(Guards(cstack, c), q) = IF StatesSeen(Now)[c] = "fresh" THEN <<"lua">>
                                          ELSE Co!Below(FramesSeen(Now)[c])
      PROVE  CoStep
  <2>1. Resumed(c, q, z)
    BY <1>1, <1>4, <1>5, <1>6, <1>8, ResumedSeen
  <2>2. FramesSeen(Then) = FramesSeen(z) /\ StatesSeen(Then) = StatesSeen(z)
    BY <1>1, <1>6 DEF FramesSeen, StatesSeen
  <2>3. Co!Resume(c)
    BY <1>1, <1>6, <1>8, <2>1, <2>2, ViewNow, ViewThen DEF Co!Resume, Resumed
  <2>. QED
    BY <2>3 DEF CoStep, Co!CoNext
<1>9. CASE Own(r).status = "yield"
  <2>1. ContinueMove(r, z) /\ OK(r) /\ r.th[c] = Own(r)
    BY <1>4, <1>6, <1>9, ContinueYielded DEF Fine, Own, TopThread
  <2>2. GoesOn(r, z, c, SubSeq(th[c].ci, 1, Len(th[c].ci) - 1))
    <3>1. PICK t : t = TopThread(r.cs) /\ t = c
      BY <1>4
    <3>2. GoesOn(r, z, t, SubSeq(r.th[t].ci, 1, Len(r.th[t].ci) - 1))
      BY <2>1, <3>1, ContinuedFrames
    <3>3. r.th[t].ci = th[c].ci
      BY <1>4, <2>1, <3>1
    <3>. QED
      BY <3>1, <3>2, <3>3
  <2>3. th[c].ci \in Seq(Frame) /\ th[c].ci # <<>>
    <3>1. PICK o \in LuaState : o = r.th[c]
      BY <1>4, OwnFacts DEF Fine
    <3>2. Good(r.th, r.cs, r.mode) /\ o.status = "yield" /\ o.ci \in Seq(Frame)
      BY <1>9, <2>1, <3>1 DEF OK, LuaState
    <3>3. Len(o.ci) >= 2
      BY <1>4, <3>1, <3>2, YieldedFrames
    <3>. QED
      BY <1>4, <2>1, <3>1, <3>2, <3>3
  <2>4. StatesSeen(Now)[c] = "suspended"
    BY <1>1, <1>4, <1>7, <1>9 DEF StatesSeen, StateSeen
  <2>5. FramesSeen(Now)[c] = Seen(Guards(cstack, c), th[c].ci)
    BY <1>1 DEF FramesSeen
  <2>6. Seen(Guards(cstack, c), SubSeq(th[c].ci, 1, Len(th[c].ci) - 1)) = Co!Below(FramesSeen(Now)[c])
    BY <2>3, <2>5, SeenLess DEF Co!Leave
  <2>. QED
    BY <1>8, <2>2, <2>4, <2>6
<1>10. CASE Own(r).status = "ok" /\ Own(r).ci = <<>> /\ ~Own(r).fn
  <2>1. z = Entered(r, c, "lua")
    BY <1>4, <1>6, <1>10, ContinueFresh
  <2>2. Acts(r)
    BY <1>4, <1>10 DEF Acts
  <2>3. GoesOn(r, z, c, <<"lua">>)
    BY <1>4, <1>10, <2>1, <2>2, StartedFrames
  <2>4. StatesSeen(Now)[c] = "fresh"
    BY <1>1, <1>3, <1>4, <1>7, <1>10 DEF StatesSeen, StateSeen, costatus
  <2>5. Seen(Guards(cstack, c), <<"lua">>) = <<"lua">>
    <3>1. <<"lua">> \in Seq(Frame) /\ <<"lua">> \in Seq(Sight) /\ Len(<<"lua">>) = 1 /\ <<"lua">>[1] = "lua"
      BY DEF Frame, Sight
    <3>2. \A i \in 1..Len(<<"lua">>) : <<"lua">>[i] = Look(<<"lua">>[i], i, Guards(cstack, c))
      BY <3>1 DEF Look
    <3>. QED
      BY <3>1, <3>2, SeenIs
  <2>. QED
    BY <1>8, <2>3, <2>4, <2>5
<1>. QED
  BY <1>4, <1>9, <1>10

-----------------------------------------------------------------------------
(* Every step is one of LuaCoroutines, or none.                            *)
LEMMA StepCo == ASSUME AllTold, Fresh(Now), Next PROVE CoStep
<1>0. Fine(Now) /\ Fine(Then)
  BY NextFine
<1>1. CASE OpCall \/ OpTailCall \/ OpReturn \/ OpMeta
  BY <1>0, <1>1, OpCallCo, OpTailCallCo, OpReturnMoves, LeaveCo, ReenterCo, CallingCo
<1>2. CASE CallFromC \/ luaB_pcall \/ luaB_xpcall \/ luaD_protectedparser
  BY <1>0, <1>2, CallingCo, luaB_pcallCo, luaB_xpcallCo, luaD_protectedparserCo
<1>3. CASE RaiseError \/ OutOfMemory \/ ReturnFromC \/ luaD_callReturns
  BY <1>0, <1>3, ThrowingCo, ReturnFromCMoves, luaD_callReturnsMoves, LeaveCo
<1>4. CASE enterlevel \/ leavelevel \/ generic_reader \/ SyntaxError \/ ParserReturns
  BY <1>0, <1>4, LevelMoves, LevelCo, CallingCo, ThrowingCo, ParserReturnsMoves, LeaveCo
<1>5. CASE luaD_callhook \/ HookReturns \/ GCTM \/ GCTMReturns
  BY <1>0, <1>5, luaD_callhookCo, HookReturnsMoves, LeaveCo, GCTMCo
<1>6. CASE \E t \in Thread : checkstacksizes(t)
  BY <1>0, <1>6, checkstacksizesMoves, SizeCo
<1>7. CASE luaG_errormsg \/ HandlerReturns
  BY <1>7, luaG_errormsgCo, ThrowingCo
<1>8. CASE luaD_throw \/ ProtectedReturns
  <2>1. \/ EndsResume(Now, Then) \/ EndsPcall(Now, Then) \/ CloseMove(Now, Then)
    BY <1>0, <1>8, luaD_throwEnds, ProtectedReturnsEnds
  <2>. QED
    BY <1>0, <2>1, LeftCo, EndPcallCo, CloseCo
<1>9. CASE \E c \in Thread \ {MainThread} : luaB_cocreate(c) \/ auxresume(c)
  BY <1>9, luaB_cocreateCo, ResumeCo, ResumeRefusedCo
<1>10. CASE lua_yield
  BY <1>0, <1>10, lua_yieldMoves, YieldCo, YieldFailsCo
<1>11. CASE lua_cpcall \/ lua_close \/ close_state
  BY <1>0, <1>11, lua_cpcallCo, lua_closeMoves, CloseCo, close_stateMoves, ClosedCo
<1>. QED
  BY <1>1, <1>2, <1>3, <1>4, <1>5, <1>6, <1>7, <1>8, <1>9, <1>10, <1>11 DEF Next

LEMMA InitCo == ASSUME Init PROVE Co!CoInit
<1>1. Fine(Now) /\ Now.cs = <<>> /\ Now.th = [t \in Thread |-> NewThread(FALSE)]
      /\ th = Now.th /\ cstack = <<>>
  BY InitSafe DEF Safe, Init, Now
<1>2. <<>> \in Seq(Activation) /\ Len(<<>>) = 0
  OBVIOUS
<1>3. \A t \in Thread : th[t].ci = <<>> /\ th[t].status = "ok" /\ ~th[t].fn
  <2>1. th = [t \in Thread |-> NewThread(FALSE)]
    BY DEF Init
  <2>. QED
    BY <2>1 DEF NewThread
<1>4. FramesSeen(Now) = [c \in Thread |-> <<>>]
  BY <1>1, <1>3, SeenEmpty DEF FramesSeen
<1>5. \A t : Lives(<<>>, t) <=> t = MainThread
  BY <1>2 DEF Lives
<1>6. StatesSeen(Now) = [c \in Thread |-> IF c = MainThread THEN "active" ELSE "dead"]
  BY <1>1, <1>3, <1>5 DEF StatesSeen, StateSeen
<1>7. ChainOf(<<>>) = <<MainThread>>
  <2>1. PICK R : Lines(<<>>, R)
    BY <1>2, LinesExist
  <2>. QED
    BY <1>2, <2>1, ChainIs DEF Lines
<1>. QED
  BY <1>1, <1>4, <1>6, <1>7, ViewNow DEF Co!CoInit

(* Calls, errors and coroutines behave as LuaCoroutines says, for every    *)
(* number of threads and every limit on calls and frames: on the C stack   *)
(* and with long jumps, frames still end in order, an error still goes to  *)
(* the innermost protected call of the running coroutine, and coroutines   *)
(* are resumed once and come back in order.                                *)
THEOREM CallsImplementCoroutines == Spec => ImplementsCoroutines
<1>1. Init => Co!CoInit /\ Fresh(Now)
  BY InitCo, InitFresh
<1>2. AllTold /\ Fresh(Now) /\ [Next]_vars => Fresh(Now)'
  <2>1. ASSUME AllTold, Fresh(Now), [Next]_vars PROVE Fresh(Now)'
    <3>1. Fresh(Then)
      BY <2>1, StepFresh DEF AllTold, Safe
    <3>2. Then.th = Now'.th
      BY DEF Then, Now
    <3>. QED
      BY <3>1, <3>2 DEF Fresh, FreshAt
  <2>. QED
    BY <2>1
<1>3. AllTold /\ Fresh(Now) /\ [Next]_vars => [Co!CoNext]_(Co!coVars)
  <2>1. ASSUME AllTold, Fresh(Now), Next PROVE [Co!CoNext]_(Co!coVars)
    BY <2>1, StepCo DEF CoStep
  <2>2. ASSUME UNCHANGED vars PROVE UNCHANGED Co!coVars
    <3>1. th' = th /\ cstack' = cstack
      BY <2>2 DEF vars
    <3>. QED
      BY <3>1 DEF Co!coVars, FramesFrom, StateFrom, Live, Chain
  <2>. QED
    BY <2>1, <2>2
<1>. QED
  BY <1>1, <1>2, <1>3, FramesTold, PTL DEF Spec, ImplementsCoroutines, Co!CoSpec
=============================================================================
