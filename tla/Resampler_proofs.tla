--------------------------- MODULE Resampler_proofs ---------------------------
(***************************************************************************)
(* For any rates, blocks and number of taps: the resampler multiplies the  *)
(* right samples, its positions do not drift, its buffers suffice, and the *)
(* rate is kept.                                                           *)
(***************************************************************************)
EXTENDS Resampler, WellFoundedInduction, TLAPS

(* A stage that gets blocks of at most m samples.  Window and Twice say what *)
(* the history holds; Progress bounds the outputs of a block by the samples  *)
(* it has taken, Yield by the largest block.                                *)
Stage ==
  [up : Nat \ {0}, down : Nat \ {0}, cap : Nat,
   history : [0 .. 2 * Taps - 1 -> Int],
   histWrite : 0 .. Taps - 1, phase : Nat, inNeeded : Nat, pushed : Nat,
   left : Nat, outCount : Nat, outs : Nat]

Sample(n) == IF n >= 0 THEN n ELSE Silence

Window(f) == \A k \in 0 .. Taps - 1 :
               f.history[f.histWrite + k] = Sample(f.pushed - 1 - k)
Twice(f)  == \A i \in 0 .. Taps - 1 : f.history[i + Taps] = f.history[i]

Progress(f, m) ==
  f.outCount * f.down <= (f.inNeeded - f.pushed + m - f.left) * f.up + f.phase
Yield(f, m) == f.outCount = 0 \/ (f.outCount - 1) * f.down < m * f.up

StageInv(f, m) ==
  /\ f \in Stage
  /\ f.cap = Cap(f.up, f.down, m)
  /\ f.phase < f.up
  /\ f.pushed <= f.inNeeded + 1
  /\ f.left <= m
  /\ Window(f) /\ Twice(f)
  /\ OnTime(f)
  /\ Progress(f, m) /\ Yield(f, m)

Resting(f) == f.left = 0 /\ Starved(f)

-----------------------------------------------------------------------------
(* Arithmetic. *)

LEMMA Division ==
  ASSUME NEW a \in Nat, NEW b \in Nat \ {0}
  PROVE  /\ a \div b \in Nat /\ a % b \in Nat /\ a % b < b
         /\ a = b * (a \div b) + (a % b)
  OBVIOUS

LEMMA ProductNat ==
  ASSUME NEW a \in Nat, NEW b \in Nat
  PROVE  a * b \in Nat
  OBVIOUS

LEMMA StrictlyMonotone ==
  ASSUME NEW a \in Int, NEW b \in Int, NEW c \in Nat \ {0}, a < b
  PROVE  a * c < b * c
  OBVIOUS

LEMMA Distribute ==
  ASSUME NEW a \in Int, NEW b \in Int, NEW c \in Int
  PROVE  (a + b) * c = a * c + c * b
  OBVIOUS

LEMMA Advance ==
  ASSUME NEW x \in Int, NEW u \in Nat, NEW q \in Nat, NEW r \in Nat,
         NEW s \in Nat, s = u * q + r
  PROVE  (x + q) * u + r = x * u + s
<1>1. (x + q) * u = x * u + u * q
  BY Distribute
<1>2. x * u \in Int /\ u * q \in Int
  OBVIOUS
<1> QED
  BY <1>1, <1>2

LEMMA Cancel ==
  ASSUME NEW a \in Int, NEW b \in Int, NEW c \in Nat \ {0}, a * c < b * c
  PROVE  a < b
  OBVIOUS

LEMMA Monotone ==
  ASSUME NEW a \in Int, NEW b \in Int, NEW c \in Nat, a <= b
  PROVE  a * c <= b * c
  OBVIOUS

-----------------------------------------------------------------------------
(* One stage. *)

LEMMA DesignedInv ==
  ASSUME NEW u \in Nat \ {0}, NEW d \in Nat \ {0}, NEW m \in Nat
  PROVE  /\ StageInv(Designed(u, d, m), m)
         /\ Resting(Designed(u, d, m))
<1> DEFINE f == Designed(u, d, m)
<1>1. Cap(u, d, m) \in Nat
  <2>1. m * u \in Nat
    BY ProductNat
  <2> QED
    BY <2>1, Division DEF Cap
<1>2. f \in Stage
  BY <1>1, TapsAssumption DEF Designed, Stage, Silence
<1>3. Window(f) /\ Twice(f)
  BY TapsAssumption DEF Window, Twice, Designed, Sample, Silence
<1>4. OnTime(f) /\ Resting(f)
  BY DEF OnTime, Resting, Starved, Designed
<1>5. Progress(f, m) /\ Yield(f, m)
  <2>1. m * u \in Nat
    BY ProductNat
  <2> QED
    BY <2>1 DEF Progress, Yield, Designed
<1> QED
  BY <1>2, <1>3, <1>4, <1>5 DEF StageInv, Designed

LEMMA StageFields ==
  ASSUME NEW f \in Stage
  PROVE  /\ f.up \in Nat \ {0} /\ f.down \in Nat \ {0} /\ f.cap \in Nat
         /\ f.history \in [0 .. 2 * Taps - 1 -> Int]
         /\ f.histWrite \in 0 .. Taps - 1
         /\ f.phase \in Nat /\ f.inNeeded \in Nat /\ f.pushed \in Nat
         /\ f.left \in Nat /\ f.outCount \in Nat /\ f.outs \in Nat
BY SMTT(20) DEF Stage

LEMMA CalledInv ==
  ASSUME NEW m \in Nat, NEW f, StageInv(f, m), Resting(f), NEW n \in Nat, n <= m
  PROVE  StageInv(Called(f, n), m)
<1> DEFINE g == Called(f, n)
<1> USE DEF StageInv
<1>1. g \in Stage
  BY DEF Called, Stage
<1>5. /\ g.up = f.up /\ g.down = f.down /\ g.cap = f.cap
      /\ g.history = f.history /\ g.histWrite = f.histWrite
      /\ g.phase = f.phase /\ g.inNeeded = f.inNeeded /\ g.pushed = f.pushed
      /\ g.left = n /\ g.outCount = 0 /\ g.outs = f.outs
  BY DEF Called, Stage
<1> HIDE DEF g
<1>2. Window(g) /\ Twice(g) /\ OnTime(g)
  BY <1>5 DEF Window, Twice, OnTime
<1>3. Progress(g, m)
  <2>0. /\ f.inNeeded \in Nat /\ f.pushed \in Nat /\ f.up \in Nat
        /\ f.pushed <= f.inNeeded
    <3>1. f.inNeeded \in Nat /\ f.pushed \in Nat /\ f.up \in Nat
      BY StageFields
    <3> QED
      BY <3>1 DEF Resting, Starved
  <2>1. f.inNeeded - f.pushed + m - n \in Nat
    BY <2>0
  <2>2. (f.inNeeded - f.pushed + m - n) * f.up \in Nat
    BY <2>0, <2>1, ProductNat
  <2>3. f.down \in Nat /\ f.phase \in Nat
    BY StageFields
  <2>4. 0 * f.down <= (f.inNeeded - f.pushed + m - n) * f.up + f.phase
    BY <2>2, <2>3
  <2> QED
    BY <1>5, <2>3, <2>4 DEF Progress
<1>4. Yield(g, m)
  BY <1>5 DEF Yield
<1>6. g.phase < g.up /\ g.pushed <= g.inNeeded + 1 /\ g.left <= m
  BY <1>5
<1>7. g.cap = Cap(g.up, g.down, m)
  BY <1>5
<1> QED
  BY <1>1, <1>2, <1>3, <1>4, <1>6, <1>7 DEF g

LEMMA PushedInv ==
  ASSUME NEW m \in Nat, NEW f, StageInv(f, m), Starved(f), f.left > 0
  PROVE  StageInv(Pushed(f), m)
<1> DEFINE g == Pushed(f)
<1> USE DEF StageInv
<1>0. Newest(f) \in 0 .. Taps - 1
  <2>1. f.histWrite \in 0 .. Taps - 1
    BY StageFields
  <2> QED
    BY <2>1, TapsAssumption DEF Newest
<1>1. g \in Stage
  <2> DEFINE h == [i \in 0 .. 2 * Taps - 1 |->
                     IF i \in Mirrored(Newest(f)) THEN f.pushed
                                                  ELSE f.history[i]]
  <2>1. h \in [0 .. 2 * Taps - 1 -> Int]
    <3>1. f.pushed \in Int /\ f.history \in [0 .. 2 * Taps - 1 -> Int]
      BY StageFields
    <3> QED
      BY <3>1
  <2>2. f.left - 1 \in Nat /\ f.pushed + 1 \in Nat
    <3>1. f.left \in Nat /\ f.pushed \in Nat
      BY StageFields
    <3> QED
      BY <3>1
  <2>3. g = [f EXCEPT !.histWrite = Newest(f), !.history = h,
                      !.pushed = f.pushed + 1, !.left = f.left - 1]
    BY DEF Pushed
  <2> HIDE DEF h, g
  <2> QED
    BY <1>0, <2>1, <2>2, <2>3 DEF Stage
<1>2. \A i \in 0 .. 2 * Taps - 1 :
        g.history[i] = IF i = Newest(f) \/ i = Newest(f) + Taps THEN f.pushed
                                                               ELSE f.history[i]
  BY DEF Pushed, Stage, Mirrored
<1>3. g.histWrite = Newest(f) /\ g.pushed = f.pushed + 1
  BY DEF Pushed, Stage
<1>4. Twice(g)
  BY <1>0, <1>2, TapsAssumption DEF Twice
<1>5. ASSUME NEW k \in 0 .. Taps - 1
      PROVE  g.history[Newest(f) + k] = Sample(f.pushed - k)
  <2>1. CASE k = 0
    <3>1. g.history[Newest(f) + k] = f.pushed
      BY <2>1, <1>0, <1>2, TapsAssumption
    <3>2. f.pushed - k = f.pushed /\ f.pushed >= 0
      BY <2>1, StageFields
    <3> QED
      BY <3>1, <3>2 DEF Sample
  <2>2. CASE k > 0
    <3>1. f.history[f.histWrite + (k - 1)] = Sample(f.pushed - k)
      <4>1. k - 1 \in 0 .. Taps - 1 /\ f.pushed - 1 - (k - 1) = f.pushed - k
        <5>1. f.pushed \in Nat
          BY StageFields
        <5> QED
          BY <2>2, <5>1, TapsAssumption
      <4> QED
        BY <4>1 DEF Window
    <3>2. g.history[Newest(f) + k] = f.history[Newest(f) + k]
      BY <1>0, <1>2, <2>2, TapsAssumption
    <3>3. f.history[Newest(f) + k] = f.history[f.histWrite + (k - 1)]
      <4>1. CASE f.histWrite = 0
        <5>1. Newest(f) + k = (k - 1) + Taps /\ k - 1 \in 0 .. Taps - 1
          BY <4>1, <2>2, TapsAssumption DEF Newest
        <5>2. f.histWrite + (k - 1) = k - 1
          BY <4>1
        <5> QED
          BY <5>1, <5>2 DEF Twice
      <4>2. CASE f.histWrite # 0
        <5>1. Newest(f) + k = f.histWrite + (k - 1)
          <6>1. f.histWrite \in 0 .. Taps - 1
            BY StageFields
          <6> QED
            BY <4>2, <6>1 DEF Newest
        <5> QED
          BY <5>1
      <4> QED
        BY <4>1, <4>2
    <3> QED
      BY <3>1, <3>2, <3>3
  <2> QED
    BY <2>1, <2>2
<1>6. Window(g)
  <2>1. ASSUME NEW k \in 0 .. Taps - 1
        PROVE  g.history[g.histWrite + k] = Sample(g.pushed - 1 - k)
    <3>1. g.pushed - 1 - k = f.pushed - k
      <4>1. f.pushed \in Nat
        BY StageFields
      <4> QED
        BY <1>3, <4>1, TapsAssumption
    <3> QED
      BY <1>3, <1>5, <3>1
  <2> QED
    BY <2>1 DEF Window
<1>7. /\ g.up = f.up /\ g.down = f.down /\ g.cap = f.cap
      /\ g.phase = f.phase /\ g.inNeeded = f.inNeeded
      /\ g.left = f.left - 1 /\ g.outCount = f.outCount /\ g.outs = f.outs
  BY DEF Pushed, Stage
<1>8. OnTime(g) /\ Yield(g, m)
  BY <1>7 DEF OnTime, Yield
<1>9. Progress(g, m)
  <2>1. g.inNeeded - g.pushed + m - g.left = f.inNeeded - f.pushed + m - f.left
    <3>1. /\ g.inNeeded = f.inNeeded /\ g.pushed = f.pushed + 1
          /\ g.left = f.left - 1
      BY <1>3, <1>7
    <3>2. f.inNeeded \in Nat /\ f.pushed \in Nat /\ f.left \in Nat
      BY DEF Stage
    <3> HIDE DEF g
    <3> QED
      BY <3>1, <3>2
  <2> QED
    BY <2>1, <1>7 DEF Progress
<1>10. g.phase < g.up /\ g.pushed <= g.inNeeded + 1 /\ g.left <= m
  <2>1. /\ f.left \in Nat /\ f.pushed \in Nat /\ f.inNeeded \in Nat
        /\ f.pushed <= f.inNeeded
    <3>1. f.left \in Nat /\ f.pushed \in Nat /\ f.inNeeded \in Nat
      BY StageFields
    <3> QED
      BY <3>1 DEF Starved
  <2> HIDE DEF g
  <2> QED
    BY <1>3, <1>7, <2>1
<1> HIDE DEF g
<1>11. g.cap = Cap(g.up, g.down, m)
  BY <1>7
<1> QED
  BY <1>1, <1>4, <1>6, <1>8, <1>9, <1>10, <1>11 DEF g

LEMMA PulledInv ==
  ASSUME NEW m \in Nat, NEW f, StageInv(f, m), ~Starved(f)
  PROVE  StageInv(Pulled(f), m)
<1> DEFINE g == Pulled(f)
           s == f.phase + f.down
           q == s \div f.up
           r == s % f.up
<1> USE DEF StageInv
<1>1. /\ f.up \in Nat \ {0} /\ f.down \in Nat \ {0} /\ f.phase \in Nat
      /\ f.inNeeded \in Nat /\ f.pushed \in Nat /\ f.left \in Nat
      /\ f.outCount \in Nat /\ f.outs \in Nat
  BY DEF Stage
<1>2. s \in Nat /\ q \in Nat /\ r \in Nat /\ r < f.up /\ s = f.up * q + r
  <2>1. s \in Nat
    BY <1>1
  <2> HIDE DEF s
  <2> QED
    BY <1>1, <2>1, Division
<1> HIDE DEF q, r
<1>3. /\ g.up = f.up /\ g.down = f.down /\ g.cap = f.cap
      /\ g.history = f.history /\ g.histWrite = f.histWrite
      /\ g.pushed = f.pushed /\ g.left = f.left
      /\ g.inNeeded = f.inNeeded + q /\ g.phase = r
      /\ g.outCount = f.outCount + 1 /\ g.outs = f.outs + 1
  BY DEF Pulled, Stage, Phase, q, r
<1>4. g \in Stage
  <2>1. g = [f EXCEPT !.outCount = f.outCount + 1, !.outs = f.outs + 1,
                      !.inNeeded = f.inNeeded + q, !.phase = r]
    BY DEF Pulled, Phase, q, r
  <2> HIDE DEF g
  <2>2. /\ f.outCount + 1 \in Nat /\ f.outs + 1 \in Nat
        /\ f.inNeeded + q \in Nat
    BY <1>1, <1>2
  <2> QED
    BY <1>2, <2>1, <2>2 DEF Stage
<1> HIDE DEF g
<1>5. Window(g) /\ Twice(g)
  BY <1>3 DEF Window, Twice
<1>6. f.pushed = f.inNeeded + 1
  BY <1>1 DEF Starved
<1>7. (f.inNeeded + q) * f.up + r = f.inNeeded * f.up + s
  <2> HIDE DEF s
  <2> QED
    BY <1>1, <1>2, Advance
<1>8. OnTime(g)
  <2>1. (f.outs + 1) * f.down = f.outs * f.down + f.down
    BY <1>1
  <2> QED
    BY <2>1, <1>1, <1>3, <1>7 DEF OnTime
<1>9. Progress(g, m)
  <2> DEFINE x == f.inNeeded - f.pushed + m - f.left
  <2>1. x \in Int /\ f.inNeeded + q - f.pushed + m - f.left = x + q
    BY <1>1, <1>2
  <2> HIDE DEF x
  <2>2. f.outCount * f.down <= x * f.up + f.phase
    BY DEF Progress, x
  <2>3. (x + q) * f.up + r = x * f.up + s
    <3> HIDE DEF s
    <3> QED
      BY <1>1, <1>2, <2>1, Advance
  <2>4. (f.outCount + 1) * f.down = f.outCount * f.down + f.down
    BY <1>1
  <2>5. f.outCount * f.down \in Int /\ x * f.up \in Int
    BY <1>1, <2>1
  <2>6. (f.outCount + 1) * f.down <= (x + q) * f.up + r
    BY <1>1, <2>2, <2>3, <2>4, <2>5
  <2>7. g.inNeeded - g.pushed + m - g.left = x + q
    BY <1>1, <1>2, <1>3, <2>1
  <2> QED
    BY <2>6, <2>7, <1>3 DEF Progress
<1>10. Yield(g, m)
  <2> DEFINE y == m - 1 - f.left
  <2>1. y \in Int /\ y <= m - 1 /\ f.inNeeded - f.pushed + m - f.left = y
    BY <1>1, <1>6
  <2> HIDE DEF y
  <2>2. f.outCount * f.down <= y * f.up + f.phase
    BY <2>1 DEF Progress
  <2>3. y * f.up <= (m - 1) * f.up
    BY <1>1, <2>1, Monotone
  <2>4. (m - 1) * f.up = m * f.up - f.up
    BY <1>1
  <2>5. f.outCount * f.down < m * f.up
    <3>1. /\ f.outCount * f.down \in Int /\ y * f.up \in Int
          /\ m * f.up \in Int
      BY <1>1, <2>1
    <3> QED
      BY <1>1, <2>2, <2>3, <2>4, <3>1
  <2>6. g.outCount - 1 = f.outCount
    BY <1>1, <1>3
  <2> QED
    BY <1>3, <2>5, <2>6 DEF Yield
<1>11. g.phase < g.up /\ g.pushed <= g.inNeeded + 1 /\ g.left <= m
  BY <1>1, <1>2, <1>3, <1>6
<1>12. g.cap = Cap(g.up, g.down, m)
  BY <1>3
<1> QED
  BY <1>4, <1>5, <1>8, <1>9, <1>10, <1>11, <1>12 DEF g

LEMMA SteppedInv ==
  ASSUME NEW m \in Nat, NEW f, StageInv(f, m), ~Finished(f)
  PROVE  StageInv(Stepped(f), m)
<1>1. CASE Starved(f)
  <2>1. f.left > 0
    BY <1>1 DEF Finished, StageInv, Stage
  <2> QED
    BY <1>1, <2>1, PushedInv DEF Stepped
<1>2. CASE ~Starved(f)
  BY <1>2, PulledInv DEF Stepped
<1> QED
  BY <1>1, <1>2

-----------------------------------------------------------------------------
(* What the invariant of a stage is worth. *)

LEMMA InvAligned ==
  ASSUME NEW m \in Nat, NEW f, StageInv(f, m)
  PROVE  Aligned(f)
<1> SUFFICES ASSUME ~Starved(f)
             PROVE  /\ f.pushed = f.inNeeded + 1
                    /\ \A k \in 0 .. Taps - 1 :
                         f.history[f.histWrite + k] =
                           IF f.inNeeded >= k THEN f.inNeeded - k ELSE Silence
  BY DEF Aligned
<1>1. f.pushed = f.inNeeded + 1 /\ f.inNeeded \in Nat
  <2>1. f.pushed \in Nat /\ f.inNeeded \in Nat
    BY StageFields DEF StageInv
  <2> QED
    BY <2>1 DEF Starved, StageInv
<1>2. ASSUME NEW k \in 0 .. Taps - 1
      PROVE  f.history[f.histWrite + k] =
               IF f.inNeeded >= k THEN f.inNeeded - k ELSE Silence
  <2>1. f.history[f.histWrite + k] = Sample(f.pushed - 1 - k)
    BY DEF StageInv, Window
  <2> QED
    BY <1>1, <2>1 DEF Sample
<1> QED
  BY <1>1, <1>2

LEMMA InvNotFull ==
  ASSUME NEW m \in Nat, NEW f, StageInv(f, m)
  PROVE  ~Full(f) /\ f.outCount <= f.cap
<1> DEFINE q == (m * f.up) \div f.down
<1>1. /\ f.up \in Nat \ {0} /\ f.down \in Nat \ {0} /\ f.outCount \in Nat
      /\ f.cap = q + 2
  BY DEF StageInv, Stage, Cap
<1>2. m * f.up \in Nat
  BY <1>1, ProductNat
<1>3. q \in Nat /\ m * f.up < f.down * q + f.down
  <2> DEFINE a == m * f.up
  <2>1. a \in Nat
    BY <1>2
  <2> HIDE DEF a
  <2>2. /\ a \div f.down \in Nat
        /\ a = f.down * (a \div f.down) + (a % f.down) /\ a % f.down < f.down
        /\ a % f.down \in Nat
    BY <1>1, <2>1, Division
  <2>3. f.down * (a \div f.down) \in Nat
    BY <1>1, <2>2, ProductNat
  <2>4. a < f.down * (a \div f.down) + f.down
    BY <1>1, <2>1, <2>2, <2>3
  <2> QED
    BY <2>2, <2>4 DEF a
<1> HIDE DEF q
<1>4. CASE f.outCount = 0
  BY <1>1, <1>3, <1>4 DEF Full
<1>5. CASE f.outCount # 0
  <2>1. (f.outCount - 1) * f.down < m * f.up
    BY <1>5 DEF StageInv, Yield
  <2>2. (q + 1) * f.down = f.down * q + f.down
    <3>1. (q + 1) * f.down = q * f.down + f.down * 1
      BY <1>1, <1>3, Distribute
    <3>2. q * f.down = f.down * q /\ f.down * 1 = f.down
      BY <1>1, <1>3
    <3> QED
      BY <3>1, <3>2
  <2>3. (f.outCount - 1) * f.down < (q + 1) * f.down
    <3>1. (f.outCount - 1) * f.down \in Int /\ f.down * q \in Int
      BY <1>1, <1>3
    <3> QED
      BY <1>1, <1>2, <1>3, <2>1, <2>2, <3>1
  <2>4. f.outCount - 1 < q + 1
    BY <1>1, <1>3, <2>3, Cancel
  <2> QED
    BY <1>1, <1>3, <2>4 DEF Full
<1> QED
  BY <1>4, <1>5

(* All that the last stage gives fits finalOut, when the stage at most       *)
(* doubles a block of the host's or does not lengthen twice such a block.   *)
Fits(f, m) ==
  \/ f.up <= 2 * f.down /\ m = MaxInput
  \/ f.up <= f.down /\ m <= 2 * MaxInput

LEMMA InvRoom ==
  ASSUME NEW m \in Nat, NEW f, StageInv(f, m), Fits(f, m)
  PROVE  f.outCount <= Room
<1>1. /\ f.up \in Nat \ {0} /\ f.down \in Nat \ {0} /\ f.outCount \in Nat
      /\ MaxInput \in Nat
  BY ResamplerAssumption DEF StageInv, Stage
<1>2. CASE f.outCount = 0
  BY <1>1, <1>2 DEF Room
<1>3. CASE f.outCount # 0
  <2>1. (f.outCount - 1) * f.down < m * f.up
    BY <1>3 DEF StageInv, Yield
  <2>2. m * f.up <= Room * f.down
    <3>1. CASE f.up <= 2 * f.down /\ m = MaxInput
      <4>1. f.up * m <= (2 * f.down) * m
        BY <1>1, <3>1, Monotone
      <4>2. (2 * f.down) * m = Room * f.down
        BY <1>1, <3>1 DEF Room
      <4> QED
        BY <1>1, <4>1, <4>2
    <3>2. CASE f.up <= f.down /\ m <= 2 * MaxInput
      <4>1. f.up * m <= f.down * m
        BY <1>1, <3>2, Monotone
      <4>2. m * f.down <= Room * f.down
        BY <1>1, <3>2, Monotone DEF Room
      <4>3. f.up * m = m * f.up /\ f.down * m = m * f.down
        BY <1>1
      <4>4. m * f.up \in Int /\ m * f.down \in Int /\ Room * f.down \in Int
        BY <1>1 DEF Room
      <4> QED
        BY <4>1, <4>2, <4>3, <4>4
    <3> QED
      BY <3>1, <3>2 DEF Fits
  <2>3. (f.outCount - 1) * f.down < Room * f.down
    <3>1. /\ (f.outCount - 1) * f.down \in Int /\ m * f.up \in Int
          /\ Room * f.down \in Int
      BY <1>1 DEF Room
    <3> QED
      BY <2>1, <2>2, <3>1
  <2>4. f.outCount - 1 < Room
    BY <1>1, <2>3, Cancel DEF Room
  <2> QED
    BY <1>1, <2>4 DEF Room
<1> QED
  BY <1>2, <1>3

-----------------------------------------------------------------------------
(* The greatest common divisor that DesignLast divides by. *)

LEMMA LeastExists ==
  ASSUME NEW T \in SUBSET Nat, T # {}
  PROVE  \E y \in T : \A z \in T : y <= z
<1> DEFINE R == {ss \in Nat \X Nat : ss[1] < ss[2]}
<1>1. IsWellFoundedOn(R, Nat)
  BY NatLessThanWellFounded, Zenon DEF OpToRel
<1> HIDE DEF R
<1>2. PICK y \in T : \A z \in T : ~ (<<z, y>> \in R)
  BY <1>1, WFMin
<1>3. ASSUME NEW z \in T
      PROVE  y <= z
  <2>1. <<z, y>> \notin R /\ z \in Nat /\ y \in Nat
    BY <1>2
  <2> QED
    BY <2>1 DEF R
<1> QED
  BY <1>2, <1>3

LEMMA MaxInSet ==
  ASSUME NEW b \in Nat, NEW S \in SUBSET (0 .. b), S # {}
  PROVE  Max(S) \in S
<1> DEFINE T == {z \in Nat : b - z \in S}
<1>1. T \in SUBSET Nat
  OBVIOUS
<1>2. T # {}
  <2>1. PICK x \in S : TRUE
    OBVIOUS
  <2>2. b - x \in Nat /\ b - (b - x) = x
    OBVIOUS
  <2>3. b - x \in T
    BY <2>1, <2>2
  <2> QED
    BY <2>3
<1> HIDE DEF T
<1>3. PICK y \in T : \A z \in T : y <= z
  BY <1>1, <1>2, LeastExists
<1>4. b - y \in S /\ y \in Nat
  BY <1>3 DEF T
<1>5. ASSUME NEW x \in S
      PROVE  b - y >= x
  <2>1. x \in Nat /\ b - x \in Nat /\ b - (b - x) = x
    OBVIOUS
  <2>2. b - x \in T
    BY <2>1 DEF T
  <2> QED
    BY <1>3, <1>4, <2>1, <2>2
<1>6. \E x \in S : \A z \in S : x >= z
  BY <1>4, <1>5
<1> QED
  BY <1>6 DEF Max

(* The factors of the last stage keep the order of the two rates. *)
LEMMA Reduced ==
  ASSUME NEW a \in Nat \ {0}, NEW b \in Nat \ {0}
  PROVE  LET u == a \div Gcd(a, b)
             d == b \div Gcd(a, b)
         IN  /\ u \in Nat \ {0} /\ d \in Nat \ {0}
             /\ a <= b => u <= d
             /\ a <= 2 * b => u <= 2 * d
             /\ b * u = a * d
<1> DEFINE g == Gcd(a, b)
           u == a \div g
           d == b \div g
<1>1. g \in 1 .. b /\ a % g = 0 /\ b % g = 0
  <2>1. 1 \in Divisors(a, b)
    BY DEF Divisors
  <2>2. Divisors(a, b) \in SUBSET (0 .. b)
    BY DEF Divisors
  <2>3. g \in Divisors(a, b)
    BY <2>1, <2>2, MaxInSet DEF Gcd
  <2> QED
    BY <2>3 DEF Divisors
<1> HIDE DEF g
<1>2. u \in Nat /\ d \in Nat /\ a = g * u /\ b = g * d
  BY <1>1, Division
<1> HIDE DEF u, d
<1>3. u # 0 /\ d # 0
  BY <1>1, <1>2
<1>4. ASSUME a <= b, d < u
      PROVE  FALSE
  <2>1. d * g < u * g
    BY <1>1, <1>2, <1>4, StrictlyMonotone
  <2>2. d * g = g * d /\ u * g = g * u
    BY <1>1, <1>2
  <2> QED
    BY <1>2, <1>4, <2>1, <2>2
<1>5. ASSUME a <= 2 * b, 2 * d < u
      PROVE  FALSE
  <2>1. (2 * d) * g < u * g
    BY <1>1, <1>2, <1>5, StrictlyMonotone
  <2>2. (2 * d) * g = 2 * (g * d) /\ u * g = g * u
    BY <1>1, <1>2
  <2> QED
    BY <1>2, <1>5, <2>1, <2>2
<1>6. b * u = a * d
  <2>1. (g * d) * u = (g * u) * d
    BY <1>1, <1>2
  <2> QED
    BY <1>2, <2>1
<1> QED
  BY <1>2, <1>3, <1>4, <1>5, <1>6 DEF u, d, g

-----------------------------------------------------------------------------
(* The cascade s while its stage a runs: each stage gets what the stage      *)
(* before it can give.                                                      *)

Largest(s, i) == IF i = 1 THEN MaxInput ELSE s[i - 1].cap

CascadeInv(s, a) ==
  /\ s \in Seq(Stage)
  /\ a \in 0 .. Len(s)
  /\ \A i \in 1 .. Len(s) :
       /\ StageInv(s[i], Largest(s, i))
       /\ i # a => Resting(s[i])

LEMMA LargestNat ==
  ASSUME NEW s \in Seq(Stage), NEW i \in 1 .. Len(s) + 1
  PROVE  Largest(s, i) \in Nat
<1>1. CASE i = 1
  BY <1>1, ResamplerAssumption DEF Largest
<1>2. CASE i # 1
  <2>1. s[i - 1] \in Stage
    BY <1>2
  <2> QED
    BY <1>2, <2>1 DEF Largest, Stage
<1> QED
  BY <1>1, <1>2

LEMMA AppendInv ==
  ASSUME NEW s, CascadeInv(s, 0), NEW u \in Nat \ {0}, NEW d \in Nat \ {0}
  PROVE  CascadeInv(Append(s, Designed(u, d, Largest(s, Len(s) + 1))), 0)
<1> DEFINE m == Largest(s, Len(s) + 1)
           f == Designed(u, d, m)
           t == Append(s, f)
<1>1. s \in Seq(Stage) /\ Len(s) \in Nat
  BY DEF CascadeInv
<1>2. m \in Nat
  BY <1>1, LargestNat
<1> HIDE DEF m
<1>3. StageInv(f, m) /\ Resting(f)
  BY <1>2, DesignedInv
<1>4. f \in Stage
  BY <1>3 DEF StageInv
<1> HIDE DEF f
<1>5. t \in Seq(Stage) /\ Len(t) = Len(s) + 1
  BY <1>1, <1>4
<1>6. t[Len(s) + 1] = f /\ \A i \in 1 .. Len(s) : t[i] = s[i]
  BY <1>1, <1>4
<1> HIDE DEF t
<1>7. \A i \in 1 .. Len(s) + 1 : Largest(t, i) = Largest(s, i)
  BY <1>1, <1>6 DEF Largest
<1>8. ASSUME NEW i \in 1 .. Len(t)
      PROVE  StageInv(t[i], Largest(t, i)) /\ Resting(t[i])
  <2>1. CASE i = Len(s) + 1
    BY <2>1, <1>1, <1>3, <1>6, <1>7 DEF m
  <2>2. CASE i # Len(s) + 1
    <3>1. i \in 1 .. Len(s)
      BY <2>2, <1>1, <1>5
    <3> QED
      BY <3>1, <1>1, <1>6, <1>7 DEF CascadeInv
  <2> QED
    BY <2>1, <2>2
<1>9. CascadeInv(t, 0)
  BY <1>1, <1>5, <1>8 DEF CascadeInv
<1> QED
  BY <1>9 DEF t, f, m

LEMMA ReplaceInv ==
  ASSUME NEW s, NEW a, CascadeInv(s, a), NEW i \in 1 .. Len(s),
         a \in {0, i} \/ Resting(s[a]),
         NEW g, StageInv(g, Largest(s, i)), g.cap = s[i].cap
  PROVE  CascadeInv([s EXCEPT ![i] = g], i)
<1> DEFINE t == [s EXCEPT ![i] = g]
<1>1. s \in Seq(Stage) /\ Len(s) \in Nat
  BY DEF CascadeInv
<1>2. g \in Stage
  BY DEF StageInv
<1>3. t \in Seq(Stage) /\ Len(t) = Len(s)
  BY <1>1, <1>2
<1>4. t[i] = g /\ \A j \in 1 .. Len(s) : j # i => t[j] = s[j]
  BY <1>1
<1> HIDE DEF t
<1>5. \A j \in 1 .. Len(s) : t[j].cap = s[j].cap
  BY <1>4
<1>6. \A j \in 1 .. Len(s) : Largest(t, j) = Largest(s, j)
  BY <1>1, <1>5 DEF Largest
<1>7. ASSUME NEW j \in 1 .. Len(t)
      PROVE  StageInv(t[j], Largest(t, j)) /\ (j # i => Resting(t[j]))
  <2>1. CASE j = i
    BY <2>1, <1>4, <1>6
  <2>2. CASE j # i
    BY <2>2, <1>3, <1>4, <1>6 DEF CascadeInv
  <2> QED
    BY <2>1, <2>2
<1>8. CascadeInv(t, i)
  BY <1>3, <1>7 DEF CascadeInv
<1> QED
  BY <1>8 DEF t

-----------------------------------------------------------------------------
(* The resampler. *)

DesignInv ==
  inRate > 0 =>
    /\ at = 0
    /\ stageMax = Largest(stages, Len(stages) + 1)
    /\ \/ 2 * inRate >= Target /\ stageMax = MaxInput
       \/ inRate >= Target /\ stageMax <= 2 * MaxInput
    /\ \A i \in 1 .. Len(stages) : stages[i].outCount = 0

LastFits ==
  inRate = 0 /\ Len(stages) > 0 =>
    Fits(stages[Len(stages)], Largest(stages, Len(stages)))

IInv ==
  /\ inRate \in Nat
  /\ CascadeInv(stages, at)
  /\ DesignInv
  /\ LastFits

LEMMA NoStages == CascadeInv(<< >>, 0)
  BY DEF CascadeInv

LEMMA InitInv == ResamplerInit => IInv
<1> SUFFICES ASSUME ResamplerInit PROVE IInv
  OBVIOUS
<1>1. inRate = 0 /\ at = 0 /\ stages = << >> /\ Len(stages) = 0
  BY DEF ResamplerInit
<1>2. CascadeInv(stages, at)
  BY <1>1, NoStages
<1> QED
  BY <1>1, <1>2 DEF IInv, DesignInv, LastFits

LEMMA PrepareInv ==
  ASSUME IInv, NEW rate \in HostRates, Prepare(rate)
  PROVE  IInv'
<1>1. /\ rate \in Nat /\ 2 * rate >= Target /\ MaxInput \in Nat
      /\ stages' = << >> /\ at' = 0 /\ stageMax' = MaxInput
      /\ inRate' = IF rate = Target THEN 0 ELSE rate
  BY ResamplerAssumption DEF Prepare, Idle
<1>2. Len(stages') = 0 /\ CascadeInv(stages', at')
  BY <1>1, NoStages
<1>3. DesignInv'
  BY <1>1, <1>2 DEF DesignInv, Largest
<1>4. LastFits'
  BY <1>2 DEF LastFits
<1> QED
  BY <1>1, <1>2, <1>3, <1>4 DEF IInv

LEMMA DesignHalvingInv ==
  ASSUME IInv, DesignHalving
  PROVE  IInv'
<1> DEFINE f == Designed(1, 2, stageMax)
<1>1. /\ inRate \in Nat /\ Target \in Nat \ {0} /\ inRate > 2 * Target
      /\ MaxInput \in Nat /\ MaxInput >= 2
      /\ CascadeInv(stages, at) /\ DesignInv
      /\ stages \in Seq(Stage) /\ Len(stages) \in Nat
  BY ResamplerAssumption DEF DesignHalving, Halves, IInv, CascadeInv
<1>2. /\ inRate > 0 /\ at = 0
      /\ stageMax = Largest(stages, Len(stages) + 1)
      /\ stageMax = MaxInput \/ stageMax <= 2 * MaxInput
      /\ \A i \in 1 .. Len(stages) : stages[i].outCount = 0
  BY <1>1 DEF DesignInv
<1>3. /\ stages' = Append(stages, f) /\ inRate' = inRate \div 2
      /\ stageMax' = stageMax \div 2 + 2 /\ at' = 0
  BY <1>2 DEF DesignHalving
<1>4. stageMax \in Nat
  BY <1>1, <1>2, LargestNat
<1>5. CascadeInv(stages', at')
  BY <1>1, <1>2, <1>3, AppendInv
<1>6. f.cap = stageMax \div 2 + 2 /\ f.outCount = 0
  BY <1>4 DEF Designed, Cap
<1>7. f \in Stage
  BY <1>4, DesignedInv DEF StageInv
<1> HIDE DEF f
<1>8. /\ Len(stages') = Len(stages) + 1 /\ stages'[Len(stages) + 1] = f
      /\ \A i \in 1 .. Len(stages) : stages'[i] = stages[i]
  BY <1>1, <1>3, <1>7
<1>9. stageMax' = Largest(stages', Len(stages') + 1)
  BY <1>1, <1>3, <1>6, <1>8 DEF Largest
<1>10. inRate' >= Target /\ stageMax' <= 2 * MaxInput /\ inRate' \in Nat
  BY <1>1, <1>2, <1>3, <1>4
<1>11. \A i \in 1 .. Len(stages') : stages'[i].outCount = 0
  BY <1>1, <1>2, <1>6, <1>8
<1>12. DesignInv'
  BY <1>3, <1>9, <1>10, <1>11 DEF DesignInv
<1>13. LastFits'
  BY <1>1, <1>10 DEF LastFits
<1> QED
  BY <1>5, <1>10, <1>12, <1>13 DEF IInv

LEMMA DesignLastInv ==
  ASSUME IInv, DesignLast
  PROVE  IInv'
<1> DEFINE u == Target \div Gcd(Target, inRate)
           d == inRate \div Gcd(Target, inRate)
           f == Designed(u, d, stageMax)
<1>1. /\ inRate \in Nat \ {0} /\ Target \in Nat \ {0} /\ MaxInput \in Nat
      /\ CascadeInv(stages, at) /\ DesignInv
      /\ stages \in Seq(Stage) /\ Len(stages) \in Nat
  BY ResamplerAssumption DEF DesignLast, IInv, CascadeInv
<1>2. /\ at = 0
      /\ stageMax = Largest(stages, Len(stages) + 1)
      /\ \/ 2 * inRate >= Target /\ stageMax = MaxInput
         \/ inRate >= Target /\ stageMax <= 2 * MaxInput
  BY <1>1 DEF DesignInv
<1>3. stages' = Append(stages, f) /\ inRate' = 0 /\ at' = 0
  BY <1>2 DEF DesignLast
<1>4. stageMax \in Nat
  BY <1>1, <1>2, LargestNat
<1>5. /\ u \in Nat \ {0} /\ d \in Nat \ {0}
      /\ Target <= inRate => u <= d
      /\ Target <= 2 * inRate => u <= 2 * d
  BY <1>1, Reduced
<1> HIDE DEF u, d
<1>6. CascadeInv(stages', at')
  BY <1>1, <1>2, <1>3, <1>5, AppendInv
<1>7. f \in Stage
  BY <1>4, <1>5, DesignedInv DEF StageInv
<1>8. f.up = u /\ f.down = d
  BY DEF Designed
<1> HIDE DEF f
<1>9. /\ Len(stages') = Len(stages) + 1 /\ stages'[Len(stages) + 1] = f
      /\ \A i \in 1 .. Len(stages) : stages'[i] = stages[i]
  BY <1>1, <1>3, <1>7
<1>10. Largest(stages', Len(stages')) = stageMax
  BY <1>1, <1>2, <1>9 DEF Largest
<1>11. Fits(f, stageMax)
  BY <1>1, <1>2, <1>5, <1>8 DEF Fits
<1>12. LastFits'
  BY <1>9, <1>10, <1>11 DEF LastFits
<1>13. DesignInv'
  BY <1>3 DEF DesignInv
<1> QED
  BY <1>3, <1>6, <1>12, <1>13 DEF IInv

(* A step of process() on the cascade: stage i becomes g. *)
LEMMA WorkInv ==
  ASSUME IInv, inRate = 0, NEW i \in 1 .. Len(stages), NEW g,
         StageInv(g, Largest(stages, i)),
         g.cap = stages[i].cap, g.up = stages[i].up, g.down = stages[i].down,
         at \in {0, i} \/ Resting(stages[at]),
         stages' = [stages EXCEPT ![i] = g], at' = i, inRate' = inRate
  PROVE  IInv'
<1>1. CascadeInv(stages', at')
  BY ReplaceInv DEF IInv
<1>2. stages \in Seq(Stage) /\ Len(stages) \in Nat /\ g \in Stage
  BY DEF IInv, CascadeInv, StageInv
<1>3. /\ Len(stages') = Len(stages)
      /\ \A j \in 1 .. Len(stages) :
           /\ stages'[j].cap = stages[j].cap
           /\ stages'[j].up = stages[j].up /\ stages'[j].down = stages[j].down
  BY <1>2
<1> DEFINE n == Len(stages)
<1>4. n \in Nat /\ n >= 1 /\ n \in 1 .. n /\ Len(stages') = n
  BY <1>2, <1>3
<1>5. Fits(stages[n], Largest(stages, n))
  BY <1>4 DEF IInv, LastFits
<1>8. Largest(stages', n) = Largest(stages, n)
  <2> HIDE DEF n
  <2>1. CASE n = 1
    BY <2>1 DEF Largest
  <2>2. CASE n # 1
    <3>1. n - 1 \in 1 .. n
      BY <2>2, <1>4
    <3>2. stages'[n - 1].cap = stages[n - 1].cap
      BY <3>1, <1>3 DEF n
    <3> QED
      BY <2>2, <3>2 DEF Largest
  <2> QED
    BY <2>1, <2>2
<1>9. stages'[n].up = stages[n].up /\ stages'[n].down = stages[n].down
  BY <1>3, <1>4
<1>6. LastFits'
  <2>1. Fits(stages'[n], Largest(stages', n))
    <3> HIDE DEF n
    <3> QED
      BY <1>5, <1>8, <1>9 DEF Fits
  <2> QED
    BY <1>4, <2>1 DEF LastFits
<1>7. DesignInv'
  BY DEF DesignInv
<1> QED
  BY <1>1, <1>6, <1>7 DEF IInv

LEMMA IdleSteps ==
  ASSUME IInv,
         \/ \E n \in 0 .. MaxInput : Bypass(n)
         \/ UNCHANGED resamplerVars
  PROVE  IInv'
<1>1. UNCHANGED <<stages, inRate, stageMax, at>>
  BY DEF Bypass, resamplerVars, design
<1> QED
  BY <1>1 DEF IInv, DesignInv, LastFits

LEMMA ProcessInv ==
  ASSUME IInv, NEW n \in 0 .. MaxInput, Process(n)
  PROVE  IInv'
<1>1. /\ at = 0 /\ inRate = 0 /\ stages # << >> /\ MaxInput \in Nat
      /\ stages' = [stages EXCEPT ![1] = Called(stages[1], n)]
      /\ at' = 1 /\ inRate' = inRate
  BY ResamplerAssumption DEF Process, Idle, design
<1>2. stages \in Seq(Stage) /\ 1 \in 1 .. Len(stages)
  BY <1>1 DEF IInv, CascadeInv
<1>3. StageInv(stages[1], MaxInput) /\ Resting(stages[1])
  BY <1>1, <1>2 DEF IInv, CascadeInv, Largest
<1>4. StageInv(Called(stages[1], n), Largest(stages, 1))
  BY <1>1, <1>3, CalledInv DEF Largest
<1>5. LET g == Called(stages[1], n)
      IN  g.cap = stages[1].cap /\ g.up = stages[1].up /\ g.down = stages[1].down
  BY <1>2 DEF Called, Stage
<1> QED
  BY <1>1, <1>2, <1>4, <1>5, WorkInv

LEMMA StageStepInv ==
  ASSUME IInv, StageStep
  PROVE  IInv'
<1>1. /\ at > 0 /\ ~Finished(stages[at])
      /\ stages' = [stages EXCEPT ![at] = Stepped(stages[at])]
      /\ at' = at /\ inRate' = inRate
  BY DEF StageStep, design
<1>2. stages \in Seq(Stage) /\ at \in 1 .. Len(stages) /\ inRate = 0
  BY <1>1 DEF IInv, CascadeInv, DesignInv
<1>3. StageInv(stages[at], Largest(stages, at)) /\ Largest(stages, at) \in Nat
  BY <1>2, LargestNat DEF IInv, CascadeInv
<1>4. StageInv(Stepped(stages[at]), Largest(stages, at))
  BY <1>1, <1>3, SteppedInv
<1>5. LET g == Stepped(stages[at])
      IN  g.cap = stages[at].cap /\ g.up = stages[at].up /\ g.down = stages[at].down
  <2>1. stages[at] \in Stage
    BY <1>2
  <2>2. LET g == Pushed(stages[at])
        IN  g.cap = stages[at].cap /\ g.up = stages[at].up /\ g.down = stages[at].down
    BY <2>1 DEF Pushed, Stage
  <2>3. LET g == Pulled(stages[at])
        IN  g.cap = stages[at].cap /\ g.up = stages[at].up /\ g.down = stages[at].down
    BY <2>1 DEF Pulled, Stage
  <2> QED
    BY <2>2, <2>3 DEF Stepped
<1> QED
  BY <1>1, <1>2, <1>4, <1>5, WorkInv

(* A stage that ends a block was not stopped for want of room. *)
LEMMA FinishedRests ==
  ASSUME IInv, at \in 1 .. Len(stages), Finished(stages[at])
  PROVE  Resting(stages[at]) /\ stages[at].outCount <= stages[at].cap
<1>1. StageInv(stages[at], Largest(stages, at)) /\ Largest(stages, at) \in Nat
  BY LargestNat DEF IInv, CascadeInv
<1> QED
  BY <1>1, InvNotFull DEF Finished, Resting

LEMMA NextStageInv ==
  ASSUME IInv, NextStage
  PROVE  IInv'
<1> DEFINE i == at + 1
           n == stages[at].outCount
<1>1. /\ at > 0 /\ Finished(stages[at]) /\ at < Len(stages)
      /\ stages' = [stages EXCEPT ![i] = Called(stages[i], n)]
      /\ at' = i /\ inRate' = inRate
  BY DEF NextStage, design
<1>2. /\ stages \in Seq(Stage) /\ at \in 1 .. Len(stages) /\ inRate = 0
      /\ i \in 1 .. Len(stages) /\ at # i /\ i - 1 = at /\ i # 1
  BY <1>1 DEF IInv, CascadeInv, DesignInv
<1>3. Resting(stages[at]) /\ n <= stages[at].cap
  BY <1>1, <1>2, FinishedRests
<1>4. Largest(stages, i) = stages[at].cap
  BY <1>2 DEF Largest
<1>5. n \in Nat /\ stages[at].cap \in Nat
  <2>1. stages[at] \in Stage
    BY <1>2
  <2> QED
    BY <2>1 DEF Stage
<1> HIDE DEF i, n
<1>6. StageInv(stages[i], Largest(stages, i)) /\ Resting(stages[i])
  BY <1>2 DEF IInv, CascadeInv
<1>7. StageInv(Called(stages[i], n), Largest(stages, i))
  BY <1>3, <1>4, <1>5, <1>6, CalledInv
<1>8. LET g == Called(stages[i], n)
      IN  g.cap = stages[i].cap /\ g.up = stages[i].up /\ g.down = stages[i].down
  <2>1. stages[i] \in Stage
    BY <1>2
  <2> QED
    BY <2>1 DEF Called, Stage
<1> QED
  BY <1>1, <1>2, <1>3, <1>7, <1>8, WorkInv

LEMMA DeliverInv ==
  ASSUME IInv, Deliver
  PROVE  IInv'
<1>1. /\ at > 0 /\ Finished(stages[at]) /\ at = Len(stages)
      /\ stages' = stages /\ at' = 0 /\ inRate' = inRate
  BY DEF Deliver, design
<1>2. at \in 1 .. Len(stages) /\ inRate = 0
  BY <1>1 DEF IInv, CascadeInv, DesignInv
<1>3. Resting(stages[at])
  BY <1>1, <1>2, FinishedRests
<1>4. CascadeInv(stages', at')
  BY <1>1, <1>2, <1>3 DEF IInv, CascadeInv
<1>5. LastFits' /\ DesignInv'
  BY <1>1, <1>2 DEF IInv, LastFits, DesignInv
<1> QED
  BY <1>1, <1>4, <1>5 DEF IInv

(* Over any number of prepare() and blocks, for any rates. *)
THEOREM InductiveInvariant == ResamplerSpec => []IInv
<1>1. IInv /\ [ResamplerNext]_resamplerVars => IInv'
  <2> SUFFICES ASSUME IInv, [ResamplerNext]_resamplerVars
               PROVE  IInv'
    OBVIOUS
  <2>1. ASSUME NEW rate \in HostRates, Prepare(rate) PROVE IInv'
    BY <2>1, PrepareInv
  <2>2. CASE DesignHalving
    BY <2>2, DesignHalvingInv
  <2>3. CASE DesignLast
    BY <2>3, DesignLastInv
  <2>4. ASSUME NEW n \in 0 .. MaxInput, Process(n) PROVE IInv'
    BY <2>4, ProcessInv
  <2>5. CASE StageStep
    BY <2>5, StageStepInv
  <2>6. CASE NextStage
    BY <2>6, NextStageInv
  <2>7. CASE Deliver
    BY <2>7, DeliverInv
  <2>8. CASE \/ \E n \in 0 .. MaxInput : Bypass(n)
             \/ UNCHANGED resamplerVars
    BY <2>8, IdleSteps
  <2> QED
    BY <2>1, <2>2, <2>3, <2>4, <2>5, <2>6, <2>7, <2>8 DEF ResamplerNext
<1> QED
  BY InitInv, <1>1, PTL DEF ResamplerSpec

(* However the stream is cut into blocks, an output multiplies the newest    *)
(* samples in order (PolyphaseFir.hpp:22-25).                               *)
THEOREM Seamless == ResamplerSpec => []TapsAligned
<1>1. IInv => TapsAligned
  <2> SUFFICES ASSUME IInv, NEW i \in DOMAIN stages
               PROVE  Aligned(stages[i])
    BY DEF TapsAligned
  <2>1. stages \in Seq(Stage) /\ i \in 1 .. Len(stages)
    BY DEF IInv, CascadeInv
  <2>2. StageInv(stages[i], Largest(stages, i)) /\ Largest(stages, i) \in Nat
    BY <2>1, LargestNat DEF IInv, CascadeInv
  <2> QED
    BY <2>2, InvAligned
<1> QED
  BY <1>1, InductiveInvariant, PTL

(* The positions of the outputs are exact however long the stream            *)
(* (PolyphaseFir.hpp:90-92).                                                *)
THEOREM PositionsExact == ResamplerSpec => []NoDrift
<1>1. IInv => NoDrift
  BY DEF IInv, CascadeInv, StageInv, NoDrift
<1> QED
  BY <1>1, InductiveInvariant, PTL

LEMMA InvNothingDropped == IInv => NothingDropped
<1> SUFFICES ASSUME IInv, NEW i \in DOMAIN stages
             PROVE  /\ ~Full(stages[i])
                    /\ i # at => stages[i].left = 0 /\ Starved(stages[i])
                    /\ i = Len(stages) => stages[i].outCount <= Room
  BY DEF NothingDropped
<1>1. stages \in Seq(Stage) /\ i \in 1 .. Len(stages) /\ Len(stages) \in Nat
  BY DEF IInv, CascadeInv
<1>2. StageInv(stages[i], Largest(stages, i)) /\ Largest(stages, i) \in Nat
  BY <1>1, LargestNat DEF IInv, CascadeInv
<1>3. i # at => stages[i].left = 0 /\ Starved(stages[i])
  BY <1>1 DEF IInv, CascadeInv, Resting
<1>4. ASSUME i = Len(stages)
      PROVE  stages[i].outCount <= Room
  <2>1. CASE inRate = 0
    <3>1. Fits(stages[i], Largest(stages, i))
      BY <1>1, <1>4, <2>1 DEF IInv, LastFits
    <3> QED
      BY <1>2, <3>1, InvRoom
  <2>2. CASE inRate # 0
    <3>1. stages[i].outCount = 0
      BY <1>1, <2>2 DEF IInv, DesignInv
    <3> QED
      BY <3>1, ResamplerAssumption DEF Room
  <2> QED
    BY <2>1, <2>2
<1> QED
  BY <1>2, <1>3, <1>4, InvNotFull

(* The buffers, sized once from the largest block, suffice for every stream  *)
(* (PolyphaseFir.hpp:49-50, Resampler.hpp:32-34, 61).                       *)
THEOREM BuffersSuffice == ResamplerSpec => []NothingDropped
BY InvNothingDropped, InductiveInvariant, PTL

-----------------------------------------------------------------------------
(* The rate. *)

LEMMA CancelLeq ==
  ASSUME NEW a \in Int, NEW b \in Int, NEW c \in Nat \ {0}, a * c <= b * c
  PROVE  a <= b
  OBVIOUS

LEMMA ProductInt ==
  ASSUME NEW a \in Int, NEW b \in Int
  PROVE  a * b \in Int
  OBVIOUS

LEMMA Regroup ==
  ASSUME NEW a \in Int, NEW b \in Int, NEW c \in Int
  PROVE  (a * b) * c = a * (b * c) /\ (a * b) * c = (a * c) * b
  OBVIOUS

(* A stage that took x and gave y samples, behind k others. *)
LEMMA Telescope ==
  ASSUME NEW taken \in Nat, NEW rate \in Nat, NEW next \in Nat,
         NEW host \in Nat \ {0}, NEW x \in Nat, NEW y \in Nat, NEW k \in Nat,
         NEW u \in Nat \ {0}, NEW d \in Nat \ {0},
         rate * u = next * d, k > 0 => u <= d,
         x * u <= y * d, (y - 1) * d < x * u,
         taken * rate <= x * host, (x - k) * host <= taken * rate
  PROVE  taken * next <= y * host /\ (y - (k + 1)) * host < taken * next
<1> DEFINE tn == taken * next
           tr == taken * rate
<1>0. tn \in Nat /\ tr \in Nat
  BY ProductNat
<1>1. tr * u = tn * d
  <2>1. tr * u = taken * (rate * u) /\ tn * d = taken * (next * d)
    BY Regroup
  <2> QED
    BY <2>1
<1> HIDE DEF tn, tr
<1>2. tr <= x * host /\ (x - k) * host <= tr
  BY DEF tr
<1>3. (x * host) * u = (x * u) * host /\ (y * host) * d = (y * d) * host
  BY Regroup
<1>4. tn <= y * host
  <2>1. tr * u <= (x * host) * u
    BY <1>0, <1>2, ProductInt, Monotone
  <2>2. (x * u) * host <= (y * d) * host
    BY ProductInt, Monotone
  <2>3. /\ tr * u \in Int /\ (x * host) * u \in Int /\ (y * host) * d \in Int
        /\ tn * d \in Int /\ y * host \in Int
    BY <1>0, ProductInt
  <2>4. tn * d <= (y * host) * d
    BY <1>1, <1>3, <2>1, <2>2, <2>3
  <2> QED
    BY <1>0, <2>3, <2>4, CancelLeq
<1>5. (y - (k + 1)) * host < tn
  <2> DEFINE y1 == (y - 1) * host
             kh == k * host
  <2>1. kh \in Nat /\ y1 \in Int /\ y - 1 \in Int /\ x - k \in Int
    BY ProductNat, ProductInt
  <2>2. y1 * d < (x * host) * u
    <3>1. y1 * d = ((y - 1) * d) * host
      BY <2>1, Regroup
    <3>2. ((y - 1) * d) * host < (x * u) * host
      BY <2>1, ProductInt, StrictlyMonotone
    <3> QED
      BY <1>3, <3>1, <3>2
  <2>3. x * host <= tr + kh
    <3>1. (x - k) * host = x * host - kh
      OBVIOUS
    <3> QED
      BY <1>0, <1>2, <2>1, <3>1, ProductInt
  <2>4. kh * u <= kh * d
    <3>1. CASE k = 0
      BY <3>1
    <3>2. CASE k > 0
      <4>1. u * kh <= d * kh
        BY <3>2, <2>1, Monotone
      <4>2. u * kh = kh * u /\ d * kh = kh * d
        BY <2>1
      <4> QED
        BY <4>1, <4>2
    <3> QED
      BY <3>1, <3>2
  <2> HIDE DEF y1, kh
  <2>5. (x * host) * u <= (tr + kh) * u
    BY <1>0, <2>1, <2>3, ProductInt, Monotone
  <2>6. (tr + kh) * u = tr * u + kh * u /\ (tn + kh) * d = tn * d + kh * d
    <3>1. (tr + kh) * u = tr * u + u * kh /\ (tn + kh) * d = tn * d + d * kh
      BY <1>0, <2>1, Distribute
    <3>2. u * kh = kh * u /\ d * kh = kh * d
      BY <2>1
    <3> QED
      BY <3>1, <3>2
  <2>7. y1 * d < (tn + kh) * d
    <3>1. /\ y1 * d \in Int /\ (x * host) * u \in Int /\ tr * u \in Int
          /\ kh * u \in Int /\ kh * d \in Int /\ tn * d \in Int
      BY <1>0, <2>1, ProductInt
    <3> QED
      BY <1>1, <2>2, <2>4, <2>5, <2>6, <3>1
  <2>8. y1 < tn + kh
    BY <1>0, <2>1, <2>7, Cancel
  <2>9. (y - (k + 1)) * host = y1 - kh
    BY DEF y1, kh
  <2> QED
    BY <1>0, <2>1, <2>8, <2>9
<1> QED
  BY <1>4, <1>5 DEF tn

(* An output is pulled only when the sample it needs is there. *)
Ahead(f) == (f.outs - 1) * f.down < f.pushed * f.up

LEMMA AheadDesigned ==
  ASSUME NEW u \in Nat \ {0}, NEW d \in Nat \ {0}, NEW m \in Nat
  PROVE  Ahead(Designed(u, d, m))
  BY DEF Ahead, Designed

LEMMA AheadPushed ==
  ASSUME NEW f \in Stage, Ahead(f)
  PROVE  Ahead(Pushed(f))
<1>1. /\ Pushed(f).outs = f.outs /\ Pushed(f).down = f.down
      /\ Pushed(f).up = f.up /\ Pushed(f).pushed = f.pushed + 1
  BY DEF Pushed, Stage
<1>2. /\ f.outs \in Nat /\ f.pushed \in Nat /\ f.up \in Nat /\ f.down \in Nat
  BY DEF Stage
<1>3. f.pushed * f.up <= (f.pushed + 1) * f.up
  BY <1>2, Monotone
<1>4. /\ (f.outs - 1) * f.down \in Int /\ f.pushed * f.up \in Int
      /\ (f.pushed + 1) * f.up \in Int
  BY <1>2, ProductInt
<1> QED
  BY <1>1, <1>3, <1>4 DEF Ahead

LEMMA AheadPulled ==
  ASSUME NEW m, NEW f, StageInv(f, m), ~Starved(f)
  PROVE  Ahead(Pulled(f))
<1>1. /\ Pulled(f).outs = f.outs + 1 /\ Pulled(f).down = f.down
      /\ Pulled(f).up = f.up /\ Pulled(f).pushed = f.pushed
  BY DEF Pulled, Stage, StageInv
<1>2. /\ f.outs \in Nat /\ f.pushed \in Nat /\ f.up \in Nat /\ f.down \in Nat
      /\ f.inNeeded \in Nat /\ f.phase \in Nat /\ f.phase < f.up
      /\ f.inNeeded * f.up + f.phase = f.outs * f.down
      /\ f.inNeeded + 1 <= f.pushed
  <2>1. f \in Stage /\ f.phase < f.up /\ OnTime(f)
    BY DEF StageInv
  <2>2. /\ f.outs \in Nat /\ f.pushed \in Nat /\ f.up \in Nat /\ f.down \in Nat
        /\ f.inNeeded \in Nat /\ f.phase \in Nat
    BY <2>1, StageFields
  <2> QED
    BY <2>1, <2>2 DEF OnTime, Starved
<1>3. (f.inNeeded + 1) * f.up <= f.pushed * f.up
  BY <1>2, Monotone
<1>4. (f.inNeeded + 1) * f.up = f.inNeeded * f.up + f.up
  <2>1. (f.inNeeded + 1) * f.up = f.inNeeded * f.up + f.up * 1
    BY <1>2, Distribute
  <2>2. f.up * 1 = f.up
    BY <1>2
  <2> QED
    BY <2>1, <2>2
<1>5. f.inNeeded * f.up \in Int /\ f.outs * f.down \in Int /\ f.pushed * f.up \in Int
  BY <1>2, ProductInt
<1>6. f.outs * f.down < f.pushed * f.up
  BY <1>2, <1>3, <1>4, <1>5
<1>7. (f.outs + 1) - 1 = f.outs
  BY <1>2
<1> QED
  BY <1>1, <1>6, <1>7 DEF Ahead

(* A stage at rest has given an output for every sample it needed.          *)
LEMMA RestingBehind ==
  ASSUME NEW m, NEW f, StageInv(f, m), Starved(f)
  PROVE  f.pushed * f.up <= f.outs * f.down
<1>1. /\ f.outs \in Nat /\ f.pushed \in Nat /\ f.up \in Nat /\ f.down \in Nat
      /\ f.inNeeded \in Nat /\ f.phase \in Nat
      /\ f.inNeeded * f.up + f.phase = f.outs * f.down
      /\ f.pushed <= f.inNeeded
  <2>1. f \in Stage /\ OnTime(f)
    BY DEF StageInv
  <2>2. /\ f.outs \in Nat /\ f.pushed \in Nat /\ f.up \in Nat /\ f.down \in Nat
        /\ f.inNeeded \in Nat /\ f.phase \in Nat
    BY <2>1, StageFields
  <2> QED
    BY <2>1, <2>2 DEF OnTime, Starved
<1>2. f.pushed * f.up <= f.inNeeded * f.up
  BY <1>1, Monotone
<1>3. f.pushed * f.up \in Int /\ f.inNeeded * f.up \in Int /\ f.outs * f.down \in Int
  BY <1>1, ProductInt
<1> QED
  BY <1>1, <1>2, <1>3

(* Of the cascade s, its stage a running, n samples taken and g returned: a *)
(* stage has taken what the one before it gave.                             *)
Feed(s, n, i) == IF i = 1 THEN n ELSE s[i - 1].outs

Flow(s, a, n, g) ==
  \A i \in 1 .. Len(s) + 1 :
    Feed(s, n, i) = (IF i = Len(s) + 1 THEN g ELSE s[i].pushed + s[i].left)
                      + (IF a > 0 /\ i = a + 1 THEN s[a].outCount ELSE 0)

(* Between a host rate and the rate that is left there is one before each   *)
(* stage.                                                                   *)
Chain(s, host, last, r) ==
  /\ r \in [1 .. Len(s) + 1 -> Nat]
  /\ r[1] = host /\ r[Len(s) + 1] = last
  /\ \A i \in 1 .. Len(s) :
       r[i] * s[i].up = r[i + 1] * s[i].down /\ (i > 1 => s[i].up <= s[i].down)

Keeps(s, n, host, r, i) ==
  /\ n * r[i] <= Feed(s, n, i) * host
  /\ (Feed(s, n, i) - (i - 1)) * host <= n * r[i]
  /\ i > 1 => (Feed(s, n, i) - (i - 1)) * host < n * r[i]

Kept(s, a, n, host, r) ==
  \A i \in 1 .. Len(s) + 1 : a = 0 \/ i <= a => Keeps(s, n, host, r, i)

RateLeft == IF inRate > 0 THEN inRate ELSE Target

(* E has the rates that the halvings divide. *)
HalvingsDivide(E) ==
  /\ HostRates \subseteq E /\ E \subseteq Nat
  /\ \A rate \in E : Halves(rate) => rate % 2 = 0 /\ rate \div 2 \in E

DesignRate(E) ==
  inRate > 0 =>
    /\ inRate \in E /\ (Len(stages) > 0 => inRate >= Target)
    /\ fed = 0 /\ given = 0
    /\ \A i \in 1 .. Len(stages) : stages[i].outs = 0

RateInv(E) ==
  /\ hostRate \in Nat \ {0} /\ fed \in Nat /\ given \in Nat
  /\ DesignRate(E)
  /\ \A i \in 1 .. Len(stages) : Ahead(stages[i])
  /\ Flow(stages, at, fed, given)
  /\ \E r : /\ Chain(stages, hostRate, RateLeft, r)
            /\ Kept(stages, at, fed, hostRate, r)

LEMMA FeedNat ==
  ASSUME NEW s \in Seq(Stage), NEW n \in Nat, NEW i \in 1 .. Len(s) + 1
  PROVE  Feed(s, n, i) \in Nat
<1>1. CASE i = 1
  BY <1>1 DEF Feed
<1>2. CASE i # 1
  <2>1. s[i - 1] \in Stage
    BY <1>2
  <2> QED
    BY <1>2, <2>1 DEF Feed, Stage
<1> QED
  BY <1>1, <1>2

(* No stages, or no samples yet. *)
LEMMA NoStagesRate ==
  ASSUME NEW host \in Nat, NEW n \in Nat
  PROVE  /\ Flow(<< >>, 0, n, n)
         /\ \E r : Chain(<< >>, host, host, r) /\ Kept(<< >>, 0, n, host, r)
<1> DEFINE r == [i \in 1 .. 1 |-> host]
<1>1. Flow(<< >>, 0, n, n)
  BY DEF Flow, Feed
<1>2. Chain(<< >>, host, host, r)
  BY DEF Chain
<1>3. Kept(<< >>, 0, n, host, r)
  <2>1. SUFFICES ASSUME NEW i \in 1 .. 1 PROVE Keeps(<< >>, n, host, r, i)
    BY DEF Kept
  <2>2. i = 1 /\ r[i] = host /\ Feed(<< >>, n, i) = n /\ n - (i - 1) = n
    BY DEF Feed
  <2>3. n * host \in Int
    BY ProductInt
  <2> HIDE DEF r
  <2> QED
    BY <2>2, <2>3 DEF Keeps
<1> QED
  BY <1>1, <1>2, <1>3

LEMMA AppendRate ==
  ASSUME NEW s \in Seq(Stage), NEW f \in Stage, NEW host \in Nat \ {0},
         NEW last \in Nat, NEW next \in Nat, NEW r,
         Chain(s, host, last, r), Flow(s, 0, 0, 0),
         \A i \in 1 .. Len(s) : s[i].outs = 0,
         f.pushed = 0, f.left = 0, f.outs = 0,
         last * f.up = next * f.down, Len(s) > 0 => f.up <= f.down
  PROVE  LET t == Append(s, f)
         IN  /\ Flow(t, 0, 0, 0)
             /\ \E q : Chain(t, host, next, q) /\ Kept(t, 0, 0, host, q)
<1> DEFINE t == Append(s, f)
           q == [i \in 1 .. Len(s) + 2 |-> IF i <= Len(s) + 1 THEN r[i] ELSE next]
           n == Len(s)
<1>1. n \in Nat /\ Len(t) = n + 1 /\ t[n + 1] = f /\ \A i \in 1 .. n : t[i] = s[i]
  OBVIOUS
<1>2. r \in [1 .. n + 1 -> Nat] /\ r[1] = host /\ r[n + 1] = last
  BY DEF Chain
<1>3. /\ q \in [1 .. n + 2 -> Nat] /\ q[n + 2] = next
      /\ \A i \in 1 .. n + 1 : q[i] = r[i]
  BY <1>1, <1>2
<1> HIDE DEF t, q
<1>4. \A i \in 1 .. n + 1 : t[i].outs = 0
  BY <1>1
<1>5. \A i \in 1 .. n + 2 : Feed(t, 0, i) = 0
  BY <1>1, <1>4 DEF Feed
<1>6. \A i \in 1 .. n + 1 : Feed(s, 0, i) = 0
  BY <1>1 DEF Feed
<1>7. Flow(t, 0, 0, 0)
  <2>1. SUFFICES ASSUME NEW i \in 1 .. n + 2
                 PROVE  (IF i = n + 2 THEN 0 ELSE t[i].pushed + t[i].left) = 0
    BY <1>1, <1>5 DEF Flow
  <2>2. CASE i = n + 2
    BY <2>2
  <2>3. CASE i = n + 1
    BY <2>3, <1>1
  <2>4. CASE i \in 1 .. n
    <3>1. 0 = (s[i].pushed + s[i].left) + 0
      BY <2>4, <1>1, <1>6 DEF Flow
    <3>2. s[i].pushed \in Nat /\ s[i].left \in Nat
      <4>1. s[i] \in Stage
        BY <2>4
      <4> QED
        BY <4>1 DEF Stage
    <3> QED
      BY <2>4, <1>1, <3>1, <3>2
  <2> QED
    BY <2>2, <2>3, <2>4, <1>1
<1>8. Chain(t, host, next, q)
  <2>1. ASSUME NEW i \in 1 .. n + 1
        PROVE  /\ q[i] * t[i].up = q[i + 1] * t[i].down
               /\ i > 1 => t[i].up <= t[i].down
    <3>1. CASE i = n + 1
      <4>1. t[i] = f /\ q[i] = last /\ q[i + 1] = next
        BY <3>1, <1>1, <1>2, <1>3
      <4> QED
        BY <4>1, <3>1, <1>1
    <3>2. CASE i \in 1 .. n
      <4>1. t[i] = s[i] /\ q[i] = r[i] /\ q[i + 1] = r[i + 1]
        BY <3>2, <1>1, <1>3
      <4> QED
        BY <4>1, <3>2 DEF Chain
    <3> QED
      BY <3>1, <3>2, <1>1
  <2>2. q[1] = host
    BY <1>1, <1>2, <1>3
  <2> QED
    BY <1>1, <1>3, <2>1, <2>2 DEF Chain
<1>9. Kept(t, 0, 0, host, q)
  <2>1. SUFFICES ASSUME NEW i \in 1 .. n + 2 PROVE Keeps(t, 0, host, q, i)
    BY <1>1 DEF Kept
  <2>2. q[i] \in Nat /\ 0 * q[i] = 0 /\ 0 * host = 0
    BY <1>3
  <2>3. /\ (0 - (i - 1)) * host <= 0
        /\ i > 1 => (0 - (i - 1)) * host < 0
    <3>1. (0 - (i - 1)) * host = 0 - (i - 1) * host
      BY <1>1
    <3>2. (i - 1) * host \in Nat
      BY <1>1, ProductNat
    <3>3. i > 1 => (i - 1) * host > 0
      <4>1. ASSUME i > 1 PROVE 0 * host < (i - 1) * host
        BY <4>1, <1>1, StrictlyMonotone
      <4> QED
        BY <4>1, <2>2
    <3> QED
      BY <3>1, <3>2, <3>3
  <2>4. Feed(t, 0, i) = 0
    BY <1>5
  <2>5. /\ 0 * q[i] <= Feed(t, 0, i) * host
        /\ (Feed(t, 0, i) - (i - 1)) * host <= 0 * q[i]
        /\ i > 1 => (Feed(t, 0, i) - (i - 1)) * host < 0 * q[i]
    <3> DEFINE c == (0 - (i - 1)) * host
    <3>1. c <= 0 /\ (i > 1 => c < 0)
      BY <2>3
    <3> HIDE DEF c
    <3>2. 0 * q[i] <= 0 * host /\ c <= 0 * q[i] /\ (i > 1 => c < 0 * q[i])
      BY <2>2, <3>1
    <3> QED
      BY <2>4, <3>2 DEF c
  <2> QED
    BY <2>5 DEF Keeps
<1> QED
  BY <1>7, <1>8, <1>9 DEF t

LEMMA RateInit ==
  ASSUME NEW E, ResamplerInit
  PROVE  RateInv(E)
<1>1. /\ stages = << >> /\ Len(stages) = 0 /\ at = 0 /\ inRate = 0
      /\ fed = 0 /\ given = 0
      /\ hostRate = Target /\ Target \in Nat \ {0} /\ RateLeft = Target
  BY ResamplerAssumption DEF ResamplerInit, RateLeft
<1>2. /\ Flow(stages, at, fed, given)
      /\ \E r : /\ Chain(stages, hostRate, RateLeft, r)
                /\ Kept(stages, at, fed, hostRate, r)
  BY <1>1, NoStagesRate
<1> QED
  BY <1>1, <1>2 DEF RateInv, DesignRate

LEMMA RatePrepare ==
  ASSUME NEW E, HalvingsDivide(E), RateInv(E),
         NEW rate \in HostRates, Prepare(rate)
  PROVE  RateInv(E)'
<1>1. rate \in E /\ rate \in Nat \ {0} /\ Target \in Nat \ {0}
  BY ResamplerAssumption DEF HalvingsDivide
<1>2. /\ stages' = << >> /\ Len(stages') = 0 /\ at' = 0
      /\ inRate' = IF rate = Target THEN 0 ELSE rate
      /\ fed' = 0 /\ given' = 0 /\ hostRate' = rate /\ RateLeft' = rate
  BY <1>1 DEF Prepare, Idle, RateLeft
<1>3. /\ Flow(stages', at', fed', given')
      /\ \E r : /\ Chain(stages', hostRate', RateLeft', r)
                /\ Kept(stages', at', fed', hostRate', r)
  BY <1>1, <1>2, NoStagesRate
<1>4. DesignRate(E)'
  BY <1>1, <1>2 DEF DesignRate
<1> QED
  BY <1>1, <1>2, <1>3, <1>4 DEF RateInv

(* A stage is designed. *)
LEMMA RateDesign ==
  ASSUME NEW E, IInv, RateInv(E), inRate > 0,
         NEW u \in Nat \ {0}, NEW d \in Nat \ {0}, NEW next \in Nat,
         stages' = Append(stages, Designed(u, d, stageMax)),
         UNCHANGED <<hostRate, at, fed, given>>,
         RateLeft' = next, inRate' > 0 => inRate' = next,
         inRate' > 0 => next \in E /\ next >= Target,
         inRate * u = next * d, Len(stages) > 0 => u <= d
  PROVE  RateInv(E)'
<1> DEFINE f == Designed(u, d, stageMax)
<1>1. /\ stages \in Seq(Stage) /\ at = 0 /\ inRate \in Nat
      /\ stageMax = Largest(stages, Len(stages) + 1)
  BY DEF IInv, CascadeInv, DesignInv
<1>2. stageMax \in Nat
  BY <1>1, LargestNat
<1>3. /\ f \in Stage /\ Ahead(f)
      /\ f.pushed = 0 /\ f.left = 0 /\ f.outs = 0 /\ f.up = u /\ f.down = d
  <2>1. f \in Stage
    BY <1>2, DesignedInv DEF StageInv
  <2>2. Ahead(f)
    BY <1>2, AheadDesigned
  <2> QED
    BY <2>1, <2>2 DEF Designed
<1> HIDE DEF f
<1>4. /\ hostRate \in Nat \ {0} /\ fed = 0 /\ given = 0
      /\ \A i \in 1 .. Len(stages) : stages[i].outs = 0
      /\ \A i \in 1 .. Len(stages) : Ahead(stages[i])
      /\ RateLeft = inRate
  BY DEF RateInv, DesignRate, RateLeft
<1>5. Flow(stages, 0, 0, 0)
  BY <1>1, <1>4 DEF RateInv
<1>6. PICK r : Chain(stages, hostRate, inRate, r)
  BY <1>4 DEF RateInv
<1>7. stages' = Append(stages, f)
  BY DEF f
<1>8. /\ Flow(stages', 0, 0, 0)
      /\ \E q : Chain(stages', hostRate, next, q) /\ Kept(stages', 0, 0, hostRate, q)
  <2>1. inRate * f.up = next * f.down /\ (Len(stages) > 0 => f.up <= f.down)
    BY <1>3
  <2>2. stages \in Seq(Stage) /\ f \in Stage /\ hostRate \in Nat \ {0}
    BY <1>1, <1>3, <1>4
  <2>3. /\ Flow(Append(stages, f), 0, 0, 0)
        /\ \E q : /\ Chain(Append(stages, f), hostRate, next, q)
                  /\ Kept(Append(stages, f), 0, 0, hostRate, q)
    BY <2>1, <2>2, <1>1, <1>3, <1>4, <1>5, <1>6, AppendRate
  <2> QED
    BY <1>7, <2>3
<1>9. /\ Len(stages') = Len(stages) + 1 /\ stages'[Len(stages) + 1] = f
      /\ \A i \in 1 .. Len(stages) : stages'[i] = stages[i]
      /\ Len(stages) \in Nat
  BY <1>1, <1>7
<1>10. \A i \in 1 .. Len(stages') : Ahead(stages'[i]) /\ stages'[i].outs = 0
  BY <1>3, <1>4, <1>9
<1>11. DesignRate(E)'
  BY <1>4, <1>10 DEF DesignRate
<1> QED
  BY <1>1, <1>4, <1>8, <1>10, <1>11 DEF RateInv

LEMMA RateHalving ==
  ASSUME NEW E, HalvingsDivide(E), IInv, RateInv(E), DesignHalving
  PROVE  RateInv(E)'
<1>1. /\ inRate > 2 * Target /\ inRate \in Nat /\ Target \in Nat \ {0}
      /\ inRate > 0 /\ Halves(inRate)
  BY ResamplerAssumption DEF DesignHalving, Halves, IInv
<1>2. inRate \in E /\ inRate % 2 = 0 /\ inRate \div 2 \in E
  BY <1>1 DEF RateInv, DesignRate, HalvingsDivide
<1>3. /\ inRate \div 2 \in Nat /\ inRate * 1 = (inRate \div 2) * 2
      /\ inRate \div 2 >= Target /\ inRate \div 2 > 0
  BY <1>1, <1>2
<1>4. /\ stages' = Append(stages, Designed(1, 2, stageMax))
      /\ inRate' = inRate \div 2
      /\ UNCHANGED <<hostRate, at, fed, given>>
  BY DEF DesignHalving
<1>5. RateLeft' = inRate \div 2
  BY <1>3, <1>4 DEF RateLeft
<1> QED
  BY <1>1, <1>2, <1>3, <1>4, <1>5, RateDesign

LEMMA RateLast ==
  ASSUME NEW E, IInv, RateInv(E), DesignLast
  PROVE  RateInv(E)'
<1> DEFINE u == Target \div Gcd(Target, inRate)
           d == inRate \div Gcd(Target, inRate)
<1>1. inRate \in Nat \ {0} /\ inRate > 0 /\ Target \in Nat \ {0}
  BY ResamplerAssumption DEF DesignLast, IInv
<1>2. /\ u \in Nat \ {0} /\ d \in Nat \ {0} /\ inRate * u = Target * d
      /\ Target <= inRate => u <= d
  BY <1>1, Reduced
<1>3. Len(stages) > 0 => Target <= inRate
  BY <1>1 DEF RateInv, DesignRate
<1>4. /\ stages' = Append(stages, Designed(u, d, stageMax)) /\ inRate' = 0
      /\ UNCHANGED <<hostRate, at, fed, given>>
  BY DEF DesignLast
<1>5. RateLeft' = Target
  BY <1>4 DEF RateLeft
<1> HIDE DEF u, d
<1> QED
  BY <1>1, <1>2, <1>3, <1>4, <1>5, RateDesign

LEMMA RateBypass ==
  ASSUME NEW E, IInv, RateInv(E), NEW n \in 0 .. MaxInput, Bypass(n)
  PROVE  RateInv(E)'
<1>1. /\ stages = << >> /\ at = 0 /\ inRate = 0 /\ n \in Nat
      /\ hostRate \in Nat \ {0} /\ fed \in Nat /\ given \in Nat
      /\ stages' = << >> /\ at' = 0 /\ inRate' = 0 /\ hostRate' = hostRate
      /\ fed' = fed + n /\ given' = given + n
  BY ResamplerAssumption DEF Bypass, Idle, RateInv, design
<1>2. fed = given
  BY <1>1 DEF RateInv, Flow, Feed
<1>3. Target = hostRate
  BY <1>1 DEF RateInv, Chain, RateLeft
<1>4. RateLeft' = hostRate /\ fed' \in Nat /\ given' = fed' /\ Len(stages') = 0
  BY <1>1, <1>2, <1>3 DEF RateLeft
<1>5. /\ Flow(stages', at', fed', given')
      /\ \E r : /\ Chain(stages', hostRate', RateLeft', r)
                /\ Kept(stages', at', fed', hostRate', r)
  BY <1>1, <1>4, NoStagesRate
<1>6. DesignRate(E)'
  BY <1>1 DEF DesignRate
<1> QED
  BY <1>1, <1>4, <1>5, <1>6 DEF RateInv

LEMMA ReplaceChain ==
  ASSUME NEW s \in Seq(Stage), NEW i \in 1 .. Len(s), NEW g,
         g.up = s[i].up, g.down = s[i].down,
         NEW host, NEW last, NEW r, Chain(s, host, last, r)
  PROVE  Chain([s EXCEPT ![i] = g], host, last, r)
<1> DEFINE t == [s EXCEPT ![i] = g]
<1>1. Len(t) = Len(s) /\ \A j \in 1 .. Len(s) : t[j] = IF j = i THEN g ELSE s[j]
  OBVIOUS
<1> HIDE DEF t
<1>2. \A j \in 1 .. Len(s) : t[j].up = s[j].up /\ t[j].down = s[j].down
  BY <1>1
<1>3. Chain(t, host, last, r)
  BY <1>1, <1>2 DEF Chain
<1> QED
  BY <1>3 DEF t

(* When a stage is through with a block the next keeps the rate too.        *)
LEMMA KeepsNext ==
  ASSUME NEW E, IInv, RateInv(E), at \in 1 .. Len(stages), Resting(stages[at]),
         NEW r, Chain(stages, hostRate, RateLeft, r),
         Kept(stages, at, fed, hostRate, r)
  PROVE  Keeps(stages, fed, hostRate, r, at + 1)
<1> DEFINE f == stages[at]
           x == Feed(stages, fed, at)
           y == Feed(stages, fed, at + 1)
<1>1. /\ stages \in Seq(Stage) /\ Len(stages) \in Nat /\ at \in Nat /\ at >= 1
      /\ StageInv(f, Largest(stages, at)) /\ Starved(f) /\ f.left = 0
      /\ hostRate \in Nat \ {0} /\ fed \in Nat /\ Ahead(f)
  BY DEF IInv, CascadeInv, Resting, RateInv
<1>2. /\ f.up \in Nat \ {0} /\ f.down \in Nat \ {0} /\ f.pushed \in Nat
      /\ f.outs \in Nat
  BY <1>1 DEF StageInv, Stage
<1>3. x \in Nat /\ y \in Nat
  <2>1. at \in 1 .. Len(stages) + 1 /\ at + 1 \in 1 .. Len(stages) + 1
    BY <1>1
  <2> HIDE DEF f
  <2> QED
    BY <2>1, <1>1, FeedNat
<1>4. x = f.pushed /\ y = f.outs
  <2>1. x = (f.pushed + f.left) + 0
    BY <1>1 DEF RateInv, Flow
  <2> QED
    BY <1>1, <1>2, <2>1 DEF Feed
<1>5. x * f.up <= y * f.down /\ (y - 1) * f.down < x * f.up
  BY <1>1, <1>4, RestingBehind DEF Ahead
<1>6. /\ r[at] \in Nat /\ r[at + 1] \in Nat
      /\ r[at] * f.up = r[at + 1] * f.down
      /\ at - 1 > 0 => f.up <= f.down
  <2>1. at \in 1 .. Len(stages) + 1 /\ at + 1 \in 1 .. Len(stages) + 1
        /\ at \in 1 .. Len(stages) /\ (at - 1 > 0 => at > 1)
    BY <1>1
  <2>2. r \in [1 .. Len(stages) + 1 -> Nat]
    BY DEF Chain
  <2>3. /\ r[at] * f.up = r[at + 1] * f.down
        /\ at > 1 => f.up <= f.down
    BY <2>1 DEF Chain
  <2> QED
    BY <2>1, <2>2, <2>3
<1>7. fed * r[at] <= x * hostRate /\ (x - (at - 1)) * hostRate <= fed * r[at]
  BY <1>1 DEF Kept, Keeps
<1> HIDE DEF f, x, y
<1>8. /\ fed * r[at + 1] <= y * hostRate
      /\ (y - ((at - 1) + 1)) * hostRate < fed * r[at + 1]
  <2> DEFINE k    == at - 1
             rate == r[at]
             next == r[at + 1]
             u    == f.up
             d    == f.down
  <2>1. /\ k \in Nat /\ rate \in Nat /\ next \in Nat
        /\ u \in Nat \ {0} /\ d \in Nat \ {0}
        /\ rate * u = next * d /\ (k > 0 => u <= d)
    BY <1>1, <1>2, <1>6
  <2>2. /\ x * u <= y * d /\ (y - 1) * d < x * u
        /\ fed * rate <= x * hostRate /\ (x - k) * hostRate <= fed * rate
    BY <1>5, <1>7
  <2> HIDE DEF k, rate, next, u, d
  <2>3. fed * next <= y * hostRate /\ (y - (k + 1)) * hostRate < fed * next
    BY <2>1, <2>2, <1>1, <1>3, Telescope
  <2> QED
    BY <2>3 DEF k, next
<1>9. (at - 1) + 1 = (at + 1) - 1
  BY <1>1
<1>10. (y - ((at + 1) - 1)) * hostRate < fed * r[at + 1]
  BY <1>8, <1>9
<1>11. (y - ((at + 1) - 1)) * hostRate \in Int /\ fed * r[at + 1] \in Int
  BY <1>1, <1>3, <1>6, ProductInt
<1> QED
  BY <1>8, <1>10, <1>11 DEF Keeps, y

LEMMA RateProcess ==
  ASSUME NEW E, IInv, RateInv(E), NEW n \in 0 .. MaxInput, Process(n)
  PROVE  RateInv(E)'
<1> DEFINE g == Called(stages[1], n)
<1>1. /\ at = 0 /\ inRate = 0 /\ stages # << >> /\ n \in Nat
      /\ stages' = [stages EXCEPT ![1] = g]
      /\ at' = 1 /\ inRate' = 0 /\ hostRate' = hostRate
      /\ fed' = fed + n /\ given' = given
      /\ hostRate \in Nat \ {0} /\ fed \in Nat /\ given \in Nat
  BY ResamplerAssumption DEF Process, Idle, design, RateInv
<1>2. stages \in Seq(Stage) /\ Len(stages) \in Nat /\ 1 \in 1 .. Len(stages)
  BY <1>1 DEF IInv, CascadeInv
<1>3. stages[1] \in Stage /\ stages[1].left = 0
  BY <1>1, <1>2 DEF IInv, CascadeInv, Resting
<1>4. /\ g.up = stages[1].up /\ g.down = stages[1].down
      /\ g.pushed = stages[1].pushed /\ g.outs = stages[1].outs
      /\ g.left = n /\ g.outCount = 0
      /\ g.pushed \in Nat /\ g.outs \in Nat
  BY <1>3 DEF Called, Stage
<1> HIDE DEF g
<1>5. /\ Len(stages') = Len(stages)
      /\ \A i \in 1 .. Len(stages) :
           stages'[i] = IF i = 1 THEN g ELSE stages[i]
  BY <1>1, <1>2
<1>6. \A i \in 1 .. Len(stages') : Ahead(stages'[i])
  BY <1>4, <1>5 DEF RateInv, Ahead
<1>7. Flow(stages', at', fed', given')
  <2>1. SUFFICES ASSUME NEW i \in 1 .. Len(stages') + 1
        PROVE  Feed(stages', fed', i) =
                 (IF i = Len(stages') + 1 THEN given'
                    ELSE stages'[i].pushed + stages'[i].left)
                 + (IF at' > 0 /\ i = at' + 1 THEN stages'[at'].outCount ELSE 0)
    BY DEF Flow
  <2> DEFINE taken == IF i = Len(stages) + 1 THEN given
                        ELSE stages[i].pushed + stages[i].left
             taking == IF i = Len(stages') + 1 THEN given'
                         ELSE stages'[i].pushed + stages'[i].left
             coming == IF at' > 0 /\ i = at' + 1 THEN stages'[at'].outCount ELSE 0
  <2>2. i \in 1 .. Len(stages) + 1
    BY <1>5
  <2>3. Feed(stages, fed, i) = taken + 0
    BY <2>2, <1>1 DEF RateInv, Flow
  <2>4. coming = 0
    BY <1>1, <1>2, <1>4, <1>5
  <2>5. Feed(stages', fed', i) = taking + 0
    <3>1. CASE i = 1
      <4>1. taken = stages[1].pushed + 0 /\ taking = stages[1].pushed + n
        BY <3>1, <1>2, <1>3, <1>4, <1>5
      <4>2. Feed(stages, fed, i) = fed /\ Feed(stages', fed', i) = fed + n
        BY <3>1, <1>1 DEF Feed
      <4> HIDE DEF taken, taking
      <4> QED
        BY <4>1, <4>2, <2>3, <1>1, <1>4
    <3>2. CASE i # 1
      <4>1. Feed(stages', fed', i) = Feed(stages, fed, i)
        <5>1. i - 1 \in 1 .. Len(stages)
          BY <2>2, <3>2, <1>2
        <5>2. stages'[i - 1].outs = stages[i - 1].outs
          BY <5>1, <1>4, <1>5
        <5> QED
          BY <3>2, <5>2 DEF Feed
      <4>2. taking = taken
        BY <2>2, <3>2, <1>1, <1>2, <1>5
      <4> QED
        BY <4>1, <4>2, <2>3
    <3> QED
      BY <3>1, <3>2
  <2> QED
    BY <2>4, <2>5
<1>8. PICK r : Chain(stages, hostRate, RateLeft, r)
  BY DEF RateInv
<1>9. Chain(stages', hostRate', RateLeft', r)
  <2>1. RateLeft' = RateLeft
    BY <1>1 DEF RateLeft
  <2> QED
    BY <1>1, <1>2, <1>4, <1>8, <2>1, ReplaceChain
<1>10. Kept(stages', at', fed', hostRate', r)
  <2>1. SUFFICES Keeps(stages', fed', hostRate, r, 1)
    BY <1>1 DEF Kept
  <2>2. r[1] = hostRate /\ Feed(stages', fed', 1) = fed' /\ fed' - (1 - 1) = fed'
    BY <1>1, <1>8 DEF Chain, Feed
  <2>3. fed' * hostRate \in Int
    BY <1>1, ProductInt
  <2> QED
    BY <2>2, <2>3 DEF Keeps
<1>11. DesignRate(E)'
  BY <1>1 DEF DesignRate
<1>12. fed' \in Nat /\ given' \in Nat /\ hostRate' \in Nat \ {0}
  BY <1>1
<1> QED
  BY <1>6, <1>7, <1>9, <1>10, <1>11, <1>12, Zenon DEF RateInv

(* A step of the running stage: what it took stays, what it gives is in its *)
(* output.                                                                  *)
LEMMA FlowStep ==
  ASSUME NEW s \in Seq(Stage), NEW a \in 1 .. Len(s), NEW n \in Nat,
         NEW h \in Nat, Flow(s, a, n, h), NEW g, NEW e \in Nat,
         g.pushed + g.left = s[a].pushed + s[a].left,
         g.outs = s[a].outs + e, g.outCount = s[a].outCount + e
  PROVE  Flow([s EXCEPT ![a] = g], a, n, h)
<1> DEFINE t == [s EXCEPT ![a] = g]
<1>1. /\ Len(t) = Len(s) /\ Len(s) \in Nat /\ a > 0
      /\ \A i \in 1 .. Len(s) : t[i] = IF i = a THEN g ELSE s[i]
  OBVIOUS
<1> HIDE DEF t
<1>2. SUFFICES ASSUME NEW i \in 1 .. Len(s) + 1
      PROVE  Feed(t, n, i) =
               (IF i = Len(s) + 1 THEN h ELSE t[i].pushed + t[i].left)
               + (IF i = a + 1 THEN t[a].outCount ELSE 0)
  <2>1. Flow(t, a, n, h)
    BY <1>1, <1>2 DEF Flow
  <2> QED
    BY <2>1 DEF t
<1> DEFINE taken  == IF i = Len(s) + 1 THEN h ELSE s[i].pushed + s[i].left
           taking == IF i = Len(s) + 1 THEN h ELSE t[i].pushed + t[i].left
<1>3. Feed(s, n, i) = taken + (IF i = a + 1 THEN s[a].outCount ELSE 0)
  BY <1>1 DEF Flow
<1>4. taking = taken
  BY <1>1
<1>5. taken \in Nat
  <2>1. ASSUME i # Len(s) + 1
        PROVE  s[i].pushed \in Nat /\ s[i].left \in Nat
    <3>1. s[i] \in Stage
      BY <2>1
    <3> QED
      BY <3>1 DEF Stage
  <2> QED
    BY <2>1
<1>6. s[a].outCount \in Nat /\ s[a].outs \in Nat
  <2>1. s[a] \in Stage
    OBVIOUS
  <2> QED
    BY <2>1 DEF Stage
<1> HIDE DEF taken, taking
<1>7. CASE i = a + 1
  <2>1. Feed(t, n, i) = Feed(s, n, i) + e
    <3>1. i - 1 = a /\ i # 1
      BY <1>7
    <3> QED
      BY <3>1, <1>1 DEF Feed
  <2>2. t[a].outCount = s[a].outCount + e
    BY <1>1
  <2>3. Feed(t, n, i) = taking + t[a].outCount
    BY <2>1, <2>2, <1>3, <1>4, <1>5, <1>6, <1>7
  <2> QED
    BY <2>3, <1>7 DEF taking
<1>8. CASE i # a + 1
  <2>1. Feed(t, n, i) = Feed(s, n, i)
    <3>1. ASSUME i # 1 PROVE t[i - 1].outs = s[i - 1].outs
      <4>1. i - 1 \in 1 .. Len(s) /\ i - 1 # a
        BY <3>1, <1>1, <1>8
      <4> QED
        BY <4>1, <1>1
    <3> QED
      BY <3>1 DEF Feed
  <2>2. Feed(t, n, i) = taking + 0
    BY <2>1, <1>3, <1>4, <1>8
  <2> QED
    BY <2>2, <1>8 DEF taking
<1> QED
  BY <1>7, <1>8

LEMMA RateStageStep ==
  ASSUME NEW E, IInv, RateInv(E), StageStep
  PROVE  RateInv(E)'
<1> DEFINE f == stages[at]
           g == Stepped(f)
<1>1. /\ at > 0 /\ ~Finished(f) /\ stages' = [stages EXCEPT ![at] = g]
      /\ UNCHANGED <<hostRate, inRate, at, fed, given>>
  BY DEF StageStep, design
<1>2. /\ stages \in Seq(Stage) /\ at \in 1 .. Len(stages) /\ Len(stages) \in Nat
      /\ inRate = 0
  BY <1>1 DEF IInv, CascadeInv, DesignInv
<1>3. StageInv(f, Largest(stages, at)) /\ f \in Stage /\ Ahead(f)
  BY <1>2 DEF IInv, CascadeInv, RateInv
<1>4. /\ Ahead(g) /\ g.up = f.up /\ g.down = f.down
      /\ \E e \in Nat : /\ g.pushed + g.left = f.pushed + f.left
                        /\ g.outs = f.outs + e /\ g.outCount = f.outCount + e
  <2> HIDE DEF f
  <2>1. CASE Starved(f)
    <3>1. g = Pushed(f)
      BY <2>1 DEF Stepped
    <3>2. /\ g.pushed = f.pushed + 1 /\ g.left = f.left - 1
          /\ g.outs = f.outs /\ g.outCount = f.outCount
          /\ g.up = f.up /\ g.down = f.down
      BY <3>1, <1>3 DEF Pushed, Stage
    <3>3. /\ f.pushed \in Nat /\ f.left \in Nat
          /\ f.outs \in Nat /\ f.outCount \in Nat
      BY <1>3 DEF Stage
    <3>4. /\ g.pushed + g.left = f.pushed + f.left
          /\ g.outs = f.outs + 0 /\ g.outCount = f.outCount + 0
      BY <3>2, <3>3
    <3> QED
      BY <3>1, <3>2, <3>4, <1>3, AheadPushed
  <2>2. CASE ~Starved(f)
    <3>1. g = Pulled(f)
      BY <2>2 DEF Stepped
    <3>2. /\ g.pushed = f.pushed /\ g.left = f.left
          /\ g.outs = f.outs + 1 /\ g.outCount = f.outCount + 1
          /\ g.up = f.up /\ g.down = f.down
      BY <3>1, <1>3 DEF Pulled, Stage
    <3> QED
      BY <2>2, <3>1, <3>2, <1>3, AheadPulled
  <2> QED
    BY <2>1, <2>2
<1> HIDE DEF g
<1>5. /\ Len(stages') = Len(stages)
      /\ \A i \in 1 .. Len(stages) : stages'[i] = IF i = at THEN g ELSE stages[i]
  BY <1>1, <1>2
<1>6. \A i \in 1 .. Len(stages') : Ahead(stages'[i])
  BY <1>4, <1>5 DEF RateInv
<1>7. hostRate \in Nat \ {0} /\ fed \in Nat /\ given \in Nat
  BY DEF RateInv
<1>8. Flow(stages', at', fed', given')
  <2>1. Flow(stages, at, fed, given)
    BY DEF RateInv
  <2>2. PICK e \in Nat : /\ g.pushed + g.left = f.pushed + f.left
                         /\ g.outs = f.outs + e /\ g.outCount = f.outCount + e
    BY <1>4
  <2>3. Flow([stages EXCEPT ![at] = g], at, fed, given)
    BY <2>1, <2>2, <1>2, <1>7, FlowStep
  <2> QED
    BY <2>3, <1>1
<1>9. PICK r : /\ Chain(stages, hostRate, RateLeft, r)
               /\ Kept(stages, at, fed, hostRate, r)
  BY DEF RateInv
<1>10. Chain(stages', hostRate', RateLeft', r)
  <2>1. RateLeft' = RateLeft
    BY <1>1 DEF RateLeft
  <2> QED
    BY <1>1, <1>2, <1>4, <1>9, <2>1, ReplaceChain
<1>11. Kept(stages', at', fed', hostRate', r)
  <2>1. SUFFICES ASSUME NEW i \in 1 .. Len(stages) + 1, i <= at
        PROVE  Keeps(stages', fed, hostRate, r, i)
    <3>1. at' # 0 /\ at' = at /\ fed' = fed /\ hostRate' = hostRate
      BY <1>1, <1>2
    <3> QED
      BY <3>1, <1>5 DEF Kept
  <2>2. Keeps(stages, fed, hostRate, r, i)
    BY <2>1, <1>9 DEF Kept
  <2>3. Feed(stages', fed, i) = Feed(stages, fed, i)
    <3>1. ASSUME i # 1 PROVE stages'[i - 1] = stages[i - 1]
      <4>1. i - 1 \in 1 .. Len(stages) /\ i - 1 # at
        BY <3>1, <2>1, <1>2
      <4> QED
        BY <4>1, <1>5
    <3> QED
      BY <3>1 DEF Feed
  <2> QED
    BY <2>2, <2>3 DEF Keeps
<1>12. DesignRate(E)'
  BY <1>1, <1>2 DEF DesignRate
<1>13. fed' \in Nat /\ given' \in Nat /\ hostRate' \in Nat \ {0}
  BY <1>1, <1>7
<1> QED
  BY <1>6, <1>8, <1>10, <1>11, <1>12, <1>13, Zenon DEF RateInv

LEMMA RateNextStage ==
  ASSUME NEW E, IInv, RateInv(E), NextStage
  PROVE  RateInv(E)'
<1> DEFINE b == at + 1
           c == stages[at].outCount
           g == Called(stages[b], c)
<1>1. /\ at > 0 /\ Finished(stages[at]) /\ at < Len(stages)
      /\ stages' = [stages EXCEPT ![b] = g]
      /\ at' = b
      /\ UNCHANGED <<hostRate, inRate, fed, given>>
  BY DEF NextStage, design
<1>2. /\ stages \in Seq(Stage) /\ Len(stages) \in Nat /\ at \in 1 .. Len(stages)
      /\ b \in 1 .. Len(stages) /\ b # at /\ b # 1 /\ b - 1 = at
      /\ b # Len(stages) + 1 /\ inRate = 0
  BY <1>1 DEF IInv, CascadeInv, DesignInv
<1>3. Resting(stages[at])
  BY <1>1, <1>2, FinishedRests
<1>4. /\ stages[b] \in Stage /\ stages[b].left = 0 /\ c \in Nat
  <2>1. stages[at] \in Stage /\ stages[b] \in Stage
    BY <1>2
  <2> QED
    BY <2>1, <1>2 DEF IInv, CascadeInv, Resting, Stage
<1> HIDE DEF b, c
<1>5. /\ g.up = stages[b].up /\ g.down = stages[b].down
      /\ g.pushed = stages[b].pushed /\ g.outs = stages[b].outs
      /\ g.left = c /\ g.outCount = 0
      /\ g.pushed \in Nat /\ g.outs \in Nat
  BY <1>4 DEF Called, Stage
<1> HIDE DEF g
<1>6. /\ Len(stages') = Len(stages)
      /\ \A i \in 1 .. Len(stages) : stages'[i] = IF i = b THEN g ELSE stages[i]
  BY <1>1, <1>2
<1>7. \A i \in 1 .. Len(stages) : stages'[i].outs = stages[i].outs
  BY <1>5, <1>6
<1>8. \A i \in 1 .. Len(stages') : Ahead(stages'[i])
  BY <1>5, <1>6 DEF RateInv, Ahead
<1>9. \A i \in 1 .. Len(stages) + 1 :
        Feed(stages', fed, i) = Feed(stages, fed, i)
  <2>1. SUFFICES ASSUME NEW i \in 1 .. Len(stages) + 1
        PROVE  Feed(stages', fed, i) = Feed(stages, fed, i)
    OBVIOUS
  <2>2. ASSUME i # 1 PROVE stages'[i - 1].outs = stages[i - 1].outs
    <3>1. i - 1 \in 1 .. Len(stages)
      BY <2>2, <1>2
    <3> QED
      BY <3>1, <1>7
  <2> QED
    BY <2>2 DEF Feed
<1>10. Flow(stages', at', fed', given')
  <2>1. SUFFICES ASSUME NEW i \in 1 .. Len(stages') + 1
        PROVE  Feed(stages', fed', i) =
                 (IF i = Len(stages') + 1 THEN given'
                    ELSE stages'[i].pushed + stages'[i].left)
                 + (IF at' > 0 /\ i = at' + 1 THEN stages'[at'].outCount ELSE 0)
    BY DEF Flow
  <2> DEFINE taken == IF i = Len(stages) + 1 THEN given
                        ELSE stages[i].pushed + stages[i].left
             taking == IF i = Len(stages') + 1 THEN given'
                         ELSE stages'[i].pushed + stages'[i].left
             coming == IF at' > 0 /\ i = at' + 1 THEN stages'[at'].outCount ELSE 0
  <2>2. i \in 1 .. Len(stages) + 1
    BY <1>6
  <2>3. Feed(stages, fed, i) = taken + (IF i = b THEN c ELSE 0)
    <3>1. at > 0 /\ (i = at + 1 <=> i = b)
      BY <1>1 DEF b
    <3> QED
      BY <2>2, <3>1 DEF RateInv, Flow, c
  <2>4. coming = 0
    BY <1>1, <1>2, <1>5, <1>6
  <2>5. Feed(stages', fed', i) = Feed(stages, fed, i)
    BY <2>2, <1>1, <1>9
  <2>6. taking = taken + (IF i = b THEN c ELSE 0)
    <3>1. CASE i = b
      <4>1. taken = stages[b].pushed + 0 /\ taking = stages[b].pushed + c
        BY <3>1, <1>2, <1>4, <1>5, <1>6
      <4>2. stages[b].pushed \in Nat
        BY <1>5
      <4> HIDE DEF taken, taking
      <4> QED
        BY <4>1, <4>2, <3>1, <1>4
    <3>2. CASE i # b
      <4>1. taking = taken
        BY <2>2, <3>2, <1>1, <1>2, <1>6
      <4>2. taken \in Nat
        <5>1. ASSUME i # Len(stages) + 1
              PROVE  stages[i].pushed \in Nat /\ stages[i].left \in Nat
          <6>1. stages[i] \in Stage
            BY <5>1, <2>2, <1>2
          <6> QED
            BY <6>1 DEF Stage
        <5>2. given \in Nat
          BY DEF RateInv
        <5> QED
          BY <5>1, <5>2
      <4> HIDE DEF taken, taking
      <4> QED
        BY <4>1, <4>2, <3>2
    <3> QED
      BY <3>1, <3>2
  <2>7. taking = Feed(stages', fed', i) /\ taking \in Nat
    <3>1. Feed(stages, fed, i) \in Nat
      BY <2>2, <1>2, FeedNat DEF RateInv
    <3> HIDE DEF taken, taking
    <3> QED
      BY <2>3, <2>5, <2>6, <3>1
  <2> QED
    <3> HIDE DEF taking
    <3>1. Feed(stages', fed', i) = taking + coming
      BY <2>4, <2>7
    <3> QED
      BY <3>1 DEF taking
<1>11. PICK r : /\ Chain(stages, hostRate, RateLeft, r)
                /\ Kept(stages, at, fed, hostRate, r)
  BY DEF RateInv
<1>12. Chain(stages', hostRate', RateLeft', r)
  <2>1. RateLeft' = RateLeft
    BY <1>1 DEF RateLeft
  <2> QED
    BY <1>1, <1>2, <1>5, <1>11, <2>1, ReplaceChain
<1>13. Kept(stages', at', fed', hostRate', r)
  <2>1. SUFFICES ASSUME NEW i \in 1 .. Len(stages) + 1, i <= b
        PROVE  Keeps(stages', fed, hostRate, r, i)
    <3>1. at' # 0 /\ at' = b /\ fed' = fed /\ hostRate' = hostRate
      BY <1>1, <1>2
    <3> QED
      BY <3>1, <1>6 DEF Kept
  <2>2. Keeps(stages, fed, hostRate, r, i)
    <3>1. CASE i = b
      <4>1. Keeps(stages, fed, hostRate, r, at + 1)
        BY <1>2, <1>3, <1>11, KeepsNext
      <4> QED
        BY <4>1, <3>1 DEF b
    <3>2. CASE i # b
      <4>1. i <= at
        BY <2>1, <3>2, <1>2 DEF b
      <4> QED
        BY <4>1, <1>11 DEF Kept
    <3> QED
      BY <3>1, <3>2
  <2>3. Feed(stages', fed, i) = Feed(stages, fed, i)
    BY <1>9
  <2> QED
    BY <2>2, <2>3 DEF Keeps
<1>14. DesignRate(E)'
  BY <1>1, <1>2 DEF DesignRate
<1>15. fed' \in Nat /\ given' \in Nat /\ hostRate' \in Nat \ {0}
  BY <1>1 DEF RateInv
<1> QED
  BY <1>8, <1>10, <1>12, <1>13, <1>14, <1>15, Zenon DEF RateInv

LEMMA RateDeliver ==
  ASSUME NEW E, IInv, RateInv(E), Deliver
  PROVE  RateInv(E)'
<1> DEFINE c == stages[at].outCount
<1>1. /\ at > 0 /\ Finished(stages[at]) /\ at = Len(stages)
      /\ given' = given + Copied /\ at' = 0
      /\ UNCHANGED <<hostRate, stages, inRate, fed>>
  BY DEF Deliver, design
<1>2. /\ stages \in Seq(Stage) /\ Len(stages) \in Nat /\ at \in 1 .. Len(stages)
      /\ inRate = 0
  BY <1>1 DEF IInv, CascadeInv, DesignInv
<1>3. Resting(stages[at])
  BY <1>1, <1>2, FinishedRests
<1>4. c \in Nat /\ Copied = c
  <2>1. c \in Nat
    <3>1. stages[at] \in Stage
      BY <1>2
    <3> QED
      BY <3>1 DEF Stage
  <2>2. c <= Room
    BY <1>1, <1>2, InvNothingDropped DEF NothingDropped
  <2>3. Room \in Nat
    BY ResamplerAssumption DEF Room
  <2> QED
    BY <2>1, <2>2, <2>3 DEF Copied, Min
<1> HIDE DEF c
<1>5. hostRate \in Nat \ {0} /\ fed \in Nat /\ given \in Nat
  BY DEF RateInv
<1>6. Flow(stages', at', fed', given')
  <2>1. SUFFICES ASSUME NEW i \in 1 .. Len(stages) + 1
        PROVE  Feed(stages, fed, i) =
                 (IF i = Len(stages) + 1 THEN given + c
                    ELSE stages[i].pushed + stages[i].left) + 0
    <3>1. /\ stages' = stages /\ at' = 0 /\ fed' = fed /\ given' = given + c
          /\ ~(at' > 0)
      BY <1>1, <1>4
    <3> QED
      BY <3>1 DEF Flow
  <2>2. Feed(stages, fed, i) =
          (IF i = Len(stages) + 1 THEN given
             ELSE stages[i].pushed + stages[i].left)
          + (IF i = Len(stages) + 1 THEN c ELSE 0)
    BY <1>1 DEF RateInv, Flow, c
  <2> QED
    BY <2>2, <1>4, <1>5
<1>7. PICK r : /\ Chain(stages, hostRate, RateLeft, r)
               /\ Kept(stages, at, fed, hostRate, r)
  BY DEF RateInv
<1>8. Chain(stages', hostRate', RateLeft', r)
  <2>1. RateLeft' = RateLeft
    BY <1>1 DEF RateLeft
  <2> QED
    BY <1>1, <1>7, <2>1
<1>9. Kept(stages', at', fed', hostRate', r)
  <2>1. SUFFICES ASSUME NEW i \in 1 .. Len(stages) + 1
        PROVE  Keeps(stages, fed, hostRate, r, i)
    BY <1>1 DEF Kept
  <2>2. CASE i = at + 1
    BY <2>2, <1>2, <1>3, <1>7, KeepsNext
  <2>3. CASE i # at + 1
    <3>1. i <= at
      BY <2>3, <1>1, <1>2
    <3> QED
      BY <3>1, <1>7 DEF Kept
  <2> QED
    BY <2>2, <2>3
<1>10. DesignRate(E)'
  BY <1>1, <1>2 DEF DesignRate
<1>11. /\ fed' \in Nat /\ given' \in Nat /\ hostRate' \in Nat \ {0}
       /\ \A i \in 1 .. Len(stages') : Ahead(stages'[i])
  BY <1>1, <1>4, <1>5 DEF RateInv
<1> QED
  BY <1>6, <1>8, <1>9, <1>10, <1>11, Zenon DEF RateInv

LEMMA RateStep ==
  ASSUME NEW E, HalvingsDivide(E), IInv, RateInv(E),
         [ResamplerNext]_resamplerVars
  PROVE  RateInv(E)'
<1>1. ASSUME NEW rate \in HostRates, Prepare(rate) PROVE RateInv(E)'
  BY <1>1, RatePrepare
<1>2. CASE DesignHalving
  BY <1>2, RateHalving
<1>3. CASE DesignLast
  BY <1>3, RateLast
<1>4. ASSUME NEW n \in 0 .. MaxInput, Bypass(n) \/ Process(n) PROVE RateInv(E)'
  BY <1>4, RateBypass, RateProcess
<1>5. CASE StageStep
  BY <1>5, RateStageStep
<1>6. CASE NextStage
  BY <1>6, RateNextStage
<1>7. CASE Deliver
  BY <1>7, RateDeliver
<1>8. CASE UNCHANGED resamplerVars
  BY <1>8 DEF RateInv, DesignRate, RateLeft, resamplerVars, design
<1> QED
  BY <1>1, <1>2, <1>3, <1>4, <1>5, <1>6, <1>7, <1>8 DEF ResamplerNext

LEMMA RateGivesKept ==
  ASSUME NEW E, IInv, RateInv(E)
  PROVE  RateKept
<1> SUFFICES ASSUME Idle
    PROVE  /\ fed * Target <= given * hostRate
           /\ stages # <<>> => (given - Len(stages)) * hostRate < fed * Target
           /\ stages = <<>> => given = fed
  BY DEF RateKept
<1> DEFINE n == Len(stages)
<1>1. /\ at = 0 /\ inRate = 0 /\ n \in Nat /\ stages \in Seq(Stage)
      /\ hostRate \in Nat \ {0} /\ fed \in Nat /\ given \in Nat
  BY DEF Idle, IInv, CascadeInv, RateInv
<1>2. PICK r : /\ Chain(stages, hostRate, Target, r)
               /\ Kept(stages, 0, fed, hostRate, r)
  BY <1>1 DEF RateInv, RateLeft
<1>3. n + 1 \in 1 .. n + 1 /\ (n + 1) - 1 = n /\ r[n + 1] = Target
  BY <1>1, <1>2 DEF Chain
<1>4. Feed(stages, fed, n + 1) = given
  <2>1. Feed(stages, fed, n + 1) = given + 0
    BY <1>1, <1>3 DEF RateInv, Flow
  <2> QED
    BY <2>1, <1>1
<1>5. Keeps(stages, fed, hostRate, r, n + 1)
  BY <1>2, <1>3 DEF Kept
<1>6. /\ fed * Target <= given * hostRate
      /\ n + 1 > 1 => (given - n) * hostRate < fed * Target
  BY <1>3, <1>4, <1>5, Zenon DEF Keeps
<1>7. stages # <<>> => n + 1 > 1
  BY <1>1
<1>8. stages = <<>> => given = fed
  BY <1>4 DEF Feed
<1> QED
  BY <1>6, <1>7, <1>8

(* At host rates that the halvings divide, as those in use from 44100 to     *)
(* 384000 are for a target of 48000, the resampler keeps the rate: of what   *)
(* it took it has returned the share of the rates, never less, and less than *)
(* a sample for each stage more (Resampler.hpp:10-19).                      *)
THEOREM RatesKept ==
  ASSUME NEW E, HalvingsDivide(E)
  PROVE  ResamplerSpec => []RateKept
<1>1. ResamplerInit => RateInv(E)
  BY RateInit
<1>2. IInv /\ RateInv(E) /\ [ResamplerNext]_resamplerVars => RateInv(E)'
  BY RateStep
<1>3. IInv /\ RateInv(E) => RateKept
  BY RateGivesKept
<1> QED
  BY <1>1, <1>2, <1>3, InductiveInvariant, PTL DEF ResamplerSpec
===============================================================================
