-------------------------- MODULE BadInputsProofs --------------------------
(***************************************************************************)
(* Theorems about BadInputs, for every length of the channel, every number *)
(* of inputs and every content of the frames.                              *)
(***************************************************************************)
EXTENDS BadInputs, TLAPS, FiniteSetTheorems, SequenceTheorems

-----------------------------------------------------------------------------
\* Numbers.

\* Induction, for a set.
LEMMA CountingUp ==
  ASSUME NEW S, S \subseteq Nat, 0 \in S, \A n \in S : n + 1 \in S
  PROVE  S = Nat
<1> SUFFICES ASSUME Nat \ S # {} PROVE FALSE
  OBVIOUS
<1>1. PICK m \in Nat \ S : \A y \in Nat \ S : ~ (<<y, m>> \in OpToRel(<, Nat))
  BY NatLessThanWellFounded, WFMin
<1>2. m # 0 /\ m - 1 \in Nat
  OBVIOUS
<1>3. m - 1 \in Nat \ S
  <2>1. m - 1 \in S => m - 1 + 1 \in S
    OBVIOUS
  <2> QED  BY <1>2, <2>1
<1>4. <<m - 1, m>> \in OpToRel(<, Nat)
  BY <1>2 DEF OpToRel
<1> QED  BY <1>1, <1>3, <1>4

\* A function can be defined by its first value and a step.
LEMMA RecursionExists ==
  ASSUME NEW base \in Nat, NEW step \in [Nat \X Nat -> Nat]
  PROVE  \E f \in [Nat -> Nat] : f[0] = base /\ \A n \in Nat : f[n + 1] = step[<<n, f[n]>>]
<1> DEFINE Approx(n) == {g \in [0 .. n -> Nat] : /\ g[0] = base
                                               /\ \A k \in 0 .. (n - 1) : g[k + 1] = step[<<k, g[k]>>]}
<1>1. \A n \in Nat : Approx(n) # {}
  <2> DEFINE S == {n \in Nat : Approx(n) # {}}
  <2>1. 0 \in S
    <3>1. [k \in 0 .. 0 |-> base] \in Approx(0)
      OBVIOUS
    <3> QED  BY <3>1
  <2>2. ASSUME NEW n \in S PROVE n + 1 \in S
    <3>1. PICK g \in Approx(n) : TRUE
      OBVIOUS
    <3> DEFINE h == [k \in 0 .. (n + 1) |-> IF k = n + 1 THEN step[<<n, g[n]>>] ELSE g[k]]
    <3>2. g \in [0 .. n -> Nat] /\ g[0] = base
          /\ \A k \in 0 .. (n - 1) : g[k + 1] = step[<<k, g[k]>>]
      BY <3>1
    <3>3. n \in Nat /\ g[n] \in Nat /\ step[<<n, g[n]>>] \in Nat
      BY <3>2
    <3>4. h \in [0 .. (n + 1) -> Nat]
      BY <3>2, <3>3
    <3>5. h[0] = base
      BY <3>2, <3>3
    <3>6. \A k \in 0 .. n : h[k + 1] = step[<<k, h[k]>>]
      <4> TAKE k \in 0 .. n
      <4>1. CASE k = n
        <5>1. n # n + 1 /\ n \in 0 .. (n + 1) /\ n + 1 \in 0 .. (n + 1)
          BY <3>3
        <5>2. h[n + 1] = step[<<n, g[n]>>] /\ h[n] = g[n]
          BY <5>1
        <5> HIDE DEF h
        <5> QED  BY <4>1, <5>2
      <4>2. CASE k # n
        <5>1. k \in 0 .. (n - 1) /\ k \in 0 .. (n + 1) /\ k + 1 \in 0 .. (n + 1)
              /\ k # n + 1 /\ k + 1 # n + 1
          BY <3>3, <4>2
        <5>2. h[k + 1] = g[k + 1] /\ h[k] = g[k]
          BY <5>1
        <5> HIDE DEF h
        <5> QED  BY <3>2, <5>1, <5>2
      <4> QED  BY <4>1, <4>2
    <3>7. h \in Approx(n + 1)
      <4>1. n + 1 - 1 = n
        BY <3>3
      <4> HIDE DEF h
      <4> QED  BY <3>4, <3>5, <3>6, <4>1
    <3> HIDE DEF h, Approx
    <3> QED  BY <3>3, <3>7
  <2> HIDE DEF S
  <2>3. S = Nat
    <3>1. S \subseteq Nat
      BY DEF S
    <3> QED  BY <2>1, <2>2, <3>1, CountingUp
  <2> QED  BY <2>3 DEF S
<1>2. \A k \in Nat : \A m, n \in Nat : \A g \in Approx(m), h \in Approx(n) :
        k <= m /\ k <= n => g[k] = h[k]
  <2> DEFINE S == {k \in Nat : \A m, n \in Nat : \A g \in Approx(m), h \in Approx(n) :
                     k <= m /\ k <= n => g[k] = h[k]}
  <2>1. 0 \in S
    OBVIOUS
  <2>2. ASSUME NEW k \in S PROVE k + 1 \in S
    <3>0. ASSUME NEW m \in Nat, NEW n \in Nat, NEW g \in Approx(m), NEW h \in Approx(n),
                 k + 1 <= m, k + 1 <= n
          PROVE  g[k + 1] = h[k + 1]
      <4>1. k \in Nat /\ k \in 0 .. (m - 1) /\ k \in 0 .. (n - 1) /\ k <= m /\ k <= n
        BY <3>0
      <4>2. g[k] = h[k]
        BY <4>1
      <4>3. g[k + 1] = step[<<k, g[k]>>] /\ h[k + 1] = step[<<k, h[k]>>]
        BY <4>1
      <4> QED  BY <4>2, <4>3
    <3> HIDE DEF Approx
    <3> QED  BY <3>0
  <2> HIDE DEF S
  <2>3. S = Nat
    <3>1. S \subseteq Nat
      BY DEF S
    <3> QED  BY <2>1, <2>2, <3>1, CountingUp
  <2> QED  BY <2>3 DEF S
<1> DEFINE some(n) == CHOOSE g : g \in Approx(n)
           f       == [n \in Nat |-> some(n)[n]]
<1>3. \A n \in Nat : some(n) \in Approx(n)
  BY <1>1
<1>4. \A n \in Nat : some(n) \in [0 .. n -> Nat] /\ some(n)[0] = base
                      /\ \A k \in 0 .. (n - 1) : some(n)[k + 1] = step[<<k, some(n)[k]>>]
  BY <1>3
<1> HIDE DEF some
<1>5. f \in [Nat -> Nat]
  BY <1>4
<1>6. f[0] = base
  BY <1>4
<1>7. ASSUME NEW n \in Nat PROVE f[n + 1] = step[<<n, f[n]>>]
  <2>1. some(n + 1)[n + 1] = step[<<n, some(n + 1)[n]>>]
    <3>1. n + 1 \in Nat /\ n \in 0 .. (n + 1 - 1)
      OBVIOUS
    <3> HIDE DEF f
    <3>2. \A m \in Nat : \A k \in 0 .. (m - 1) : some(m)[k + 1] = step[<<k, some(m)[k]>>]
      BY <1>4
    <3> QED  BY <3>1, <3>2
  <2>2. some(n + 1)[n] = some(n)[n]
    <3>1. n + 1 \in Nat /\ n <= n + 1 /\ n <= n
      OBVIOUS
    <3> HIDE DEF Approx
    <3> QED  BY <1>2, <1>3, <3>1
  <2> QED  BY <2>1, <2>2
<1> HIDE DEF f
<1> QED  BY <1>5, <1>6, <1>7

\* The powers of a number.
LEMMA Powers ==
  ASSUME NEW b \in Nat
  PROVE  /\ Power(b) \in [Nat -> Nat]
         /\ Power(b)[0] = 1
         /\ \A n \in Nat : Power(b)[n + 1] = b * Power(b)[n]
<1> DEFINE Is(p) == p = [n \in Nat |-> IF n = 0 THEN 1 ELSE b * p[n - 1]]
           step  == [x \in Nat \X Nat |-> b * x[2]]
<1>1. step \in [Nat \X Nat -> Nat]
  <2>1. \A x \in Nat \X Nat : b * x[2] \in Nat
    OBVIOUS
  <2> QED  BY <2>1
<1> HIDE DEF step
<1>2. PICK f \in [Nat -> Nat] : f[0] = 1 /\ \A n \in Nat : f[n + 1] = step[<<n, f[n]>>]
  <2> DEFINE one == 1
  <2>1. one \in Nat
    OBVIOUS
  <2> HIDE DEF one
  <2>2. \E f \in [Nat -> Nat] : f[0] = one /\ \A n \in Nat : f[n + 1] = step[<<n, f[n]>>]
    BY <1>1, <2>1, RecursionExists
  <2> QED  BY <2>2 DEF one
<1>3. \A n \in Nat : f[n + 1] = b * f[n]
  BY <1>2 DEF step
<1>4. Is(f)
  <2>1. ASSUME NEW n \in Nat PROVE f[n] = IF n = 0 THEN 1 ELSE b * f[n - 1]
    <3>1. CASE n = 0
      BY <1>2, <3>1
    <3>2. CASE n # 0
      <4>1. n - 1 \in Nat /\ n - 1 + 1 = n
        BY <3>2
      <4> QED  BY <1>3, <3>2, <4>1
    <3> QED  BY <3>1, <3>2
  <2> QED  BY <1>2, <2>1
<1>5. Is(Power(b))
  <2>1. Power(b) = CHOOSE p : Is(p)
    BY DEF Power
  <2> HIDE DEF Is
  <2> QED  BY <1>4, <2>1
<1>6. /\ Power(b)[0] = 1
      /\ \A n \in Nat : Power(b)[n + 1] = b * Power(b)[n]
  <2>1. \A n \in Nat : Power(b)[n] = IF n = 0 THEN 1 ELSE b * Power(b)[n - 1]
    BY <1>5
  <2>2. \A n \in Nat : n + 1 \in Nat /\ n + 1 # 0 /\ n + 1 - 1 = n
    OBVIOUS
  <2> QED  BY <2>1, <2>2
<1>7. Power(b) \in [Nat -> Nat]
  <2> DEFINE S == {n \in Nat : Power(b)[n] \in Nat}
  <2>1. S = Nat
    <3>1. 0 \in S /\ \A n \in S : n + 1 \in S
      BY <1>6
    <3> HIDE DEF S
    <3>2. S \subseteq Nat
      BY DEF S
    <3> QED  BY <3>1, <3>2, CountingUp
  <2>2. \A n \in Nat : Power(b)[n] \in Nat
    BY <2>1
  <2>3. Power(b) = [n \in Nat |-> IF n = 0 THEN 1 ELSE b * Power(b)[n - 1]]
    BY <1>5
  <2> QED  BY <2>2, <2>3
<1> QED  BY <1>6, <1>7

\* The sums of the values of a function.
LEMMA SumsAddUp ==
  ASSUME NEW f \in [Nat -> Nat]
  PROVE  /\ Sums(f) \in [Nat -> Nat]
         /\ Sums(f)[0] = 0
         /\ \A n \in Nat : Sums(f)[n + 1] = Sums(f)[n] + f[n + 1]
<1> DEFINE Is(s) == s = [n \in Nat |-> IF n = 0 THEN 0 ELSE s[n - 1] + f[n]]
           step  == [x \in Nat \X Nat |-> x[2] + f[x[1] + 1]]
<1>1. step \in [Nat \X Nat -> Nat]
  <2>1. \A x \in Nat \X Nat : x[2] + f[x[1] + 1] \in Nat
    OBVIOUS
  <2> QED  BY <2>1
<1> HIDE DEF step
<1>2. PICK g \in [Nat -> Nat] : g[0] = 0 /\ \A n \in Nat : g[n + 1] = step[<<n, g[n]>>]
  <2> DEFINE zero == 0
  <2>1. zero \in Nat
    OBVIOUS
  <2> HIDE DEF zero
  <2>2. \E g \in [Nat -> Nat] : g[0] = zero /\ \A n \in Nat : g[n + 1] = step[<<n, g[n]>>]
    BY <1>1, <2>1, RecursionExists
  <2> QED  BY <2>2 DEF zero
<1>3. \A n \in Nat : g[n + 1] = g[n] + f[n + 1]
  BY <1>2 DEF step
<1>4. Is(g)
  <2>1. ASSUME NEW n \in Nat PROVE g[n] = IF n = 0 THEN 0 ELSE g[n - 1] + f[n]
    <3>1. CASE n = 0
      BY <1>2, <3>1
    <3>2. CASE n # 0
      <4>1. n - 1 \in Nat /\ n - 1 + 1 = n
        BY <3>2
      <4> QED  BY <1>3, <3>2, <4>1
    <3> QED  BY <3>1, <3>2
  <2> QED  BY <1>2, <2>1
<1>5. Is(Sums(f))
  <2>1. Sums(f) = CHOOSE s : Is(s)
    BY DEF Sums
  <2> HIDE DEF Is
  <2> QED  BY <1>4, <2>1
<1>6. /\ Sums(f)[0] = 0
      /\ \A n \in Nat : Sums(f)[n + 1] = Sums(f)[n] + f[n + 1]
  <2>1. \A n \in Nat : Sums(f)[n] = IF n = 0 THEN 0 ELSE Sums(f)[n - 1] + f[n]
    BY <1>5
  <2>2. \A n \in Nat : n + 1 \in Nat /\ n + 1 # 0 /\ n + 1 - 1 = n
    OBVIOUS
  <2> QED  BY <2>1, <2>2
<1>7. Sums(f) \in [Nat -> Nat]
  <2> DEFINE S == {n \in Nat : Sums(f)[n] \in Nat}
  <2>1. S = Nat
    <3>1. 0 \in S /\ \A n \in S : n + 1 \in S
      BY <1>6
    <3> HIDE DEF S
    <3>2. S \subseteq Nat
      BY DEF S
    <3> QED  BY <3>1, <3>2, CountingUp
  <2>2. \A n \in Nat : Sums(f)[n] \in Nat
    BY <2>1
  <2>3. Sums(f) = [n \in Nat |-> IF n = 0 THEN 0 ELSE Sums(f)[n - 1] + f[n]]
    BY <1>5
  <2> QED  BY <2>2, <2>3
<1> QED  BY <1>6, <1>7

-----------------------------------------------------------------------------
\* The weights of the moving average.

\* The weight of a sample is a number.
LEMMA WeightIsNat ==
  ASSUME NEW n \in Nat \ {0}, NEW j \in 1 .. n
  PROVE  Weight(n, j) \in Nat
<1>1. /\ Lookback - 1 \in Nat /\ Lookback + 1 \in Nat /\ n - 1 \in Nat /\ n - j \in Nat
      /\ j # 1 => j - 2 \in Nat
  BY AverageAssumption
<1>2. /\ Power(Lookback - 1) \in [Nat -> Nat] /\ Power(Lookback + 1) \in [Nat -> Nat]
  BY <1>1, Powers
<1>3. \A a, b \in Nat : 2 * a * b \in Nat
  OBVIOUS
<1> QED  BY <1>1, <1>2, <1>3 DEF Weight

\* With every further sample, the weights of those before are multiplied by
\* Lookback - 1, and the new one has twice the power of Lookback + 1.
LEMMA NextWeight ==
  ASSUME NEW n \in Nat \ {0}
  PROVE  /\ \A j \in 1 .. n : Weight(n + 1, j) = (Lookback - 1) * Weight(n, j)
         /\ Weight(n + 1, n + 1) = 2 * Power(Lookback + 1)[n - 1]
<1> DEFINE M == Lookback - 1
           P == Lookback + 1
<1>1. M \in Nat /\ P \in Nat /\ n - 1 \in Nat
  BY AverageAssumption
<1>2. /\ Power(M) \in [Nat -> Nat] /\ Power(M)[0] = 1
      /\ \A k \in Nat : Power(M)[k + 1] = M * Power(M)[k]
      /\ Power(P) \in [Nat -> Nat]
  BY <1>1, Powers
<1>3. /\ \A k : Weight(k, 1) = Power(M)[k - 1]
      /\ \A k, j : j # 1 => Weight(k, j) = 2 * Power(M)[k - j] * Power(P)[j - 2]
  BY DEF Weight
<1> HIDE DEF M, P
<1>4. ASSUME NEW j \in 1 .. n
      PROVE  Weight(n + 1, j) = M * Weight(n, j)
  <2>1. CASE j = 1
    <3>1. n + 1 - 1 = n - 1 + 1
      OBVIOUS
    <3>2. Power(M)[n - 1 + 1] = M * Power(M)[n - 1]
      BY <1>1, <1>2
    <3> QED  BY <1>3, <2>1, <3>1, <3>2
  <2>2. CASE j # 1
    <3>1. n - j \in Nat /\ n + 1 - j = n - j + 1 /\ j - 2 \in Nat
      BY <2>2
    <3>2. Power(M)[n + 1 - j] = M * Power(M)[n - j]
      BY <1>2, <3>1
    <3>3. \A a, b, c \in Nat : 2 * (a * b) * c = a * (2 * b * c)
      OBVIOUS
    <3>4. Power(M)[n - j] \in Nat /\ Power(P)[j - 2] \in Nat
      BY <1>2, <3>1
    <3>5. /\ Weight(n + 1, j) = 2 * Power(M)[n + 1 - j] * Power(P)[j - 2]
          /\ Weight(n, j) = 2 * Power(M)[n - j] * Power(P)[j - 2]
      BY <1>3, <2>2
    <3> QED  BY <1>1, <3>2, <3>3, <3>4, <3>5
  <2> QED  BY <2>1, <2>2
<1>5. Weight(n + 1, n + 1) = 2 * Power(P)[n - 1]
  <2>1. n + 1 # 1 /\ n + 1 - (n + 1) = 0 /\ n + 1 - 2 = n - 1
    OBVIOUS
  <2>2. Weight(n + 1, n + 1) = 2 * 1 * Power(P)[n - 1]
    BY <1>2, <1>3, <2>1
  <2>3. Power(P)[n - 1] \in Nat
    BY <1>1, <1>2
  <2> QED  BY <2>2, <2>3
<1> QED  BY <1>4, <1>5 DEF M, P

\* The weighted samples can be summed.
LEMMA WeightedIsNat ==
  ASSUME NEW samples \in Seq(Nat)
  PROVE  Weighted(samples) \in [Nat -> Nat]
<1>1. ASSUME NEW j \in DOMAIN samples
      PROVE  Weight(Len(samples), j) * samples[j] \in Nat
  <2>1. Len(samples) \in Nat \ {0} /\ j \in 1 .. Len(samples) /\ samples[j] \in Nat
    OBVIOUS
  <2>2. Weight(Len(samples), j) \in Nat
    BY <2>1, WeightIsNat
  <2> QED  BY <2>1, <2>2
<1> QED  BY <1>1 DEF Weighted

\* What one more sample makes of the sum.
LEMMA NextWeightedSum ==
  ASSUME NEW s \in Seq(Nat), s # <<>>, NEW x \in Nat
  PROVE  Sums(Weighted(Append(s, x)))[Len(s) + 1] =
           (Lookback - 1) * Sums(Weighted(s))[Len(s)] + 2 * Power(Lookback + 1)[Len(s) - 1] * x
<1> DEFINE M == Lookback - 1
           n == Len(s)
           t == Append(s, x)
<1>1. /\ M \in Nat /\ n \in Nat \ {0} /\ t \in Seq(Nat) /\ Len(t) = n + 1
      /\ DOMAIN s = 1 .. n /\ DOMAIN t = 1 .. (n + 1)
      /\ \A j \in 1 .. n : t[j] = s[j] /\ s[j] \in Nat
      /\ t[n + 1] = x
  BY AverageAssumption, EmptySeq, AppendProperties
<1>2. /\ Weighted(s) \in [Nat -> Nat] /\ Weighted(t) \in [Nat -> Nat]
  BY <1>1, WeightedIsNat
<1>3. /\ Sums(Weighted(s)) \in [Nat -> Nat] /\ Sums(Weighted(t)) \in [Nat -> Nat]
      /\ Sums(Weighted(s))[0] = 0 /\ Sums(Weighted(t))[0] = 0
      /\ \A k \in Nat : Sums(Weighted(s))[k + 1] = Sums(Weighted(s))[k] + Weighted(s)[k + 1]
      /\ \A k \in Nat : Sums(Weighted(t))[k + 1] = Sums(Weighted(t))[k] + Weighted(t)[k + 1]
  BY <1>2, SumsAddUp
<1> HIDE DEF t, n, M
<1>4. ASSUME NEW j \in 1 .. n
      PROVE  Weighted(t)[j] = M * Weighted(s)[j]
  <2>1. Weighted(t)[j] = Weight(n + 1, j) * s[j] /\ Weighted(s)[j] = Weight(n, j) * s[j]
    BY <1>1 DEF Weighted, n
  <2>2. Weight(n + 1, j) = M * Weight(n, j) /\ Weight(n, j) \in Nat /\ s[j] \in Nat
    BY <1>1, NextWeight, WeightIsNat DEF M
  <2>3. \A a, b, c \in Nat : (a * b) * c = a * (b * c)
    OBVIOUS
  <2> QED  BY <1>1, <2>1, <2>2, <2>3
<1>5. \A k \in Nat : k <= n => Sums(Weighted(t))[k] = M * Sums(Weighted(s))[k]
  <2> DEFINE S == {k \in Nat : k <= n => Sums(Weighted(t))[k] = M * Sums(Weighted(s))[k]}
  <2>1. 0 \in S
    BY <1>1, <1>3
  <2>2. ASSUME NEW k \in S PROVE k + 1 \in S
    <3>1. CASE k + 1 <= n
      <4>1. k \in Nat /\ k <= n /\ k + 1 \in 1 .. n
        BY <1>1, <3>1
      <4>2. Sums(Weighted(t))[k] = M * Sums(Weighted(s))[k]
        BY <4>1
      <4>3. Weighted(t)[k + 1] = M * Weighted(s)[k + 1]
        BY <1>4, <4>1
      <4>4. Sums(Weighted(s))[k] \in Nat /\ Weighted(s)[k + 1] \in Nat
        BY <1>2, <1>3, <4>1
      <4>5. \A b, c \in Nat : M * b + M * c = M * (b + c)
        BY <1>1
      <4>6. /\ Sums(Weighted(s))[k + 1] = Sums(Weighted(s))[k] + Weighted(s)[k + 1]
            /\ Sums(Weighted(t))[k + 1] = Sums(Weighted(t))[k] + Weighted(t)[k + 1]
        BY <1>3, <4>1
      <4>7. M * Sums(Weighted(s))[k] + M * Weighted(s)[k + 1]
              = M * (Sums(Weighted(s))[k] + Weighted(s)[k + 1])
        BY <4>4, <4>5, Zenon
      <4>8. Sums(Weighted(t))[k + 1] = M * Sums(Weighted(s))[k + 1]
        BY <4>2, <4>3, <4>6, <4>7, Zenon
      <4> QED  BY <4>1, <4>8
    <3> QED  BY <3>1
  <2> HIDE DEF S
  <2>3. S = Nat
    <3>1. S \subseteq Nat
      BY DEF S
    <3> QED  BY <2>1, <2>2, <3>1, CountingUp
  <2> QED  BY <2>3 DEF S
<1>6. Weighted(t)[n + 1] = 2 * Power(Lookback + 1)[n - 1] * x
  <2>1. Weighted(t)[n + 1] = Weight(n + 1, n + 1) * x
    BY <1>1 DEF Weighted
  <2> QED  BY <1>1, <2>1, NextWeight
<1>7. Sums(Weighted(t))[n + 1] = Sums(Weighted(t))[n] + Weighted(t)[n + 1]
  BY <1>1, <1>3
<1>8. Sums(Weighted(t))[n] = M * Sums(Weighted(s))[n]
  BY <1>1, <1>5
<1> QED  BY <1>6, <1>7, <1>8 DEF t, n, M

\* One sample is its own sum.
LEMMA FirstWeightedSum ==
  ASSUME NEW t \in Seq(Nat), Len(t) = 1
  PROVE  Sums(Weighted(t))[1] = t[1]
<1>1. 1 \in DOMAIN t /\ t[1] \in Nat
  <2>1. DOMAIN t = 1 .. Len(t)
    OBVIOUS
  <2>2. 1 \in DOMAIN t /\ 1 \in 1 .. Len(t)
    BY <2>1
  <2>3. t[1] \in Nat
    BY <2>2, ElementOfSeq
  <2> QED  BY <2>2, <2>3
<1>2. /\ Weighted(t) \in [Nat -> Nat]
      /\ Sums(Weighted(t))[0] = 0
      /\ Sums(Weighted(t))[0 + 1] = Sums(Weighted(t))[0] + Weighted(t)[0 + 1]
  BY WeightedIsNat, SumsAddUp
<1>3. Weighted(t)[1] = Weight(1, 1) * t[1]
  BY <1>1 DEF Weighted
<1>4. Weight(1, 1) = 1
  <2>1. Lookback - 1 \in Nat
    BY AverageAssumption
  <2>2. Power(Lookback - 1)[0] = 1
    BY <2>1, Powers
  <2> QED  BY <2>2 DEF Weight
<1>5. 0 + Weighted(t)[1] = t[1]
  BY <1>1, <1>3, <1>4
<1> QED  BY <1>2, <1>5

\* The average is a mean: the weights of n samples add up to the unit they are
\* counted in, so that none is lost with age.
THEOREM WeightsAddUp ==
  ASSUME NEW n \in Nat
  PROVE  Sums(Weighted([j \in 1 .. (n + 1) |-> 1]))[n + 1] = Power(Lookback + 1)[n]
<1> DEFINE Ones(k) == [j \in 1 .. (k + 1) |-> 1]
           Total(k) == Sums(Weighted(Ones(k)))[k + 1]
           M == Lookback - 1
           P == Power(Lookback + 1)
           S == {k \in Nat : Total(k) = P[k]}
<1>1. /\ M \in Nat /\ Lookback + 1 = M + 2
      /\ P \in [Nat -> Nat] /\ P[0] = 1 /\ \A k \in Nat : P[k + 1] = (M + 2) * P[k]
  <2>1. M \in Nat /\ Lookback + 1 = M + 2 /\ Lookback + 1 \in Nat
    BY AverageAssumption
  <2> QED  BY <2>1, Powers
<1>2. ASSUME NEW k \in Nat
      PROVE  /\ Ones(k) \in Seq(Nat) /\ Len(Ones(k)) = k + 1 /\ Ones(k) # <<>>
             /\ Ones(k + 1) = Append(Ones(k), 1)
  <2>1. Ones(k) \in Seq(Nat) /\ Len(Ones(k)) = k + 1
    OBVIOUS
  <2>2. Ones(k + 1) \in Seq(Nat) /\ Len(Ones(k + 1)) = k + 2
    OBVIOUS
  <2>3. /\ Append(Ones(k), 1) \in Seq(Nat) /\ Len(Append(Ones(k), 1)) = k + 2
        /\ \A j \in 1 .. (k + 2) : Append(Ones(k), 1)[j] = 1
    <3>1. \A j \in 1 .. (k + 1) : Ones(k)[j] = 1
      OBVIOUS
    <3> HIDE DEF Ones
    <3>2. /\ Append(Ones(k), 1) \in Seq(Nat) /\ Len(Append(Ones(k), 1)) = Len(Ones(k)) + 1
          /\ \A j \in 1 .. Len(Ones(k)) : Append(Ones(k), 1)[j] = Ones(k)[j]
          /\ Append(Ones(k), 1)[Len(Ones(k)) + 1] = 1
      BY <2>1, AppendProperties
    <3> QED  BY <2>1, <3>1, <3>2
  <2>4. \A j \in 1 .. (k + 2) : Ones(k + 1)[j] = 1
    OBVIOUS
  <2>5. Ones(k + 1) = Append(Ones(k), 1)
    <3> HIDE DEF Ones
    <3> QED  BY <2>2, <2>3, <2>4, SeqEqual
  <2>6. Ones(k) # <<>>
    <3> HIDE DEF Ones
    <3> QED  BY <2>1, EmptySeq
  <2> QED  BY <2>1, <2>5, <2>6
<1> HIDE DEF Ones
<1>3. 0 \in S
  <2>1. Ones(0) \in Seq(Nat) /\ Len(Ones(0)) = 1 /\ Ones(0)[1] = 1
    BY <1>2 DEF Ones
  <2>2. Total(0) = 1
    BY <2>1, FirstWeightedSum
  <2> QED  BY <1>1, <2>2
<1>4. ASSUME NEW k \in S
      PROVE  k + 1 \in S
  <2>1. k \in Nat /\ Total(k) = P[k] /\ P[k] \in Nat
    BY <1>1, <1>4
  <2>2. Sums(Weighted(Append(Ones(k), 1)))[Len(Ones(k)) + 1] =
          M * Sums(Weighted(Ones(k)))[Len(Ones(k))] + 2 * P[Len(Ones(k)) - 1] * 1
    BY <1>2, <2>1, NextWeightedSum
  <2>3. Len(Ones(k)) = k + 1 /\ Len(Ones(k)) - 1 = k
    BY <1>2, <2>1
  <2>4. Total(k + 1) = M * Total(k) + 2 * P[k] * 1
    BY <1>2, <2>1, <2>2, <2>3
  <2>5. M * P[k] + 2 * P[k] * 1 = (M + 2) * P[k]
    BY <1>1, <2>1
  <2>6. Total(k + 1) = P[k + 1]
    BY <1>1, <2>1, <2>4, <2>5
  <2> QED  BY <2>1, <2>6
<1> HIDE DEF S
<1>5. S = Nat
  <2>1. S \subseteq Nat
    BY DEF S
  <2> QED  BY <1>3, <1>4, <2>1, CountingUp
<1>6. Total(n) = P[n]
  BY <1>5 DEF S
<1> QED  BY <1>6 DEF Ones

-----------------------------------------------------------------------------
\* Statistics.

\* A likelihood is at most one.
LEMMA LikelihoodInUnit ==
  ASSUME NEW content
  PROVE  Likelihood(content) \in [Inputs -> {0, Unit}]
BY AverageAssumption DEF Likelihood

\* So are those of the frames that are published.
LEMMA LikelihoodsInUnit ==
  ASSUME NEW n \in 1 .. MaxFrames
  PROVE  /\ Likelihoods[n] \in [Inputs -> 0 .. Unit]
         /\ \A i \in Inputs : Likelihoods[n][i] \in {0, Unit}
<1>1. Likelihoods[n] \in [Inputs -> {0, Unit}]
  BY LikelihoodInUnit DEF Likelihoods
<1>2. {0, Unit} \subseteq 0 .. Unit
  BY AverageAssumption
<1> QED  BY <1>1, <1>2

\* An average of numbers up to u is not above u.
LEMMA AverageInBounds ==
  ASSUME NEW u \in Nat, NEW a \in 0 .. u, NEW s \in 0 .. u
  PROVE  ((Lookback - 1) * a + 2 * s) \div (Lookback + 1) \in 0 .. u
<1> DEFINE M == Lookback - 1
           D == Lookback + 1
           z == M * a + 2 * s
<1>1. M \in Nat /\ D = M + 2 /\ D \in Nat \ {0}
  BY AverageAssumption
<1>2. M * a \in Nat /\ M * u \in Nat /\ M * a <= M * u
  <2>1. \A m, x, y \in Nat : m * x \in Nat /\ (x <= y => m * x <= m * y)
    <3> TAKE m \in Nat, x \in Nat, y \in Nat
    <3>1. m * x \in Nat
      OBVIOUS
    <3>2. ASSUME x <= y PROVE m * x <= m * y
      <4>1. y - x \in Nat /\ y = x + (y - x)
        BY <3>2
      <4>2. m * (x + (y - x)) = m * x + m * (y - x) /\ m * (y - x) \in Nat
        BY <4>1
      <4> QED  BY <3>1, <4>1, <4>2
    <3> QED  BY <3>1, <3>2
  <2> HIDE DEF M
  <2> QED  BY <1>1, <2>1
<1>3. z \in Nat /\ z <= D * u
  <2>1. (M + 2) * u = M * u + 2 * u
    BY <1>1
  <2> HIDE DEF M, D
  <2> QED  BY <1>1, <1>2, <2>1
<1> HIDE DEF z, D, M
<1>4. z \div D \in Nat /\ z \div D <= u
  <2>1. \A d \in Nat \ {0} : \A x, y \in Nat : x \div d \in Nat /\ (x <= d * y => x \div d <= y)
    OBVIOUS
  <2> QED  BY <1>1, <1>3, <2>1
<1> QED  BY <1>4 DEF z, D, M

\* The average stays between 0 and one, and zeros stay zeros.
LEMMA NextAverageInUnit ==
  ASSUME NEW a \in [Inputs -> 0 .. Unit] \cup {NoAverage}, NEW sample \in [Inputs -> 0 .. Unit]
  PROVE  /\ NextAverage(a, sample) \in [Inputs -> 0 .. Unit]
         /\ \A i \in Inputs : sample[i] = 0 /\ (a # NoAverage => a[i] = 0)
              => NextAverage(a, sample)[i] = 0
<1> USE AverageAssumption
<1>1. CASE a = NoAverage
  BY <1>1 DEF NextAverage
<1>2. CASE a # NoAverage
  <2>1. NextAverage(a, sample) =
          [i \in Inputs |-> ((Lookback - 1) * a[i] + 2 * sample[i]) \div (Lookback + 1)]
    BY <1>2 DEF NextAverage
  <2>2. ASSUME NEW i \in Inputs
        PROVE  /\ ((Lookback - 1) * a[i] + 2 * sample[i]) \div (Lookback + 1) \in 0 .. Unit
               /\ sample[i] = 0 /\ a[i] = 0 =>
                    ((Lookback - 1) * a[i] + 2 * sample[i]) \div (Lookback + 1) = 0
    <3>1. a[i] \in 0 .. Unit /\ sample[i] \in 0 .. Unit /\ Lookback - 1 \in Nat
      BY <1>2
    <3>2. 0 \div (Lookback + 1) = 0
      OBVIOUS
    <3>3. sample[i] = 0 /\ a[i] = 0 => (Lookback - 1) * a[i] + 2 * sample[i] = 0
      BY <3>1
    <3> QED  BY <3>1, <3>2, <3>3, AverageInBounds
  <2> QED  BY <1>2, <2>1, <2>2
<1> QED  BY <1>1, <1>2

-----------------------------------------------------------------------------
\* The median.

\* The inputs of a row can be counted.
LEMMA PartsOfRow ==
  ASSUME NEW row \in Row
  PROVE  /\ Cardinality(Inputs) \in Nat
         /\ \A i \in Inputs : row[i] \in Int
         /\ \A S \in SUBSET Inputs : IsFiniteSet(S) /\ Cardinality(S) \in Nat
         /\ \A S, T \in SUBSET Inputs :
              S \subseteq T => /\ Cardinality(S) <= Cardinality(T)
                               /\ S # T => Cardinality(S) < Cardinality(T)
         /\ \A v : Below(row, v) \in SUBSET Inputs /\ NotAbove(row, v) \in SUBSET Inputs
<1>1. IsFiniteSet(Inputs) /\ Cardinality(Inputs) \in Nat
  BY InputsAssumption, FS_CardinalityType
<1>2. \A S \in SUBSET Inputs : IsFiniteSet(S) /\ Cardinality(S) \in Nat
  BY <1>1, FS_Subset, FS_CardinalityType
<1>3. ASSUME NEW T \in SUBSET Inputs, NEW S \in SUBSET T
      PROVE  Cardinality(S) <= Cardinality(T) /\ (S # T => Cardinality(S) < Cardinality(T))
  <2>1. Cardinality(S) <= Cardinality(T) /\ (Cardinality(T) = Cardinality(S) => T = S)
    BY <1>2, FS_Subset
  <2>2. Cardinality(S) \in Nat /\ Cardinality(T) \in Nat
    BY <1>2
  <2> QED  BY <2>1, <2>2
<1> QED  BY <1>1, <1>2, <1>3 DEF Row, Below, NotAbove

\* An input with the least value, among some.
LEMMA LeastOfInputs ==
  ASSUME NEW row \in Row, NEW S \in SUBSET Inputs, S # {}
  PROVE  \E i \in S : \A j \in S : row[i] <= row[j]
<1> DEFINE Count(i) == Cardinality(NotAbove(row, row[i]))
           C        == {Count(i) : i \in S}
<1>1. \A i \in S : row[i] \in Int /\ Count(i) \in Nat
  BY PartsOfRow
<1>2. C \subseteq Nat /\ C # {}
  <2> HIDE DEF Count
  <2> QED  BY <1>1
<1>3. PICK c \in C : \A d \in C : ~ (<<d, c>> \in OpToRel(<, Nat))
  BY <1>2, NatLessThanWellFounded, WFMin
<1>4. PICK i \in S : c = Count(i)
  OBVIOUS
<1>5. ASSUME NEW j \in S, row[j] < row[i]
      PROVE  FALSE
  <2>1. NotAbove(row, row[j]) \subseteq NotAbove(row, row[i])
    BY <1>1, <1>5, PartsOfRow DEF NotAbove
  <2>2. i \in NotAbove(row, row[i]) /\ i \notin NotAbove(row, row[j])
    <3>1. i \in Inputs /\ row[i] \in Int /\ row[j] \in Int
      BY <1>1
    <3>2. row[i] <= row[i] /\ ~ (row[i] <= row[j])
      BY <1>5, <3>1
    <3> QED  BY <3>1, <3>2, Zenon DEF NotAbove
  <2>3. Count(j) < Count(i)
    BY <2>1, <2>2, PartsOfRow
  <2>4. Count(j) \in Nat /\ Count(i) \in Nat /\ Count(j) \in C
    BY <1>1
  <2> HIDE DEF Count, C
  <2> QED  BY <1>3, <1>4, <2>3, <2>4 DEF OpToRel
<1>6. \A j \in S : row[i] <= row[j]
  BY <1>1, <1>5
<1> QED  BY <1>6

\* An input with the greatest value, among some.
LEMMA GreatestOfInputs ==
  ASSUME NEW row \in Row, NEW S \in SUBSET Inputs, S # {}
  PROVE  \E i \in S : \A j \in S : row[j] <= row[i]
<1> DEFINE opposite == [i \in Inputs |-> - row[i]]
<1>1. \A i \in Inputs : row[i] \in Int /\ opposite[i] = - row[i]
  BY PartsOfRow
<1>2. opposite \in Row
  BY <1>1 DEF Row
<1> HIDE DEF opposite
<1>3. PICK i \in S : \A j \in S : opposite[i] <= opposite[j]
  BY <1>2, LeastOfInputs
<1>4. \A j \in S : row[j] <= row[i]
  BY <1>1, <1>3
<1> QED  BY <1>4

\* What Nth chooses.
Fits(row, n, v) ==
  Cardinality(Below(row, v)) <= n /\ n < Cardinality(NotAbove(row, v))

\* A row that has n + 1 values has one at position n.
LEMMA PositionIsTaken ==
  ASSUME NEW row \in Row, NEW n \in Nat, n < Cardinality(Inputs)
  PROVE  \E i \in Inputs : Fits(row, n, row[i])
<1> DEFINE Enough == {i \in Inputs : n < Cardinality(NotAbove(row, row[i]))}
<1>1. Inputs # {}
  BY FS_EmptySet, PartsOfRow
<1>2. Enough # {}
  <2>1. PICK i \in Inputs : \A j \in Inputs : row[j] <= row[i]
    BY <1>1, GreatestOfInputs
  <2>2. NotAbove(row, row[i]) = Inputs
    BY <2>1 DEF NotAbove
  <2> QED  BY <2>2
<1>3. PICK i \in Enough : \A j \in Enough : row[i] <= row[j]
  BY <1>2, LeastOfInputs
<1>4. Cardinality(Below(row, row[i])) <= n
  <2>1. CASE Below(row, row[i]) = {}
    BY <2>1, FS_EmptySet
  <2>2. CASE Below(row, row[i]) # {}
    <3>1. PICK j \in Below(row, row[i]) : \A k \in Below(row, row[i]) : row[k] <= row[j]
      BY <2>2, GreatestOfInputs, PartsOfRow
    <3>2. j \in Inputs /\ row[j] < row[i] /\ row[j] \in Int /\ row[i] \in Int
      BY PartsOfRow DEF Below
    <3>3. Below(row, row[i]) \subseteq NotAbove(row, row[j])
      BY <3>1 DEF Below, NotAbove
    <3>4. j \notin Enough
      BY <1>3, <3>2
    <3>5. ~ (n < Cardinality(NotAbove(row, row[j])))
      BY <3>2, <3>4
    <3>6. Cardinality(Below(row, row[i])) <= Cardinality(NotAbove(row, row[j]))
      BY <3>3, PartsOfRow
    <3>7. Cardinality(Below(row, row[i])) \in Nat /\ Cardinality(NotAbove(row, row[j])) \in Nat
      BY PartsOfRow
    <3> QED  BY <3>5, <3>6, <3>7
  <2> QED  BY <2>1, <2>2
<1> QED  BY <1>3, <1>4 DEF Fits

\* It has only one.
LEMMA PositionIsUnique ==
  ASSUME NEW row \in Row, NEW n \in Nat, NEW u \in Int, NEW v \in Int,
         Fits(row, n, u), Fits(row, n, v)
  PROVE  u = v
<1>1. ASSUME NEW a \in Int, NEW b \in Int, a < b, Fits(row, n, a), Fits(row, n, b)
      PROVE  FALSE
  <2>1. NotAbove(row, a) \subseteq Below(row, b)
    BY <1>1, PartsOfRow DEF NotAbove, Below
  <2>2. Cardinality(NotAbove(row, a)) <= Cardinality(Below(row, b))
    BY <2>1, PartsOfRow
  <2>3. Cardinality(NotAbove(row, a)) \in Nat /\ Cardinality(Below(row, b)) \in Nat
    BY PartsOfRow
  <2> QED  BY <1>1, <2>2, <2>3 DEF Fits
<1> QED  BY <1>1

\* So Nth is the value that fits.
LEMMA NthIsIt ==
  ASSUME NEW row \in Row, NEW n \in Nat, NEW i \in Inputs, Fits(row, n, row[i])
  PROVE  Nth(row, n) = row[i]
<1>1. \A j \in Inputs : Fits(row, n, row[j]) => row[j] = row[i]
  BY PositionIsUnique, PartsOfRow
<1> QED  BY <1>1 DEF Nth, Fits

\* The positions there are have values.
LEMMA NthFits ==
  ASSUME NEW row \in Row, NEW n \in Nat, n < Cardinality(Inputs)
  PROVE  Nth(row, n) \in Int /\ Fits(row, n, Nth(row, n))
<1>1. PICK i \in Inputs : Fits(row, n, row[i])
  BY PositionIsTaken
<1>2. Nth(row, n) = row[i] /\ row[i] \in Int
  BY <1>1, NthIsIt, PartsOfRow
<1> QED  BY <1>1, <1>2

\* The inputs in the order in which a sort leaves their values.
Sorts(row, order) ==
  /\ order \in Bijection(1 .. Cardinality(Inputs), Inputs)
  /\ \A k, m \in 1 .. Cardinality(Inputs) : k <= m => row[order[k]] <= row[order[m]]

\* Nth is what median finds when it has sorted the row and takes an element.
LEMMA NthOfSorted ==
  ASSUME NEW row \in Row, NEW order, Sorts(row, order),
         NEW n \in Nat, n < Cardinality(Inputs)
  PROVE  Nth(row, n) = row[order[n + 1]]
<1> DEFINE N == Cardinality(Inputs)
           v == row[order[n + 1]]
<1>1. /\ N \in Nat /\ n + 1 \in 1 .. N
      /\ \A i \in Inputs : row[i] \in Int
      /\ order \in [1 .. N -> Inputs]
      /\ \A i \in Inputs : \E k \in 1 .. N : order[k] = i
      /\ \A k, m \in 1 .. N : order[k] = order[m] => k = m
      /\ \A k, m \in 1 .. N : k <= m => row[order[k]] <= row[order[m]]
  <2>1. N \in Nat /\ n + 1 \in 1 .. N /\ \A i \in Inputs : row[i] \in Int
    <3>1. N \in Nat /\ \A i \in Inputs : row[i] \in Int
      BY PartsOfRow
    <3> QED  BY <3>1
  <2>2. /\ order \in Injection(1 .. N, Inputs) /\ order \in Surjection(1 .. N, Inputs)
        /\ \A k, m \in 1 .. N : k <= m => row[order[k]] <= row[order[m]]
    BY Zenon DEF Sorts, Bijection
  <2> HIDE DEF N
  <2>3. /\ order \in [1 .. N -> Inputs]
        /\ \A k, m \in 1 .. N : order[k] = order[m] => k = m
    BY <2>2 DEF Injection, IsInjective
  <2>4. \A i \in Inputs : \E k \in 1 .. N : order[k] = i
    BY <2>2 DEF Surjection
  <2> QED  BY <2>1, <2>2, <2>3, <2>4, Zenon DEF N
<1>2. order[n + 1] \in Inputs /\ v \in Int
  BY <1>1
<1>3. Cardinality(Below(row, v)) <= n
  <2> DEFINE First == {order[k] : k \in 1 .. n}
             f     == [k \in 1 .. n |-> order[k]]
  <2>1. f \in Surjection(1 .. n, First)
    BY DEF Surjection
  <2>2. IsFiniteSet(1 .. n) /\ Cardinality(1 .. n) = n
    BY FS_Interval
  <2>3. IsFiniteSet(First) /\ Cardinality(First) <= n
    <3> HIDE DEF First, f
    <3> QED  BY <2>1, <2>2, FS_Surjection
  <2>4. Below(row, v) \subseteq First
    <3> SUFFICES ASSUME NEW i \in Inputs, row[i] < v PROVE i \in First
      BY DEF Below
    <3>1. PICK k \in 1 .. N : order[k] = i
      BY <1>1
    <3>2. ~ (n + 1 <= k)
      BY <1>1, <1>2, <3>1
    <3> QED  BY <1>1, <3>1, <3>2
  <2>5. Cardinality(Below(row, v)) <= Cardinality(First)
    <3> HIDE DEF First
    <3> QED  BY <2>3, <2>4, FS_Subset
  <2>6. Cardinality(Below(row, v)) \in Nat /\ Cardinality(First) \in Nat
    <3> HIDE DEF First
    <3> QED  BY <2>3, FS_CardinalityType, PartsOfRow
  <2> HIDE DEF First
  <2> QED  BY <2>3, <2>5, <2>6
<1>4. n < Cardinality(NotAbove(row, v))
  <2> DEFINE f == [k \in 1 .. (n + 1) |-> order[k]]
  <2>1. f \in Injection(1 .. (n + 1), NotAbove(row, v))
    <3>1. \A k \in 1 .. (n + 1) : k \in 1 .. N
      BY <1>1
    <3>2. \A k \in 1 .. (n + 1) : order[k] \in NotAbove(row, v)
      BY <1>1, <3>1 DEF NotAbove
    <3> QED  BY <1>1, <3>1, <3>2 DEF Injection, IsInjective
  <2>2. Cardinality(1 .. (n + 1)) = n + 1
    BY FS_Interval
  <2>3. IsFiniteSet(NotAbove(row, v)) /\ Cardinality(NotAbove(row, v)) \in Nat
    BY PartsOfRow
  <2>4. n + 1 <= Cardinality(NotAbove(row, v))
    <3> HIDE DEF f
    <3> QED  BY <2>1, <2>2, <2>3, FS_Injection
  <2> QED  BY <2>3, <2>4
<1> QED  BY <1>2, <1>3, <1>4, NthIsIt DEF Fits

\* TwiceMedian is twice what median returns: once the row is sorted, the element
\* in the middle, or the mean of the two there.
THEOREM MedianOfSorted ==
  ASSUME NEW row \in Row, NEW order, Sorts(row, order), Inputs # {}
  PROVE  TwiceMedian(row) = IF Cardinality(Inputs) % 2 = 0
                            THEN row[order[Mid]] + row[order[Mid + 1]]
                            ELSE 2 * row[order[Mid + 1]]
<1>1. Cardinality(Inputs) \in Nat \ {0}
  BY InputsAssumption, FS_CardinalityType, FS_EmptySet
<1>2. Mid \in Nat /\ Mid < Cardinality(Inputs)
  BY <1>1 DEF Mid
<1>3. Nth(row, Mid) = row[order[Mid + 1]]
  BY <1>2, NthOfSorted
<1>4. CASE Cardinality(Inputs) % 2 = 0
  <2>1. Mid - 1 \in Nat /\ Mid - 1 < Cardinality(Inputs) /\ Mid - 1 + 1 = Mid
    BY <1>1, <1>4 DEF Mid
  <2>2. Nth(row, Mid - 1) = row[order[Mid]]
    BY <2>1, NthOfSorted
  <2> QED  BY <1>1, <1>3, <1>4, <2>2 DEF TwiceMedian
<1> QED  BY <1>1, <1>3, <1>4 DEF TwiceMedian

\* At most half of the inputs of a row are below its median, and at most half
\* above.
THEOREM MedianSplits ==
  ASSUME NEW row \in Row
  PROVE  /\ 2 * Cardinality({i \in Inputs : 2 * row[i] < TwiceMedian(row)}) <= Cardinality(Inputs)
         /\ 2 * Cardinality({i \in Inputs : 2 * row[i] > TwiceMedian(row)}) <= Cardinality(Inputs)
<1> DEFINE N     == Cardinality(Inputs)
           Under == {i \in Inputs : 2 * row[i] < TwiceMedian(row)}
           Over  == {i \in Inputs : 2 * row[i] > TwiceMedian(row)}
<1>1. N \in Nat /\ Cardinality(Under) \in Nat /\ Cardinality(Over) \in Nat
  BY PartsOfRow
<1>2. CASE N = 0
  <2>1. Cardinality(Under) <= N /\ Cardinality(Over) <= N
    BY PartsOfRow
  <2> QED  BY <1>1, <1>2, <2>1
<1>3. ASSUME N # 0, NEW a \in Int, NEW b \in Int, NEW m \in Nat, NEW k \in Nat,
             Fits(row, m, a), Fits(row, k, b), a <= b, TwiceMedian(row) = a + b,
             2 * k <= N, N <= 2 * m + 2
      PROVE  2 * Cardinality(Under) <= N /\ 2 * Cardinality(Over) <= N
  <2>1. Cardinality(Under) <= k
    <3>1. Under \subseteq Below(row, b)
      BY <1>3, PartsOfRow DEF Below
    <3>2. Cardinality(Under) <= Cardinality(Below(row, b))
      BY <3>1, PartsOfRow
    <3>3. Cardinality(Below(row, b)) \in Nat /\ Cardinality(Below(row, b)) <= k
      BY <1>3, PartsOfRow DEF Fits
    <3> HIDE DEF Under
    <3> QED  BY <1>1, <3>2, <3>3
  <2>2. Cardinality(Over) + m + 1 <= N
    <3>1. Over \cap NotAbove(row, a) = {}
      BY <1>3, PartsOfRow DEF NotAbove
    <3>2. /\ IsFiniteSet(Over) /\ IsFiniteSet(NotAbove(row, a))
          /\ Cardinality(NotAbove(row, a)) \in Nat /\ m < Cardinality(NotAbove(row, a))
          /\ Over \cup NotAbove(row, a) \in SUBSET Inputs
      BY <1>3, PartsOfRow DEF Fits
    <3> HIDE DEF Over, N
    <3>3. Cardinality(Over \cup NotAbove(row, a)) = Cardinality(Over) + Cardinality(NotAbove(row, a))
      <4>1. Cardinality(Over \cap NotAbove(row, a)) = 0
        BY <3>1, FS_EmptySet
      <4>2. Cardinality(Over \cup NotAbove(row, a)) =
              Cardinality(Over) + Cardinality(NotAbove(row, a))
                - Cardinality(Over \cap NotAbove(row, a))
        BY <3>2, FS_Union
      <4> QED  BY <1>1, <3>2, <4>1, <4>2
    <3>4. Cardinality(Over \cup NotAbove(row, a)) <= N
      BY <3>2, PartsOfRow DEF N
    <3> QED  BY <1>1, <3>2, <3>3, <3>4
  <2> HIDE DEF Under, Over, N
  <2> QED  BY <1>1, <1>3, <2>1, <2>2
<1>4. CASE N # 0 /\ N % 2 = 0
  <2>1. Mid \in Nat /\ Mid - 1 \in Nat /\ 2 * Mid = N
    BY <1>1, <1>4 DEF Mid
  <2>2. /\ Nth(row, Mid) \in Int /\ Fits(row, Mid, Nth(row, Mid))
        /\ Nth(row, Mid - 1) \in Int /\ Fits(row, Mid - 1, Nth(row, Mid - 1))
    BY <1>1, <1>4, <2>1, NthFits
  <2>3. Nth(row, Mid - 1) <= Nth(row, Mid)
    <3> SUFFICES ASSUME Nth(row, Mid) < Nth(row, Mid - 1) PROVE FALSE
      BY <2>2
    <3>1. NotAbove(row, Nth(row, Mid)) \subseteq Below(row, Nth(row, Mid - 1))
      BY <2>2, PartsOfRow DEF NotAbove, Below
    <3>2. /\ Cardinality(NotAbove(row, Nth(row, Mid))) <= Cardinality(Below(row, Nth(row, Mid - 1)))
          /\ Cardinality(NotAbove(row, Nth(row, Mid))) \in Nat
          /\ Cardinality(Below(row, Nth(row, Mid - 1))) \in Nat
      BY <3>1, PartsOfRow
    <3> QED  BY <2>1, <2>2, <3>2 DEF Fits
  <2>4. TwiceMedian(row) = Nth(row, Mid - 1) + Nth(row, Mid)
    BY <1>4 DEF TwiceMedian
  <2>5. 2 * Mid <= N /\ N <= 2 * (Mid - 1) + 2
    BY <1>1, <2>1
  <2> QED  BY <1>3, <1>4, <2>1, <2>2, <2>3, <2>4, <2>5
<1>5. CASE N # 0 /\ N % 2 # 0
  <2>1. Mid \in Nat /\ N = 2 * Mid + 1
    BY <1>1, <1>5 DEF Mid
  <2>2. Nth(row, Mid) \in Int /\ Fits(row, Mid, Nth(row, Mid)) /\ Nth(row, Mid) <= Nth(row, Mid)
    BY <1>1, <2>1, NthFits
  <2>3. TwiceMedian(row) = Nth(row, Mid) + Nth(row, Mid)
    BY <1>5, <2>2 DEF TwiceMedian
  <2>4. 2 * Mid <= N /\ N <= 2 * Mid + 2
    BY <2>1
  <2> QED  BY <1>3, <1>5, <2>1, <2>2, <2>3, <2>4
<1> QED  BY <1>2, <1>4, <1>5

\* The value that more than half of the inputs have is at position n of the
\* sorted row, if n is in the middle.
LEMMA MajorityInTheMiddle ==
  ASSUME NEW row \in Row, NEW i \in Inputs, Majority(row, row[i]), NEW n \in Nat,
         2 * n <= Cardinality(Inputs), Cardinality(Inputs) <= 2 * n + 2
  PROVE  Nth(row, n) = row[i]
<1> DEFINE v     == row[i]
           Same  == {j \in Inputs : row[j] = v}
           Above == {j \in Inputs : row[j] > v}
           N     == Cardinality(Inputs)
<1>1. /\ \A j \in Inputs : row[j] \in Int
      /\ v \in Int /\ IsFiniteSet(Inputs) /\ N \in Nat
  BY InputsAssumption, FS_CardinalityType DEF Row
<1>2. ASSUME NEW S \in SUBSET Inputs
      PROVE  IsFiniteSet(S) /\ Cardinality(S) \in Nat
  BY <1>1, FS_Subset, FS_CardinalityType
<1>3. \A S, T \in SUBSET Inputs : S \subseteq T => Cardinality(S) <= Cardinality(T)
  BY <1>2, FS_Subset
<1>4. 2 * Cardinality(Same) > N
  BY DEF Majority
<1>5. Cardinality(Below(row, v)) + Cardinality(Same) <= N
  <2>1. Below(row, v) \cap Same = {}
    BY <1>1 DEF Below
  <2>2. Cardinality(Below(row, v) \cup Same) = Cardinality(Below(row, v)) + Cardinality(Same)
    <3>1. /\ IsFiniteSet(Below(row, v)) /\ Cardinality(Below(row, v)) \in Nat
          /\ IsFiniteSet(Same) /\ Cardinality(Same) \in Nat
      BY <1>2 DEF Below
    <3> HIDE DEF Same
    <3>2. Cardinality(Below(row, v) \cup Same) =
            Cardinality(Below(row, v)) + Cardinality(Same) - Cardinality(Below(row, v) \cap Same)
      BY <3>1, FS_Union
    <3>3. Cardinality(Below(row, v) \cap Same) = 0
      BY <2>1, FS_EmptySet
    <3> QED  BY <3>1, <3>2, <3>3
  <2> QED  BY <1>1, <1>3, <2>2 DEF Below
<1>6. Cardinality(NotAbove(row, v)) >= Cardinality(Same)
  BY <1>1, <1>3 DEF NotAbove
<1>7. Fits(row, n, v)
  BY <1>1, <1>2, <1>4, <1>5, <1>6 DEF Below, NotAbove, Fits
<1> QED  BY <1>7, NthIsIt

\* The value of the majority is the median.
LEMMA MajorityIsMedian ==
  ASSUME NEW row \in Row, NEW i \in Inputs, Majority(row, row[i])
  PROVE  i \notin Suspects(row)
<1>1. Cardinality(Inputs) \in Nat /\ Cardinality(Inputs) # 0 /\ row[i] \in Int
  BY InputsAssumption, FS_CardinalityType, FS_EmptySet DEF Row
<1>2. TwiceMedian(row) = 2 * row[i]
  <2>1. CASE Cardinality(Inputs) % 2 = 0
    <3>1. /\ Mid \in Nat /\ Mid - 1 \in Nat /\ 2 * Mid = Cardinality(Inputs)
      BY <1>1, <2>1 DEF Mid
    <3>2. Nth(row, Mid) = row[i]
      BY <1>1, <3>1, MajorityInTheMiddle
    <3>3. Nth(row, Mid - 1) = row[i]
      BY <1>1, <3>1, MajorityInTheMiddle
    <3> QED  BY <1>1, <2>1, <3>2, <3>3 DEF TwiceMedian
  <2>2. CASE Cardinality(Inputs) % 2 # 0
    <3>1. Mid \in Nat /\ Cardinality(Inputs) = 2 * Mid + 1
      BY <1>1, <2>2 DEF Mid
    <3>2. Nth(row, Mid) = row[i]
      BY <1>1, <3>1, MajorityInTheMiddle
    <3> QED  BY <1>1, <2>2, <3>2 DEF TwiceMedian
  <2> QED  BY <2>1, <2>2
<1>3. i \notin Deviating(row)
  BY <1>2 DEF Deviating
<1> QED  BY <1>3 DEF Suspects, Skipped, Suspicious

\* An input that agrees with the majority in all rows has likelihood 0.
LEMMA AgreeingAreClear ==
  ASSUME NEW n \in 1 .. MaxFrames, NEW i \in Agreeing[n]
  PROVE  Likelihoods[n][i] = 0
<1>1. i \in Inputs /\ Content[n].rows \in Seq(Row)
  BY FramesAssumption DEF Agreeing, FrameContent
<1>2. \A r \in DOMAIN Content[n].rows : i \notin Suspects(Content[n].rows[r])
  <2> TAKE r \in DOMAIN Content[n].rows
  <2>1. Content[n].rows[r] \in Row
    BY <1>1
  <2>2. Majority(Content[n].rows[r], Content[n].rows[r][i])
    BY DEF Agreeing
  <2> QED  BY <1>1, <2>1, <2>2, MajorityIsMedian
<1> QED  BY <1>1, <1>2 DEF Likelihoods, Likelihood

-----------------------------------------------------------------------------
\* The channel.

\* What a receiver has kept of q after one more message.
LEMMA LastOnesShifts ==
  ASSUME NEW S, NEW q \in Seq(S), Len(q) <= TxCapacity, NEW x \in S
  PROVE  /\ LastOnes(Append(q, x)) \in Seq(S)
         /\ Len(LastOnes(Append(q, x))) = IF Overflows(q) THEN Len(q) ELSE Len(q) + 1
         /\ \A n \in 1 .. Len(LastOnes(Append(q, x))) :
              LastOnes(Append(q, x))[n] =
                IF n = Len(LastOnes(Append(q, x))) THEN x
                ELSE IF Overflows(q) THEN q[n + 1] ELSE q[n]
<1> DEFINE all == Append(q, x)
<1>1. /\ all \in Seq(S) /\ Len(all) = Len(q) + 1 /\ Len(q) \in Nat
      /\ \A n \in 1 .. Len(q) : all[n] = q[n]
      /\ all[Len(q) + 1] = x
  BY AppendProperties
<1>2. TxCapacity \in Nat \ {0}
  BY TxAssumption
<1> HIDE DEF all
<1>3. CASE Overflows(q)
  <2>1. Len(q) = TxCapacity /\ Len(all) = TxCapacity + 1
    BY <1>1, <1>2, <1>3 DEF Overflows
  <2>2. LastOnes(all) = SubSeq(all, 2, Len(all))
    BY <1>2, <2>1 DEF LastOnes
  <2>3. \A n \in 2 .. Len(all) : all[n] \in S
    BY <1>1, <1>2, <2>1
  <2>4. /\ SubSeq(all, 2, Len(all)) \in Seq(S)
        /\ Len(SubSeq(all, 2, Len(all))) = TxCapacity
        /\ \A n \in 1 .. TxCapacity : SubSeq(all, 2, Len(all))[n] = all[n + 1]
    BY <1>1, <1>2, <2>1, <2>3, SubSeqProperties
  <2>5. \A n \in 1 .. TxCapacity : all[n + 1] = IF n = TxCapacity THEN x ELSE q[n + 1]
    BY <1>1, <1>2, <2>1
  <2> QED  BY <1>3, <2>1, <2>2, <2>4, <2>5 DEF all
<1>4. CASE ~ Overflows(q)
  <2>1. LastOnes(all) = all
    BY <1>1, <1>2, <1>4 DEF LastOnes, Overflows
  <2> QED  BY <1>1, <1>4, <2>1 DEF all
<1> QED  BY <1>3, <1>4

\* A queue holds the last frames of those that were published, in order.
Newest(q, last) ==
  /\ Len(q) <= last
  /\ \A n \in 1 .. Len(q) : q[n] = last - Len(q) + n

\* It still does after one more frame.
LEMMA PublishKeepsNewest ==
  ASSUME NEW last \in 0 .. (MaxFrames - 1), NEW q \in Seq(1 .. MaxFrames),
         Len(q) <= TxCapacity, Newest(q, last)
  PROVE  /\ LastOnes(Append(q, last + 1)) \in Seq(1 .. MaxFrames)
         /\ Len(LastOnes(Append(q, last + 1))) <= TxCapacity
         /\ Newest(LastOnes(Append(q, last + 1)), last + 1)
         /\ ~ Overflows(q) => Len(LastOnes(Append(q, last + 1))) = Len(q) + 1
<1> DEFINE next == LastOnes(Append(q, last + 1))
<1>1. /\ last + 1 \in 1 .. MaxFrames /\ last \in Nat
      /\ Len(q) \in Nat /\ TxCapacity \in Nat \ {0}
      /\ Len(q) <= last /\ \A n \in 1 .. Len(q) : q[n] = last - Len(q) + n
  BY FramesAssumption, TxAssumption DEF Newest
<1>2. /\ next \in Seq(1 .. MaxFrames)
      /\ Len(next) = IF Overflows(q) THEN Len(q) ELSE Len(q) + 1
      /\ \A n \in 1 .. Len(next) :
           next[n] = IF n = Len(next) THEN last + 1
                     ELSE IF Overflows(q) THEN q[n + 1] ELSE q[n]
  <2>1. last + 1 \in 1 .. MaxFrames
    BY <1>1
  <2> QED  BY <2>1, LastOnesShifts
<1> HIDE DEF next
<1>3. Len(next) <= TxCapacity
  BY <1>1, <1>2 DEF Overflows
<1>4. Newest(next, last + 1)
  <2>1. ASSUME NEW n \in 1 .. Len(next)
        PROVE  next[n] = last + 1 - Len(next) + n
    <3>1. CASE n = Len(next)
      BY <1>1, <1>2, <3>1
    <3>2. CASE n # Len(next) /\ Overflows(q)
      <4>1. Len(next) = Len(q) /\ n + 1 \in 1 .. Len(q) /\ next[n] = q[n + 1]
        BY <1>1, <1>2, <3>2
      <4>2. q[n + 1] = last - Len(q) + (n + 1)
        BY <1>1, <4>1
      <4> QED  BY <1>1, <4>1, <4>2
    <3>3. CASE n # Len(next) /\ ~ Overflows(q)
      <4>1. Len(next) = Len(q) + 1 /\ n \in 1 .. Len(q) /\ next[n] = q[n]
        BY <1>1, <1>2, <3>3
      <4> QED  BY <1>1, <4>1
    <3> QED  BY <3>1, <3>2, <3>3
  <2>2. Len(next) <= last + 1
    BY <1>1, <1>2
  <2> QED  BY <2>1, <2>2 DEF Newest
<1> QED  BY <1>2, <1>3, <1>4 DEF next

\* And after the receiver has taken the oldest one, which is the frame that
\* follows those it had.
LEMMA TakeKeepsNewest ==
  ASSUME NEW last \in Nat, NEW q \in Seq(1 .. MaxFrames), q # <<>>, Newest(q, last)
  PROVE  /\ Head(q) \in 1 .. MaxFrames /\ Head(q) = last - Len(q) + 1
         /\ Tail(q) \in Seq(1 .. MaxFrames) /\ Len(Tail(q)) = Len(q) - 1
         /\ Newest(Tail(q), last)
<1> DEFINE t == Tail(q)
<1>1. /\ Head(q) \in 1 .. MaxFrames /\ t \in Seq(1 .. MaxFrames)
      /\ Len(t) = Len(q) - 1 /\ \A n \in 1 .. Len(t) : t[n] = q[n + 1]
  BY HeadTailProperties
<1>2. Len(q) \in Nat \ {0} /\ Head(q) = q[1]
  BY EmptySeq
<1> HIDE DEF t
<1>3. Newest(t, last)
  BY <1>1, <1>2 DEF Newest
<1> QED  BY <1>1, <1>2, <1>3 DEF Newest, t

-----------------------------------------------------------------------------
\* The task.

\* What the receiver keeps are the newest frames; unless it lagged, they follow
\* the frame in hand, which follows those in the average.
ReceiverInv ==
  /\ Listening => Newest(queue, published)
  /\ ~ Listening => queue = <<>> /\ ~ lagged
  /\ pc \in {"poll", "sleep", "subscribe"} => averaged = <<>>
  /\ pc = "recv" /\ ~ lagged => published = since + Len(averaged) + Len(queue)
  /\ pc = "update" => frame = since + Len(averaged) + 1
  /\ pc = "update" /\ ~ lagged => published = since + Len(averaged) + 1 + Len(queue)

TaskInv == TypeOK /\ ReceiverInv /\ AveragesWithoutGap /\ AgreeingStayClear

\* Publishing, and the steps of the task on its receiver.
LEMMA StepKeepsReceiver ==
  ASSUME TypeOK, ReceiverInv, AveragesWithoutGap, [Next]_vars
  PROVE  TypeOK' /\ ReceiverInv' /\ AveragesWithoutGap'
<1> USE DEF TypeOK, ReceiverInv
<1>1. ASSUME UNCHANGED <<published, pc, queue, lagged, frame, averaged, since, average>>,
             created' \in BOOLEAN, app' \in {"starting", "receiving", "running", "exited"}
      PROVE  TypeOK' /\ ReceiverInv' /\ AveragesWithoutGap'
  BY <1>1 DEF AveragesWithoutGap, Listening
<1>2. CASE Publish
  <2>1. /\ published' = published + 1 /\ published < MaxFrames
        /\ UNCHANGED <<created, pc, frame, averaged, since, average, app>>
        /\ IF Listening
           THEN /\ queue' = LastOnes(Append(queue, published + 1))
                /\ lagged' = (lagged \/ Overflows(queue))
           ELSE UNCHANGED <<queue, lagged>>
    BY <1>2 DEF Publish
  <2>2. published \in 0 .. (MaxFrames - 1) /\ MaxFrames \in Nat
    BY <2>1, FramesAssumption
  <2>3. CASE Listening
    <3>1. /\ queue' \in Seq(1 .. MaxFrames) /\ Len(queue') <= TxCapacity
          /\ Newest(queue', published')
          /\ ~ Overflows(queue) => Len(queue') = Len(queue) + 1
      BY <2>1, <2>2, <2>3, PublishKeepsNewest
    <3>2. lagged' \in BOOLEAN /\ (~ lagged' => ~ lagged /\ ~ Overflows(queue))
      BY <2>1, <2>3 DEF Overflows
    <3>3. Len(queue) \in Nat /\ Len(averaged) \in Nat
      OBVIOUS
    <3>4. TypeOK'
      BY <2>1, <2>2, <3>1, <3>2
    <3>5. ReceiverInv'
      <4>1. UNCHANGED <<pc, frame, averaged, since>> /\ pc \in {"recv", "update"}
        BY <2>1, <2>3 DEF Listening
      <4>2. ~ lagged' => /\ pc = "recv" => published' = since + Len(averaged) + Len(queue')
                         /\ pc = "update" => published' = since + Len(averaged) + 1 + Len(queue')
        <5>1. published' = published + 1 /\ since \in Nat /\ published \in Nat
          BY <2>1, <2>2
        <5>2. ~ lagged' => ~ lagged /\ Len(queue') = Len(queue) + 1
          BY <3>1, <3>2
        <5>3. ~ lagged => /\ pc = "recv" => published = since + Len(averaged) + Len(queue)
                          /\ pc = "update" => published = since + Len(averaged) + 1 + Len(queue)
          OBVIOUS
        <5> HIDE DEF ReceiverInv, TypeOK
        <5> QED  BY <3>3, <5>1, <5>2, <5>3
      <4> QED  BY <3>1, <4>1, <4>2 DEF Listening
    <3> QED  BY <2>1, <3>4, <3>5 DEF AveragesWithoutGap
  <2>4. CASE ~ Listening
    BY <2>1, <2>2, <2>4 DEF Listening, AveragesWithoutGap
  <2> QED  BY <2>3, <2>4
<1>3. CASE Poll \/ Wake
  BY <1>3 DEF Poll, Wake, Listening, AveragesWithoutGap
<1>4. CASE Subscribe
  <2>1. /\ pc' = "recv" /\ since' = published /\ pc = "subscribe"
        /\ UNCHANGED <<created, published, queue, lagged, frame, averaged, average, app>>
    BY <1>4 DEF Subscribe
  <2>2. queue = <<>> /\ averaged = <<>> /\ ~ lagged /\ Len(<<>>) = 0 /\ published \in Nat
    BY <2>1, FramesAssumption DEF Listening
  <2>3. ReceiverInv'
    BY <2>1, <2>2 DEF Listening, Newest
  <2> QED  BY <2>1, <2>2, <2>3 DEF AveragesWithoutGap
<1>5. CASE Recv
  <2>1. /\ pc = "recv" /\ ~ lagged /\ queue # <<>>
        /\ frame' = Head(queue) /\ queue' = Tail(queue) /\ pc' = "update"
        /\ UNCHANGED <<created, published, lagged, averaged, since, average, app>>
    BY <1>5 DEF Recv
  <2>2. published \in Nat /\ Newest(queue, published) /\ Len(queue) \in Nat
        /\ Len(averaged) \in Nat /\ since \in Nat /\ TxCapacity \in Nat
    BY <2>1, FramesAssumption, TxAssumption DEF Listening
  <2>3. /\ frame' \in 1 .. MaxFrames /\ frame' = published - Len(queue) + 1
        /\ queue' \in Seq(1 .. MaxFrames) /\ Len(queue') = Len(queue) - 1
        /\ Newest(queue', published)
    BY <2>1, <2>2, TakeKeepsNewest
  <2>4. TypeOK'
    BY <2>1, <2>2, <2>3
  <2>5. ReceiverInv'
    BY <2>1, <2>2, <2>3 DEF Listening
  <2> QED  BY <2>1, <2>4, <2>5 DEF AveragesWithoutGap
<1>6. CASE RecvLagged
  <2>1. <<>> \in Seq(1 .. MaxFrames) /\ Len(<<>>) <= TxCapacity
    BY TxAssumption
  <2>2. /\ pc' = "ended" /\ queue' = <<>> /\ lagged' = FALSE
        /\ UNCHANGED <<created, published, frame, averaged, since, average, app>>
    BY <1>6 DEF RecvLagged
  <2>3. TypeOK' /\ ReceiverInv'
    BY <2>1, <2>2 DEF Listening
  <2> QED  BY <2>2, <2>3 DEF AveragesWithoutGap
<1>7. CASE Update
  <2>1. /\ pc = "update" /\ pc' = "recv" /\ frame' = 0
        /\ averaged' = Append(averaged, frame)
        /\ average' = NextAverage(average, Likelihoods[frame])
        /\ UNCHANGED <<created, published, queue, lagged, since, app>>
    BY <1>7 DEF Update
  <2>2. /\ frame \in 1 .. MaxFrames /\ frame = since + Len(averaged) + 1
        /\ Len(averaged) \in Nat /\ since \in Nat /\ MaxFrames \in Nat
    BY <2>1, FramesAssumption
  <2>3. /\ averaged' \in Seq(1 .. MaxFrames) /\ Len(averaged') = Len(averaged) + 1
        /\ \A n \in 1 .. Len(averaged) : averaged'[n] = averaged[n]
        /\ averaged'[Len(averaged) + 1] = frame
    BY <2>1, <2>2, AppendProperties
  <2>4. Likelihoods[frame] \in [Inputs -> 0 .. Unit]
    BY <2>2, LikelihoodsInUnit
  <2>5. average' \in [Inputs -> 0 .. Unit] \cup {NoAverage}
    BY <2>1, <2>4, NextAverageInUnit
  <2>6. TypeOK'
    BY <2>1, <2>2, <2>3, <2>5
  <2>7. ReceiverInv'
    BY <2>1, <2>2, <2>3 DEF Listening
  <2>8. AveragesWithoutGap'
    <3>1. DOMAIN averaged = 1 .. Len(averaged) /\ DOMAIN averaged' = 1 .. Len(averaged')
      BY <2>3
    <3>2. ASSUME NEW n \in DOMAIN averaged'
          PROVE  averaged'[n] = since + n
      <4>1. CASE n = Len(averaged) + 1
        BY <2>2, <2>3, <4>1
      <4>2. CASE n # Len(averaged) + 1
        <5>1. n \in 1 .. Len(averaged)
          BY <2>2, <2>3, <3>1, <4>2
        <5> QED  BY <2>3, <3>1, <5>1 DEF AveragesWithoutGap
      <4> QED  BY <4>1, <4>2
    <3> QED  BY <2>1, <3>2 DEF AveragesWithoutGap
  <2> QED  BY <2>6, <2>7, <2>8
<1>8. CreateBuffer \/ BindSocket \/ BindHttp \/ BindFails \/ Exit \/ ExitWithAnother
        \/ Exited \/ UNCHANGED vars
      => /\ UNCHANGED <<published, pc, queue, lagged, frame, averaged, since, average>>
         /\ created' \in BOOLEAN /\ app' \in {"starting", "receiving", "running", "exited"}
  BY DEF CreateBuffer, BindSocket, BindHttp, BindFails, Exit, ExitWithAnother, Exited, vars
<1> QED  BY <1>1, <1>2, <1>3, <1>4, <1>5, <1>6, <1>7, <1>8 DEF Next, TaskStep, RunnerStep

\* Only Update touches the average, and it adds the frame in hand.
LEMMA StepKeepsClear ==
  ASSUME TypeOK, ReceiverInv, AgreeingStayClear, [Next]_vars
  PROVE  AgreeingStayClear'
<1>1. CASE Update
  <2>1. /\ pc = "update"
        /\ averaged' = Append(averaged, frame)
        /\ average' = NextAverage(average, Likelihoods[frame])
    BY <1>1 DEF Update
  <2>2. /\ frame \in 1 .. MaxFrames /\ averaged \in Seq(1 .. MaxFrames) /\ Len(averaged) \in Nat
        /\ average \in [Inputs -> 0 .. Unit] \cup {NoAverage}
    BY <2>1, FramesAssumption DEF TypeOK, ReceiverInv
  <2>3. /\ Len(averaged') = Len(averaged) + 1 /\ DOMAIN averaged' = 1 .. Len(averaged')
        /\ \A n \in 1 .. Len(averaged) : averaged'[n] = averaged[n]
        /\ averaged'[Len(averaged) + 1] = frame
    BY <2>1, <2>2, AppendProperties
  <2>4. Likelihoods[frame] \in [Inputs -> 0 .. Unit]
    BY <2>2, LikelihoodsInUnit
  <2>5. ASSUME NEW i \in Inputs, \A n \in DOMAIN averaged' : i \in Agreeing[averaged'[n]]
        PROVE  average'[i] = 0
    <3>1. i \in Agreeing[frame] /\ \A n \in DOMAIN averaged : i \in Agreeing[averaged[n]]
      BY <2>2, <2>3, <2>5
    <3>2. Likelihoods[frame][i] = 0
      BY <2>2, <3>1, AgreeingAreClear
    <3>3. average # NoAverage => average[i] = 0
      BY <3>1 DEF AgreeingStayClear
    <3> QED  BY <2>1, <2>2, <2>4, <3>2, <3>3, NextAverageInUnit
  <2> QED  BY <2>5 DEF AgreeingStayClear
<1>2. CASE UNCHANGED <<averaged, average>>
  BY <1>2 DEF AgreeingStayClear
<1>3. Update \/ UNCHANGED <<averaged, average>>
  BY DEF Next, TaskStep, RunnerStep, CreateBuffer, Publish, Poll, Wake, Subscribe, Recv,
         RecvLagged, BindSocket, BindHttp, BindFails, Exit, ExitWithAnother, Exited, vars
<1> QED  BY <1>1, <1>2, <1>3

\* The division by Lookback + 1 has no rest if what it divides has none.
LEMMA DivisionIsExact ==
  ASSUME NEW m \in Nat, NEW d \in Nat \ {0}, NEW k \in Nat, NEW q \in Nat, NEW r \in Nat
  PROVE  /\ (m * (q * (d * k)) + 2 * (r * (d * k))) \div d = (m * q + 2 * r) * k
         /\ m * (q * (d * k)) + 2 * (r * (d * k)) = d * ((m * q + 2 * r) * k)
<1> DEFINE e == (m * q + 2 * r) * k
<1>1. m * (q * (d * k)) + 2 * (r * (d * k)) = d * e
  OBVIOUS
<1>2. e \in Nat
  <2>1. m * q + 2 * r \in Nat
    OBVIOUS
  <2> QED  BY <2>1
<1>3. \A x \in Nat : (d * x) \div d = x
  OBVIOUS
<1> HIDE DEF e
<1>4. (d * e) \div d = e
  BY <1>2, <1>3
<1> QED  BY <1>1, <1>4 DEF e

\* The average is that of the samples, and can be divided by Lookback + 1 as
\* often as there are frames to come.
AverageInv ==
  /\ averaged = <<>> => average = NoAverage
  /\ averaged # <<>> =>
       /\ average # NoAverage
       /\ Len(averaged) <= MaxFrames
       /\ \A i \in Inputs : \E q \in Nat :
            average[i] = q * Power(Lookback + 1)[MaxFrames - Len(averaged)]
  /\ AverageIsWeighted

\* A likelihood can be divided as often.
LEMMA LikelihoodsDivide ==
  ASSUME ExactUnits, NEW n \in 1 .. MaxFrames, NEW i \in Inputs, NEW k \in 0 .. (MaxFrames - 1)
  PROVE  \E r \in Nat : Likelihoods[n][i] = r * Power(Lookback + 1)[k]
<1> DEFINE p == Power(Lookback + 1)[k]
<1>1. p \in Nat \ {0}
  <2> DEFINE P == Power(Lookback + 1)
             S == {j \in Nat : P[j] \in Nat \ {0}}
  <2>0. Lookback + 1 \in Nat \ {0} /\ Lookback + 1 \in Nat
    BY AverageAssumption
  <2>1. P[0] = 1 /\ \A j \in Nat : P[j + 1] = (Lookback + 1) * P[j]
    BY <2>0, Powers
  <2>2. \A a, b \in Nat \ {0} : a * b \in Nat \ {0}
    OBVIOUS
  <2> HIDE DEF P
  <2>3. S = Nat
    <3>1. 0 \in S /\ \A j \in S : j + 1 \in S
      BY <2>0, <2>1, <2>2
    <3>2. S \subseteq Nat
      OBVIOUS
    <3> HIDE DEF S
    <3> QED  BY <3>1, <3>2, CountingUp
  <2>4. k \in Nat
    BY FramesAssumption
  <2> QED  BY <2>3, <2>4 DEF P
<1>2. Unit % p = 0
  <2>1. k + 1 \in 1 .. MaxFrames /\ k + 1 - 1 = k
    BY FramesAssumption
  <2> QED  BY <2>1 DEF ExactUnits
<1> HIDE DEF p
<1>3. Unit = (Unit \div p) * p /\ Unit \div p \in Nat
  <2>1. Unit \in Nat
    BY AverageAssumption
  <2> HIDE DEF p
  <2>2. \A d \in Nat \ {0}, u \in Nat : u % d = 0 => u = (u \div d) * d /\ u \div d \in Nat
    OBVIOUS
  <2> QED  BY <1>1, <1>2, <2>1, <2>2
<1>4. 0 = 0 * p
  BY <1>1
<1>5. Likelihoods[n][i] \in {0, Unit}
  BY LikelihoodsInUnit
<1> QED  BY <1>3, <1>4, <1>5 DEF p

\* Update adds the frame to the samples.
LEMMA SamplesGrow ==
  ASSUME averaged \in Seq(1 .. MaxFrames), NEW f \in 1 .. MaxFrames,
         averaged' = Append(averaged, f), NEW i \in Inputs
  PROVE  /\ SamplesOf(i) \in Seq(Nat) /\ Len(SamplesOf(i)) = Len(averaged)
         /\ SamplesOf(i)' = Append(SamplesOf(i), Likelihoods[f][i])
         /\ Likelihoods[f][i] \in Nat
<1>1. /\ Len(averaged) \in Nat /\ DOMAIN averaged = 1 .. Len(averaged)
      /\ Len(averaged') = Len(averaged) + 1 /\ DOMAIN averaged' = 1 .. (Len(averaged) + 1)
      /\ \A n \in 1 .. Len(averaged) : averaged[n] \in 1 .. MaxFrames
      /\ \A n \in 1 .. Len(averaged) : averaged'[n] = averaged[n]
      /\ averaged'[Len(averaged) + 1] = f
  <2>1. /\ averaged' \in Seq(1 .. MaxFrames) /\ Len(averaged') = Len(averaged) + 1
        /\ \A n \in 1 .. Len(averaged) : averaged'[n] = averaged[n]
        /\ averaged'[Len(averaged) + 1] = f
    BY AppendProperties
  <2>2. DOMAIN averaged' = 1 .. Len(averaged')
    BY <2>1
  <2>3. /\ Len(averaged) \in Nat /\ DOMAIN averaged = 1 .. Len(averaged)
    OBVIOUS
  <2>4. \A n \in 1 .. Len(averaged) : averaged[n] \in 1 .. MaxFrames
    BY ElementOfSeq
  <2> QED  BY <2>1, <2>2, <2>3, <2>4, Zenon
<1>2. \A n \in 1 .. MaxFrames : Likelihoods[n][i] \in Nat
  BY LikelihoodsInUnit, AverageAssumption
<1>3. SamplesOf(i) \in Seq(Nat) /\ Len(SamplesOf(i)) = Len(averaged)
  BY <1>1, <1>2 DEF SamplesOf
<1>4. SamplesOf(i)' = [n \in 1 .. (Len(averaged) + 1) |-> Likelihoods[averaged'[n]][i]]
  BY <1>1 DEF SamplesOf, Likelihoods
<1>5. SamplesOf(i)' = Append(SamplesOf(i), Likelihoods[f][i])
  <2> DEFINE a == Append(SamplesOf(i), Likelihoods[f][i])
  <2>1. /\ a \in Seq(Nat) /\ Len(a) = Len(averaged) + 1
        /\ \A n \in 1 .. Len(averaged) : a[n] = SamplesOf(i)[n]
        /\ a[Len(averaged) + 1] = Likelihoods[f][i]
    BY <1>2, <1>3, AppendProperties
  <2>2. \A n \in 1 .. Len(averaged) : SamplesOf(i)[n] = Likelihoods[averaged[n]][i]
    BY <1>1 DEF SamplesOf
  <2>3. SamplesOf(i)' \in Seq(Nat) /\ Len(SamplesOf(i)') = Len(averaged) + 1
    BY <1>1, <1>2, <1>4
  <2>4. \A n \in 1 .. (Len(averaged) + 1) : SamplesOf(i)'[n] = a[n]
    <3> TAKE n \in 1 .. (Len(averaged) + 1)
    <3>1. CASE n = Len(averaged) + 1
      BY <1>1, <1>4, <2>1, <3>1
    <3>2. CASE n # Len(averaged) + 1
      <4>1. n \in 1 .. Len(averaged)
        BY <1>1, <3>2
      <4> QED  BY <1>1, <1>4, <2>1, <2>2, <4>1
    <3> QED  BY <3>1, <3>2
  <2> HIDE DEF a
  <2>5. SamplesOf(i)' = a
    BY <2>1, <2>3, <2>4, SeqEqual
  <2> QED  BY <2>5 DEF a
<1> QED  BY <1>2, <1>3, <1>5

\* With the first frame, and with every further one.
LEMMA StepKeepsAverage ==
  ASSUME ExactUnits, TypeOK, ReceiverInv, AverageInv, [Next]_vars
  PROVE  AverageInv'
<1> DEFINE P == Power(Lookback + 1)
           D == Lookback + 1
           M == Lookback - 1
           n == Len(averaged)
<1>0. /\ M \in Nat /\ D \in Nat \ {0} /\ P \in [Nat -> Nat] /\ P[0] = 1
      /\ \A k \in Nat : P[k + 1] = D * P[k]
  <2>1. M \in Nat /\ D \in Nat \ {0} /\ D \in Nat
    BY AverageAssumption
  <2> QED  BY <2>1, Powers
<1>1. CASE Update
  <2>1. /\ pc = "update"
        /\ averaged' = Append(averaged, frame)
        /\ average' = NextAverage(average, Likelihoods[frame])
    BY <1>1 DEF Update
  <2>2. /\ frame \in 1 .. MaxFrames /\ averaged \in Seq(1 .. MaxFrames) /\ n \in Nat
        /\ n + 1 <= MaxFrames /\ MaxFrames \in Nat
        /\ average \in [Inputs -> 0 .. Unit] \cup {NoAverage}
    BY <2>1, FramesAssumption DEF TypeOK, ReceiverInv
  <2>3. averaged' # <<>> /\ Len(averaged') = n + 1
    BY <2>1, <2>2, AppendProperties, EmptySeq
  <2>4. Likelihoods[frame] \in [Inputs -> 0 .. Unit] /\ Unit \in Nat
    BY <2>2, LikelihoodsInUnit, AverageAssumption
  <2>5. average' \in [Inputs -> 0 .. Unit] /\ average' # NoAverage
    <3>1. average' \in [Inputs -> 0 .. Unit]
      BY <2>1, <2>2, <2>4, NextAverageInUnit
    <3>2. average' \in [Inputs -> Nat]
      BY <2>4, <3>1
    <3> QED  BY <3>1, <3>2, NoAverageAssumption
  <2>6. ASSUME NEW i \in Inputs
        PROVE  /\ \E q \in Nat : average'[i] = q * P[MaxFrames - (n + 1)]
               /\ average'[i] * P[n] = Sums(Weighted(SamplesOf(i)'))[n + 1]
    <3> DEFINE x == Likelihoods[frame][i]
               s == SamplesOf(i)
    <3>1. /\ s \in Seq(Nat) /\ Len(s) = n /\ SamplesOf(i)' = Append(s, x) /\ x \in Nat
      BY <2>1, <2>2, SamplesGrow
    <3>2. CASE averaged = <<>>
      <4>1. average' = Likelihoods[frame] /\ n = 0
        BY <2>1, <3>2 DEF AverageInv, NextAverage
      <4>2. \E q \in Nat : x = q * P[MaxFrames - 1]
        <5>1. MaxFrames - 1 \in 0 .. (MaxFrames - 1)
          BY <2>2, <4>1
        <5> QED  BY <2>2, <5>1, LikelihoodsDivide
      <4>3. Sums(Weighted(SamplesOf(i)'))[1] = x
        <5> DEFINE t == SamplesOf(i)'
        <5>1. t \in Seq(Nat) /\ Len(t) = 1 /\ t[1] = x
          BY <3>1, <4>1, AppendProperties
        <5> HIDE DEF t
        <5>2. Sums(Weighted(t))[1] = x
          BY <5>1, FirstWeightedSum
        <5> QED  BY <5>2 DEF t
      <4>4. P[n] = 1 /\ average'[i] * 1 = x
        <5>1. P[n] = 1 /\ average'[i] = x /\ x \in Nat
          BY <1>0, <3>1, <4>1, Zenon
        <5> QED  BY <5>1
      <4> QED  BY <4>1, <4>2, <4>3, <4>4
    <3>3. CASE averaged # <<>>
      <4> DEFINE k == P[MaxFrames - (n + 1)]
      <4>1. /\ n # 0 /\ n - 1 \in Nat /\ MaxFrames - (n + 1) \in Nat
            /\ MaxFrames - n = MaxFrames - (n + 1) + 1
            /\ MaxFrames - n \in 0 .. (MaxFrames - 1) /\ n = n - 1 + 1
        BY <2>2, <3>3, EmptySeq
      <4>2. P[MaxFrames - n] = D * k /\ k \in Nat /\ P[n] = D * P[n - 1] /\ P[n - 1] \in Nat
        BY <1>0, <4>1
      <4>3. PICK q \in Nat : average[i] = q * (D * k)
        BY <3>3, <4>2 DEF AverageInv
      <4>4. PICK r \in Nat : x = r * (D * k)
        BY <2>2, <4>1, <4>2, LikelihoodsDivide
      <4>5. average'[i] = (M * average[i] + 2 * x) \div D
        BY <2>1, <3>3 DEF NextAverage, AverageInv
      <4>6. average[i] * P[n - 1] = Sums(Weighted(s))[n]
        BY <3>3 DEF AverageInv, AverageIsWeighted
      <4>7. Sums(Weighted(SamplesOf(i)'))[n + 1] = M * Sums(Weighted(s))[n] + 2 * P[n - 1] * x
        <5>1. s # <<>>
          BY <3>1, <4>1
        <5> HIDE DEF s, x
        <5> QED  BY <3>1, <5>1, NextWeightedSum
      <4>8. average[i] \in Nat
        BY <2>2, <2>4, <3>3 DEF AverageInv
      <4> HIDE DEF M, D, P, n, k, x, s
      <4> DEFINE z == M * average[i] + 2 * x
      <4>9. average'[i] = (M * q + 2 * r) * k /\ z = D * average'[i]
        <5>1. z = M * (q * (D * k)) + 2 * (r * (D * k))
          BY <4>3, <4>4
        <5>2. average'[i] = z \div D
          BY <4>5
        <5> HIDE DEF z
        <5> DEFINE Exact(m, d, c, e, f) ==
                     /\ (m * (e * (d * c)) + 2 * (f * (d * c))) \div d = (m * e + 2 * f) * c
                     /\ m * (e * (d * c)) + 2 * (f * (d * c)) = d * ((m * e + 2 * f) * c)
        <5>3. \A m \in Nat, d \in Nat \ {0}, c, e, f \in Nat : Exact(m, d, c, e, f)
          BY DivisionIsExact
        <5>4. Exact(M, D, k, q, r)
          <6> HIDE DEF Exact
          <6> QED  BY <1>0, <4>2, <5>3
        <5>5. /\ (M * (q * (D * k)) + 2 * (r * (D * k))) \div D = (M * q + 2 * r) * k
              /\ M * (q * (D * k)) + 2 * (r * (D * k)) = D * ((M * q + 2 * r) * k)
          BY <5>4
        <5> HIDE DEF Exact
        <5> QED  BY <5>1, <5>2, <5>5, Zenon
      <4>10. M * q + 2 * r \in Nat /\ average'[i] \in Nat
        <5>1. M * q + 2 * r \in Nat
          BY <1>0
        <5>2. \A a, b \in Nat : a * b \in Nat
          OBVIOUS
        <5> QED  BY <4>2, <4>9, <5>1, <5>2
      <4>11. average'[i] * P[n] = z * P[n - 1]
        <5>1. \A a, b, c \in Nat : a * (b * c) = (b * a) * c
          OBVIOUS
        <5> HIDE DEF z
        <5> QED  BY <1>0, <4>2, <4>9, <4>10, <5>1
      <4>12. z * P[n - 1] = M * (average[i] * P[n - 1]) + 2 * P[n - 1] * x
        <5> DEFINE Distributed(a, b, c, d) == (a * b + 2 * c) * d = a * (b * d) + 2 * d * c
        <5>1. \A a, b, c, d \in Nat : Distributed(a, b, c, d)
          OBVIOUS
        <5>2. Distributed(M, average[i], x, P[n - 1])
          <6> HIDE DEF Distributed
          <6> QED  BY <1>0, <3>1, <4>2, <4>8, <5>1
        <5> QED  BY <5>2
      <4>13. average'[i] * P[n] = Sums(Weighted(SamplesOf(i)'))[n + 1]
        BY <4>6, <4>7, <4>11, <4>12
      <4> QED  BY <4>9, <4>10, <4>13 DEF k
    <3> QED  BY <3>2, <3>3
  <2>7. n + 1 - 1 = n
    BY <2>2
  <2>8. /\ \A i \in Inputs : \E q \in Nat : average'[i] = q * P[MaxFrames - Len(averaged')]
        /\ AverageIsWeighted'
    BY <2>3, <2>6, <2>7 DEF AverageIsWeighted
  <2> QED  BY <2>2, <2>3, <2>5, <2>8 DEF AverageInv
<1>2. CASE UNCHANGED <<averaged, average>>
  BY <1>2 DEF AverageInv, AverageIsWeighted, SamplesOf
<1>3. Update \/ UNCHANGED <<averaged, average>>
  BY DEF Next, TaskStep, RunnerStep, CreateBuffer, Publish, Poll, Wake, Subscribe, Recv,
         RecvLagged, BindSocket, BindHttp, BindFails, Exit, ExitWithAnother, Exited, vars
<1> QED  BY <1>1, <1>2, <1>3

\* The invariant holds before the task has found its buffer.
LEMMA InitEstablishesTaskInv == Init => TaskInv
<1> SUFFICES ASSUME Init PROVE TaskInv
  OBVIOUS
<1>1. TypeOK
  <2>1. <<>> \in Seq(1 .. MaxFrames) /\ Len(<<>>) <= TxCapacity
    BY TxAssumption
  <2>2. 0 \in 0 .. MaxFrames
    BY FramesAssumption
  <2> QED  BY <2>1, <2>2 DEF Init, TypeOK
<1> QED  BY <1>1 DEF Init, TaskInv, ReceiverInv, Listening, AveragesWithoutGap, AgreeingStayClear

\* Every step keeps it.
LEMMA NextKeepsTaskInv == TaskInv /\ [Next]_vars => TaskInv'
BY StepKeepsReceiver, StepKeepsClear DEF TaskInv

\* The moving average has no gap, and does not suspect those who agree, however
\* short the channel and however slow the task.
THEOREM Invariance == Spec => []TaskInv
BY InitEstablishesTaskInv, NextKeepsTaskInv, PTL DEF Spec

\* The task keeps its types.
THEOREM TaskTypeCorrect == Spec => []TypeOK
<1>1. TaskInv => TypeOK
  BY DEF TaskInv
<1> QED  BY <1>1, Invariance, PTL

\* No published frame is missing from the average, or in it twice.
THEOREM NoGapInAverage == Spec => []AveragesWithoutGap
<1>1. TaskInv => AveragesWithoutGap
  BY DEF TaskInv
<1> QED  BY <1>1, Invariance, PTL

\* Inputs with the value of the majority are never suspected.
THEOREM AgreeingNeverSuspected == Spec => []AgreeingStayClear
<1>1. TaskInv => AgreeingStayClear
  BY DEF TaskInv
<1> QED  BY <1>1, Invariance, PTL

\* No average leaves the numbers from 0 to one, and every frame keeps in it the
\* weight its age gives it, the oldest one the rest, for every number of frames
\* and every lookback, once the units are fine enough to write the average.
THEOREM AverageOfAllFrames ==
  ASSUME ExactUnits
  PROVE  Spec => []AverageIsWeighted
<1>1. Init => AverageInv
  BY DEF Init, AverageInv, AverageIsWeighted
<1>2. TaskInv /\ AverageInv /\ [Next]_vars => AverageInv'
  BY StepKeepsAverage DEF TaskInv
<1>3. AverageInv => AverageIsWeighted
  BY DEF AverageInv
<1> QED  BY <1>1, <1>2, <1>3, Invariance, PTL DEF Spec

=============================================================================
