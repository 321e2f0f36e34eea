----------------------------- MODULE BTestProofs -----------------------------
(***************************************************************************)
(* Proofs about Bits and BTest, for words of any width, any test range,    *)
(* whatever random_val returns and however often the alarm goes off.       *)
(***************************************************************************)
EXTENDS BTest, FiniteSetTheorems, SequenceTheorems, WellFoundedInduction, TLAPS

(***************************************************************************)
(* Powers of two, counted as sets of subsets.                              *)
(***************************************************************************)
LEMMA LeastOf ==
  ASSUME NEW A, A \subseteq Nat, A # {}
  PROVE  \E m \in A : \A k \in A : m <= k
<1> DEFINE less == OpToRel(<, Nat)
<1>1. \E m \in A : \A k \in A : <<k, m>> \notin less
  BY NatLessThanWellFounded, WFMin
<1>2. ASSUME NEW k \in A, NEW m \in A, k < m PROVE <<k, m>> \in less
  BY <1>2, Zenon DEF OpToRel
<1>3. \A k \in A, m \in A : (k < m) => <<k, m>> \in less
  BY <1>2
<1> HIDE DEF less
<1>4. PICK m \in A : \A k \in A : <<k, m>> \notin less
  BY <1>1
<1>5. \A k \in A : ~(k < m)
  BY <1>3, <1>4
<1>6. QED
  BY <1>5

LEMMA Subsets ==
  ASSUME NEW n \in Nat
  PROVE  /\ IsFiniteSet(1 .. n) /\ IsFiniteSet(SUBSET (1 .. n))
         /\ Cardinality(SUBSET (1 .. n)) = 2^n
<1>1. IsFiniteSet(1 .. n) /\ Cardinality(1 .. n) = n
  BY FS_Interval
<1>2. QED
  BY <1>1, FS_SUBSET

LEMMA PowerType ==
  ASSUME NEW n \in Nat
  PROVE  2^n \in Nat /\ 2^n > 0
<1>1. 2^n \in Nat
  BY Subsets, FS_CardinalityType
<1>2. SUBSET (1 .. n) # {}
  OBVIOUS
<1>3. 2^n # 0
  BY <1>2, Subsets, FS_EmptySet
<1>4. QED
  BY <1>1, <1>3

LEMMA PowerNext ==
  ASSUME NEW n \in Nat
  PROVE  2^(n + 1) = 2 * 2^n
<1> DEFINE A == 1 .. n
           with == {B \cup {n + 1} : B \in SUBSET A}
           f == [B \in SUBSET A |-> B \cup {n + 1}]
<1>1. SUBSET (1 .. n + 1) = (SUBSET A) \cup with
  <2>1. ASSUME NEW B \in SUBSET (1 .. n + 1), n + 1 \in B PROVE B \in with
    <3>1. B \ {n + 1} \in SUBSET A /\ B = (B \ {n + 1}) \cup {n + 1}
      BY <2>1
    <3>2. QED
      BY <3>1
  <2>2. ASSUME NEW B \in SUBSET (1 .. n + 1), n + 1 \notin B PROVE B \in SUBSET A
    BY <2>2
  <2>3. ASSUME NEW B \in (SUBSET A) \cup with PROVE B \in SUBSET (1 .. n + 1)
    BY <2>3
  <2>4. QED
    BY <2>1, <2>2, <2>3
<1>2. \A B \in SUBSET A : n + 1 \notin B
  OBVIOUS
<1> HIDE DEF A
<1>3. (SUBSET A) \cap with = {}
  BY <1>2
<1>4. f \in Bijection(SUBSET A, with)
  <2>1. f \in [SUBSET A -> with] /\ \A B \in SUBSET A : f[B] = B \cup {n + 1}
    OBVIOUS
  <2>2. ASSUME NEW B \in SUBSET A, NEW C \in SUBSET A, f[B] = f[C] PROVE B = C
    <3>1. B \cup {n + 1} = C \cup {n + 1}
      BY <2>1, <2>2
    <3>2. QED
      BY <1>2, <3>1
  <2>3. \A t \in with : \E B \in SUBSET A : f[B] = t
    BY <2>1
  <2>4. QED
    BY <2>1, <2>2, <2>3, Zenon DEF Bijection, Injection, Surjection, IsInjective
<1> HIDE DEF f, with
<1>5. /\ IsFiniteSet(SUBSET A) /\ Cardinality(SUBSET A) = 2^n
      /\ Cardinality(SUBSET (1 .. n + 1)) = 2^(n + 1)
  <2>1. n + 1 \in Nat
    OBVIOUS
  <2>2. QED
    BY <2>1, Subsets DEF A
<1>6. IsFiniteSet(with) /\ Cardinality(with) = 2^n
  <2>1. ExistsBijection(SUBSET A, with)
    BY <1>4 DEF ExistsBijection
  <2>2. QED
    BY <1>5, <2>1, FS_Bijection
<1>7. Cardinality(SUBSET (1 .. n + 1)) = 2^n + 2^n - Cardinality((SUBSET A) \cap with)
  BY <1>1, <1>5, <1>6, FS_Union
<1>8. Cardinality((SUBSET A) \cap with) = 0
  BY <1>3, FS_EmptySet
<1>9. QED
  BY <1>5, <1>7, <1>8, PowerType

LEMMA PowerZero == 2^0 = 1 /\ 2^1 = 2
  BY PowerNext

LEMMA PowerSum ==
  ASSUME NEW a \in Nat, NEW b \in Nat
  PROVE  2^(a + b) = 2^a * 2^b
<1> DEFINE wrong == {n \in Nat : 2^(a + n) # 2^a * 2^n}
<1>1. ASSUME wrong # {} PROVE FALSE
  <2>1. PICK n \in wrong : \A k \in wrong : n <= k
    BY <1>1, LeastOf
  <2>2. n # 0
    <3>1. a + 0 = a /\ 2^a * 1 = 2^a
      BY PowerType
    <3>2. 0 \notin wrong
      BY <3>1, PowerZero
    <3>3. QED
      BY <2>1, <3>2
  <2> DEFINE m == n - 1
  <2>3. m \in Nat /\ n = m + 1 /\ m \notin wrong
    BY <2>1, <2>2
  <2> HIDE DEF m
  <2>4. 2^(a + m) = 2^a * 2^m
    BY <2>3
  <2>5. 2^((a + m) + 1) = 2 * 2^(a + m) /\ 2^(m + 1) = 2 * 2^m
    BY <2>3, PowerNext
  <2>6. 2^a \in Nat /\ 2^m \in Nat
    BY <2>3, PowerType
  <2>7. 2 * (2^a * 2^m) = 2^a * (2 * 2^m)
    BY <2>6
  <2>8. (a + m) + 1 = a + n
    BY <2>3
  <2>9. 2^(a + n) = 2^a * 2^n
    BY <2>3, <2>4, <2>5, <2>7, <2>8
  <2>10. QED
    BY <2>1, <2>9
<1>2. QED
  BY <1>1

LEMMA PowerLess ==
  ASSUME NEW a \in Nat, NEW b \in Nat, a < b
  PROVE  2 * 2^a <= 2^b
<1> DEFINE wrong == {n \in Nat : a < n /\ ~(2 * 2^a <= 2^n)}
<1>1. ASSUME wrong # {} PROVE FALSE
  <2>1. PICK n \in wrong : \A k \in wrong : n <= k
    BY <1>1, LeastOf
  <2> DEFINE m == n - 1
  <2>2. m \in Nat /\ n = m + 1 /\ m \notin wrong
    BY <2>1
  <2> HIDE DEF m
  <2>3. 2^n = 2 * 2^m /\ 2^m \in Nat /\ 2^m > 0 /\ 2^a \in Nat
    BY <2>2, PowerNext, PowerType
  <2>4. m # a
    BY <2>1, <2>3
  <2>5. 2 * 2^a <= 2^m
    BY <2>1, <2>2, <2>4
  <2>6. QED
    BY <2>1, <2>3, <2>5
<1>2. QED
  BY <1>1

LEMMA PowerMonotone ==
  ASSUME NEW a \in Nat, NEW b \in Nat, a <= b
  PROVE  2^a <= 2^b
<1>1. 2^a \in Nat /\ 2^b \in Nat
  BY PowerType
<1>2. CASE a = b
  BY <1>1, <1>2
<1>3. CASE a < b
  BY <1>1, <1>3, PowerLess
<1>4. QED
  BY <1>2, <1>3

(* A word has at least eight bits.                                         *)
Half == 2^(W - 1)

LEMMA WidthFacts ==
  /\ W \in Nat /\ W >= 8 /\ W - 1 \in Nat
  /\ Half \in Nat /\ Half >= 128 /\ 2^W = 2 * Half
  /\ TMin = -Half /\ TMax = Half - 1 /\ Word = -Half .. Half - 1
<1>1. K \in Nat /\ K >= 3
  BY WidthAssumption
<1>2. 2^3 = 8 /\ 2^7 = 128
  OBVIOUS
<1>3. W \in Nat /\ W >= 8
  <2>1. 3 \in Nat /\ 2^K \in Nat /\ 2^3 <= 2^K
    BY <1>1, PowerType, PowerMonotone
  <2>2. QED
    BY <1>2, <2>1 DEF W
<1> DEFINE n == W - 1
<1>4. n \in Nat /\ n >= 7 /\ W = n + 1
  BY <1>3
<1> HIDE DEF n
<1>5. 2^n \in Nat /\ 2^n >= 128 /\ 2^(n + 1) = 2 * 2^n
  BY <1>2, <1>4, PowerType, PowerMonotone, PowerNext
<1>6. Half = 2^n
  BY DEF n, Half
<1>7. Half \in Nat /\ Half >= 128 /\ 2^W = 2 * Half
  BY <1>4, <1>5, <1>6
<1>8. TMin = -Half /\ TMax = Half - 1 /\ Word = -Half .. Half - 1
  BY DEF Half, TMin, TMax, Word
<1>9. QED
  BY <1>3, <1>7, <1>8

(***************************************************************************)
(* Division.                                                               *)
(***************************************************************************)
LEMMA Times ==
  ASSUME NEW p \in Nat, NEW a \in Int, NEW b \in Int, a <= b
  PROVE  p * a <= p * b /\ p * a \in Int /\ p * b \in Int
<1> DEFINE d == b - a
<1>1. d \in Nat /\ b = a + d
  OBVIOUS
<1> HIDE DEF d
<1>2. p * d \in Nat /\ p * (a + d) = p * a + p * d /\ p * a \in Int
  BY <1>1
<1>3. QED
  BY <1>1, <1>2

LEMMA DivFacts ==
  ASSUME NEW x \in Int, NEW p \in Nat, p > 0
  PROVE  /\ x \div p \in Int /\ (x % p) \in Int
         /\ x = p * (x \div p) + (x % p) /\ 0 <= (x % p) /\ (x % p) < p
  OBVIOUS

LEMMA DivIs ==
  ASSUME NEW x \in Int, NEW p \in Nat, p > 0, NEW q \in Int, p * q <= x, x < p * q + p
  PROVE  x \div p = q
<1> DEFINE d == x \div p
           r == x % p
<1>1. d \in Int /\ r \in Int /\ x = p * d + r /\ 0 <= r /\ r < p
  BY DivFacts
<1> HIDE DEF d, r
<1>2. p * d \in Int /\ p * q \in Int
  BY <1>1
<1>3. ASSUME d < q PROVE FALSE
  <2>1. d + 1 <= q /\ d + 1 \in Int
    BY <1>1, <1>3
  <2>2. p * (d + 1) <= p * q
    BY <2>1, Times
  <2>3. p * (d + 1) = p * d + p
    BY <1>1
  <2>4. QED
    BY <1>1, <1>2, <2>2, <2>3
<1>4. ASSUME q < d PROVE FALSE
  <2>1. q + 1 <= d /\ q + 1 \in Int
    BY <1>1, <1>4
  <2>2. p * (q + 1) <= p * d
    BY <1>1, <2>1, Times
  <2>3. p * (q + 1) = p * q + p
    OBVIOUS
  <2>4. QED
    BY <1>1, <1>2, <2>2, <2>3
<1>5. d = q
  BY <1>1, <1>3, <1>4
<1>6. QED
  BY <1>5 DEF d

LEMMA DivOne ==
  ASSUME NEW x \in Int
  PROVE  x \div 1 = x
  OBVIOUS

LEMMA DivTwice ==
  ASSUME NEW x \in Int, NEW p \in Nat, p > 0
  PROVE  x \div (2 * p) = (x \div p) \div 2
<1> DEFINE d == x \div p
           r == x % p
           h == d \div 2
           b == d % 2
<1>1. d \in Int /\ r \in Int /\ x = p * d + r /\ 0 <= r /\ r < p
  BY DivFacts
<1> HIDE DEF d, r
<1>2. h \in Int /\ b \in {0, 1} /\ d = 2 * h + b
  BY <1>1
<1> HIDE DEF h, b
<1>3. p * h \in Int
  BY <1>2
<1>4. p * d = 2 * (p * h) + p * b
  <2>1. p * (2 * h + b) = 2 * (p * h) + p * b
    BY <1>2
  <2>2. QED
    BY <1>2, <2>1
<1>5. (2 * p) * h = 2 * (p * h) /\ p * b \in {0, p}
  BY <1>2
<1>6. (2 * p) * h <= x /\ x < (2 * p) * h + 2 * p
  <2>1. p * b \in Int /\ p * b >= 0 /\ p * b <= p
    BY <1>5
  <2> HIDE <1>5
  <2>2. x = 2 * (p * h) + p * b + r
    BY <1>1, <1>4
  <2> DEFINE u == p * h
             v == p * b
  <2>3. u \in Int /\ v \in Int /\ v >= 0 /\ v <= p /\ x = 2 * u + v + r
    BY <1>3, <2>1, <2>2
  <2> HIDE DEF u, v
  <2>4. 2 * u <= x /\ x < 2 * u + 2 * p
    BY <1>1, <2>3
  <2>5. (2 * p) * h = 2 * u
    BY <1>5 DEF u
  <2>6. QED
    BY <2>4, <2>5
<1>7. 2 * p \in Nat /\ 2 * p > 0
  OBVIOUS
<1>8. x \div (2 * p) = h
  BY <1>2, <1>6, <1>7, DivIs
<1>9. QED
  BY <1>8 DEF h, d

(***************************************************************************)
(* The bits of a word.                                                     *)
(***************************************************************************)
Bit(x, k) == (x \div 2^k) % 2

LEMMA BitsAre ==
  ASSUME NEW x \in Int
  PROVE  /\ BitsOf(x) \subseteq 0 .. W - 1
         /\ \A k \in 0 .. W - 1 : k \in BitsOf(x) <=> Bit(x, k) = 1
  BY DEF BitsOf, Bit, ShiftRight

LEMMA Shifted ==
  ASSUME NEW x \in Int, NEW k \in Nat
  PROVE  /\ (x \div 2^k) \in Int /\ Bit(x, k) \in {0, 1}
         /\ x \div 2^k = 2 * (x \div 2^(k + 1)) + Bit(x, k)
<1> DEFINE p == 2^k
           d == x \div p
<1>1. p \in Nat /\ p > 0 /\ 2^(k + 1) = 2 * p
  BY PowerType, PowerNext
<1> HIDE DEF p
<1>2. d \in Int /\ x \div (2 * p) = d \div 2
  BY <1>1, DivTwice
<1> HIDE DEF d
<1>3. d % 2 \in {0, 1} /\ d = 2 * (d \div 2) + (d % 2)
  BY <1>2
<1>4. QED
  BY <1>1, <1>2, <1>3 DEF Bit, d, p

LEMMA TopShift ==
  ASSUME NEW x \in Word
  PROVE  x \in Int /\ x \div Half = IF x < 0 THEN -1 ELSE 0
<1> DEFINE h == Half
<1>1. h \in Nat /\ h > 0 /\ x \in -h .. h - 1
  BY WidthFacts
<1> HIDE DEF h
<1>2. ASSUME x < 0 PROVE x \div h = -1
  <2>1. h * (-1) = -h
    BY <1>1
  <2>2. h * (-1) <= x /\ x < h * (-1) + h
    BY <1>1, <1>2, <2>1
  <2>3. QED
    BY <1>1, <2>2, DivIs
<1>3. ASSUME ~(x < 0) PROVE x \div h = 0
  <2>1. h * 0 = 0
    BY <1>1
  <2>2. h * 0 <= x /\ x < h * 0 + h
    BY <1>1, <1>3, <2>1
  <2>3. QED
    BY <1>1, <2>2, DivIs
<1>4. QED
  BY <1>1, <1>2, <1>3 DEF h

LEMMA TopBitIs ==
  ASSUME NEW x \in Word
  PROVE  (W - 1 \in BitsOf(x)) <=> x < 0
<1>1. x \in Int /\ W - 1 \in 0 .. W - 1 /\ x \div Half = IF x < 0 THEN -1 ELSE 0
  BY TopShift, WidthFacts
<1>2. Bit(x, W - 1) = (x \div Half) % 2
  BY DEF Bit, Half
<1>3. \A d \in Int : (d = -1 => d % 2 = 1) /\ (d = 0 => d % 2 = 0)
  OBVIOUS
<1>4. QED
  BY <1>1, <1>2, <1>3, BitsAre

(* The sum of the bits' weights is the word.                               *)
Weighed(S, n, g) ==
  /\ g[0] = 0
  /\ \A k \in 0 .. n - 1 :
       g[k + 1] = g[k] + (IF k \in S THEN (IF k = W - 1 THEN TMin ELSE 2^k) ELSE 0)

LEMMA WordWeighs ==
  ASSUME NEW x \in Word
  PROVE  \E g \in [0 .. W -> Int] : Weighed(BitsOf(x), W, g) /\ g[W] = x
<1> DEFINE low(n) == x - 2^n * (x \div 2^n)
           g == [n \in 0 .. W |-> IF n = W THEN x ELSE low(n)]
<1>1. x \in Int /\ W \in Nat /\ W >= 8
  BY WidthFacts, TopShift
<1>2. ASSUME NEW n \in Nat PROVE low(n) \in Int
  <2>1. 2^n \in Nat /\ (x \div 2^n) \in Int
    BY <1>1, PowerType, Shifted
  <2>2. QED
    BY <1>1, <2>1
<1>3. low(0) = 0
  <2>1. x \div 1 = x
    BY <1>1, DivOne
  <2>2. QED
    BY <1>1, <2>1, PowerZero
<1>4. ASSUME NEW n \in Nat PROVE low(n + 1) = low(n) + 2^n * Bit(x, n)
  <2> DEFINE p == 2^n
             d == x \div 2^(n + 1)
             b == Bit(x, n)
  <2>1. p \in Nat /\ 2^(n + 1) = 2 * p /\ d \in Int /\ b \in {0, 1} /\ x \div p = 2 * d + b
    BY <1>1, PowerType, PowerNext, Shifted
  <2>2. low(n + 1) = x - (2 * p) * d /\ low(n) = x - p * (2 * d + b)
    BY <2>1
  <2> HIDE DEF p, d, b, low
  <2>3. p * (2 * d + b) = (2 * p) * d + p * b
    BY <2>1
  <2>4. (2 * p) * d \in Int /\ p * b \in Int
    BY <2>1
  <2>5. low(n + 1) = low(n) + p * b
    BY <1>1, <2>2, <2>3, <2>4
  <2>6. QED
    BY <2>5 DEF p, b
<1>5. low(W - 1) + (IF W - 1 \in BitsOf(x) THEN TMin ELSE 0) = x
  <2>1. low(W - 1) = x - Half * (x \div Half)
    BY DEF Half
  <2>2. Half \in Nat /\ TMin = -Half
    BY WidthFacts
  <2>3. CASE x < 0
    <3>1. x \div Half = -1 /\ W - 1 \in BitsOf(x)
      BY <2>3, TopShift, TopBitIs
    <3> HIDE DEF low
    <3>2. QED
      BY <1>1, <2>1, <2>2, <3>1
  <2>4. CASE ~(x < 0)
    <3>1. x \div Half = 0 /\ W - 1 \notin BitsOf(x)
      BY <2>4, TopShift, TopBitIs
    <3> HIDE DEF low
    <3>2. QED
      BY <1>1, <2>1, <2>2, <3>1
  <2>5. QED
    BY <2>3, <2>4
<1> HIDE DEF low
<1>6. g \in [0 .. W -> Int] /\ \A n \in 0 .. W : g[n] = IF n = W THEN x ELSE low(n)
  <2>1. \A n \in 0 .. W : n \in Nat
    BY <1>1
  <2>2. QED
    BY <1>1, <1>2, <2>1
<1> HIDE DEF g
<1>7. g[0] = 0 /\ g[W] = x
  BY <1>1, <1>3, <1>6
<1>8. ASSUME NEW k \in 0 .. W - 1
      PROVE  g[k + 1] = g[k] + (IF k \in BitsOf(x) THEN (IF k = W - 1 THEN TMin ELSE 2^k) ELSE 0)
  <2>1. k \in 0 .. W /\ k + 1 \in 0 .. W /\ k # W /\ k \in Nat
    BY <1>1
  <2>2. g[k] = low(k)
    BY <1>6, <2>1
  <2>3. CASE k = W - 1
    <3>1. k + 1 = W
      BY <1>1, <2>3
    <3>2. g[k + 1] = x
      BY <1>7, <3>1
    <3>3. QED
      BY <1>5, <2>2, <2>3, <3>2
  <2>4. CASE k # W - 1
    <3>1. g[k + 1] = low(k + 1)
      <4>1. k + 1 # W
        BY <1>1, <2>4
      <4>2. QED
        BY <1>6, <2>1, <4>1
    <3>2. low(k + 1) = low(k) + 2^k * Bit(x, k)
      BY <1>4, <2>1
    <3>3. Bit(x, k) \in {0, 1} /\ (k \in BitsOf(x) <=> Bit(x, k) = 1) /\ 2^k \in Nat
      BY <1>1, <2>1, BitsAre, Shifted, PowerType
    <3>4. 2^k * Bit(x, k) = IF k \in BitsOf(x) THEN 2^k ELSE 0
      <4> DEFINE p == 2^k
      <4>1. p * 1 = p /\ p * 0 = 0 /\ p \in Nat
        BY <3>3
      <4> HIDE DEF p
      <4>2. p * Bit(x, k) = IF k \in BitsOf(x) THEN p ELSE 0
        BY <3>3, <4>1
      <4>3. QED
        BY <4>2 DEF p
    <3>5. QED
      BY <2>2, <2>4, <3>1, <3>2, <3>4
  <2>5. QED
    BY <2>3, <2>4
<1>9. Weighed(BitsOf(x), W, g)
  BY <1>7, <1>8 DEF Weighed
<1>10. QED
  BY <1>6, <1>7, <1>9

LEMMA WordOfIs ==
  ASSUME NEW S, NEW g \in [0 .. W -> Int], Weighed(S, W, g)
  PROVE  WordOf(S) = g[W]
<1> DEFINE weight(k) == IF k = W-1 THEN TMin ELSE 2^k
           Read(f) == [n \in 0 .. W |->
             IF n = 0 THEN 0 ELSE f[n-1] + (IF n-1 \in S THEN weight(n-1) ELSE 0)]
           sum == CHOOSE f : f = Read(f)
<1>1. WordOf(S) = sum[W]
  BY DEF WordOf
<1>2. W \in Nat
  BY WidthFacts
<1>3. ASSUME NEW f PROVE
        /\ DOMAIN Read(f) = 0 .. W
        /\ \A n \in 0 .. W :
             Read(f)[n] = IF n = 0 THEN 0 ELSE f[n-1] + (IF n-1 \in S THEN weight(n-1) ELSE 0)
  OBVIOUS
<1>4. \A n \in 0 .. W :
        g[n] = IF n = 0 THEN 0 ELSE g[n-1] + (IF n-1 \in S THEN weight(n-1) ELSE 0)
  <2>1. SUFFICES ASSUME NEW n \in 0 .. W, n # 0
                 PROVE  g[n] = g[n-1] + (IF n-1 \in S THEN weight(n-1) ELSE 0)
    BY DEF Weighed
  <2> DEFINE k == n - 1
  <2>2. k \in 0 .. W - 1 /\ n = k + 1
    BY <1>2, <2>1
  <2> HIDE DEF k
  <2>3. g[k + 1] = g[k] + (IF k \in S THEN weight(k) ELSE 0)
    BY <2>2 DEF Weighed
  <2>4. QED
    BY <2>2, <2>3 DEF k
<1>5. g = Read(g)
  <2>1. \A n \in 0 .. W : g[n] = Read(g)[n]
    BY <1>3, <1>4
  <2>2. Read(g) = [n \in 0 .. W |-> Read(g)[n]] /\ g = [n \in 0 .. W |-> g[n]]
    BY <1>3
  <2> HIDE DEF Read
  <2>3. QED
    BY <2>1, <2>2
<1> HIDE DEF Read
<1>6. sum = Read(sum)
  BY <1>5
<1> HIDE DEF sum
<1>7. \A n \in 0 .. W :
        sum[n] = IF n = 0 THEN 0 ELSE sum[n-1] + (IF n-1 \in S THEN weight(n-1) ELSE 0)
  BY <1>3, <1>6
<1> DEFINE bad == {n \in 0 .. W : sum[n] # g[n]}
<1>8. bad = {}
  <2>1. SUFFICES ASSUME bad # {} PROVE FALSE
    OBVIOUS
  <2>2. PICK n \in bad : \A k \in bad : n <= k
    <3>1. bad \subseteq Nat
      BY <1>2
    <3> HIDE DEF bad
    <3>2. QED
      BY <2>1, <3>1, LeastOf
  <2>3. n \in 0 .. W
    BY <2>2
  <2>4. n # 0 => sum[n - 1] = g[n - 1]
    BY <1>2, <2>2
  <2> HIDE DEF weight
  <2>5. sum[n] = g[n]
    BY <1>4, <1>7, <2>3, <2>4
  <2>6. QED
    BY <2>2, <2>5
<1>9. sum[W] = g[W]
  BY <1>2, <1>8
<1>10. QED
  BY <1>1, <1>9

LEMMA WordOfBits ==
  ASSUME NEW x \in Word
  PROVE  WordOf(BitsOf(x)) = x
<1>1. PICK g \in [0 .. W -> Int] : Weighed(BitsOf(x), W, g) /\ g[W] = x
  BY WordWeighs
<1>2. QED
  BY <1>1, WordOfIs

LEMMA SameBits ==
  ASSUME NEW x \in Word, NEW y \in Word, BitsOf(x) = BitsOf(y)
  PROVE  x = y
  BY WordOfBits

(* There are as many words as sets of bits.                                *)
LEMMA EverySet ==
  ASSUME NEW S \in SUBSET (0 .. W - 1)
  PROVE  \E x \in Word : BitsOf(x) = S
<1> DEFINE T == 0 .. W - 1
           f == [x \in Word |-> BitsOf(x)]
<1>1. IsFiniteSet(T) /\ Cardinality(T) = W
  <2>1. W \in Nat /\ W >= 8 /\ 0 \in Int /\ W - 1 \in Int
    BY WidthFacts
  <2>2. IsFiniteSet(0 .. W - 1) /\ Cardinality(0 .. W - 1) = IF 0 > W - 1 THEN 0 ELSE (W - 1) - 0 + 1
    BY <2>1, FS_Interval
  <2>3. QED
    BY <2>1, <2>2
<1>2. IsFiniteSet(SUBSET T) /\ Cardinality(SUBSET T) = 2^W
  BY <1>1, FS_SUBSET
<1>3. IsFiniteSet(Word) /\ Cardinality(Word) = 2^W
  <2> DEFINE h == Half
  <2>1. h \in Nat /\ h > 0 /\ -h \in Int /\ h - 1 \in Int /\ Word = -h .. h - 1 /\ 2^W = 2 * h
    BY WidthFacts
  <2> HIDE DEF h
  <2>2. Cardinality(-h .. h - 1) = (h - 1) - (-h) + 1 /\ IsFiniteSet(-h .. h - 1)
    BY <2>1, FS_Interval
  <2>3. QED
    BY <2>1, <2>2
<1>4. \A x \in Word : BitsOf(x) \in SUBSET T
  BY DEF BitsOf
<1> HIDE DEF T
<1>5. f \in Injection(Word, SUBSET T)
  <2>1. f \in [Word -> SUBSET T] /\ \A x \in Word : f[x] = BitsOf(x)
    BY <1>4
  <2>2. \A x, y \in Word : f[x] = f[y] => x = y
    BY <2>1, SameBits
  <2>3. QED
    BY <2>1, <2>2, Zenon DEF Injection, IsInjective
<1>6. f \in Surjection(Word, SUBSET T)
  BY <1>2, <1>3, <1>5, FS_Injection
<1>7. \E x \in Word : f[x] = S
  BY <1>6, Zenon DEF Surjection, T
<1>8. QED
  BY <1>7

LEMMA BitsOfWord ==
  ASSUME NEW S \in SUBSET (0 .. W - 1)
  PROVE  WordOf(S) \in Word /\ BitsOf(WordOf(S)) = S
<1>1. PICK x \in Word : BitsOf(x) = S
  BY EverySet
<1>2. QED
  BY <1>1, WordOfBits

LEMMA AndOrXor ==
  ASSUME NEW x \in Word, NEW y \in Word
  PROVE  /\ And(x, y) \in Word /\ BitsOf(And(x, y)) = BitsOf(x) \cap BitsOf(y)
         /\ Or(x, y) \in Word /\ BitsOf(Or(x, y)) = BitsOf(x) \cup BitsOf(y)
         /\ Xor(x, y) \in Word
         /\ BitsOf(Xor(x, y)) = (BitsOf(x) \cup BitsOf(y)) \ (BitsOf(x) \cap BitsOf(y))
<1>1. BitsOf(x) \subseteq 0 .. W - 1 /\ BitsOf(y) \subseteq 0 .. W - 1
  BY DEF BitsOf
<1>2. /\ BitsOf(x) \cap BitsOf(y) \in SUBSET (0 .. W - 1)
      /\ BitsOf(x) \cup BitsOf(y) \in SUBSET (0 .. W - 1)
      /\ (BitsOf(x) \cup BitsOf(y)) \ (BitsOf(x) \cap BitsOf(y)) \in SUBSET (0 .. W - 1)
  BY <1>1
<1>3. QED
  BY <1>2, BitsOfWord DEF And, Or, Xor

LEMMA NotIs ==
  ASSUME NEW x \in Word
  PROVE  Not(x) \in Word /\ BitsOf(Not(x)) = (0 .. W - 1) \ BitsOf(x)
<1>1. x \in Int /\ Not(x) = -x - 1 /\ Not(x) \in Word /\ Not(x) \in Int
  BY WidthFacts DEF Not
<1>2. ASSUME NEW k \in 0 .. W - 1 PROVE k \in BitsOf(Not(x)) <=> k \notin BitsOf(x)
  <2> DEFINE p == 2^k
             d == x \div p
             r == x % p
  <2>1. k \in Nat /\ p \in Nat /\ p > 0
    BY WidthFacts, PowerType
  <2> HIDE DEF p
  <2>2. d \in Int /\ r \in Int /\ x = p * d + r /\ 0 <= r /\ r < p
    BY <1>1, <2>1, DivFacts
  <2> HIDE DEF d, r
  <2>3. p * d \in Int /\ p * (-d - 1) = -(p * d) - p
    BY <2>1, <2>2
  <2>4. p * (-d - 1) <= -x - 1 /\ -x - 1 < p * (-d - 1) + p /\ -d - 1 \in Int /\ -x - 1 \in Int
    BY <2>1, <2>2, <2>3
  <2>5. (-x - 1) \div p = -d - 1
    BY <2>1, <2>4, DivIs
  <2>6. (-d - 1) % 2 = 1 <=> d % 2 # 1
    BY <2>2
  <2>7. Bit(Not(x), k) = (-d - 1) % 2 /\ Bit(x, k) = d % 2
    BY <1>1, <2>5 DEF Bit, d, p
  <2>8. QED
    BY <1>1, <2>6, <2>7, BitsAre
<1>3. QED
  BY <1>1, <1>2, BitsAre

LEMMA ZeroAndOnes ==
  /\ 0 \in Word /\ BitsOf(0) = {}
  /\ -1 \in Word /\ BitsOf(-1) = 0 .. W - 1
<1>1. 0 \in Word /\ -1 \in Word /\ Not(0) = -1
  BY WidthFacts DEF Not
<1>2. ASSUME NEW k \in 0 .. W - 1 PROVE k \notin BitsOf(0)
  <2> DEFINE p == 2^k
  <2>1. p \in Nat /\ p > 0
    BY WidthFacts, PowerType
  <2> HIDE DEF p
  <2>2. p * 0 <= 0 /\ 0 < p * 0 + p
    BY <2>1
  <2>3. 0 \div p = 0
    BY <2>1, <2>2, DivIs
  <2> DEFINE d == 0 \div p
  <2>4. Bit(0, k) = d % 2 /\ d = 0
    BY <2>3 DEF Bit, p
  <2> HIDE DEF d
  <2>5. d % 2 = 0
    BY <2>4
  <2>6. QED
    BY <2>4, <2>5, BitsAre
<1>3. BitsOf(0) = {}
  BY <1>2, BitsAre
<1>4. BitsOf(Not(0)) = 0 .. W - 1
  BY <1>1, <1>3, NotIs
<1>5. QED
  BY <1>1, <1>3, <1>4

LEMMA NoBits ==
  ASSUME NEW x \in Word
  PROVE  x = 0 <=> BitsOf(x) = {}
  BY SameBits, ZeroAndOnes

(***************************************************************************)
(* Wrapping around.                                                        *)
(***************************************************************************)
LEMMA WrapIs ==
  ASSUME NEW n \in Int
  PROVE  /\ Wrap(n) \in Word
         /\ -Half <= n /\ n < Half => Wrap(n) = n
         /\ Half <= n /\ n < 3 * Half => Wrap(n) = n - 2 * Half
         /\ -(3 * Half) <= n /\ n < -Half => Wrap(n) = n + 2 * Half
<1> DEFINE h == Half
           m == 2 * h
           u == n + h
           d == u \div m
           r == u % m
<1>1. h \in Nat /\ h > 0 /\ Word = -h .. h - 1 /\ Wrap(n) = ((n - (-h)) % m) + (-h)
  BY WidthFacts DEF Wrap
<1> HIDE DEF h
<1>2. m \in Nat /\ m > 0 /\ u \in Int /\ n - (-h) = u /\ m = 2 * h /\ u = n + h
  BY <1>1
<1> HIDE DEF m, u
<1>3. d \in Int /\ r \in Int /\ u = m * d + r /\ 0 <= r /\ r < m
  BY <1>2, DivFacts
<1>4. Wrap(n) = r - h
  BY <1>1, <1>2, <1>3
<1>5. Wrap(n) \in Word
  <2> HIDE DEF r
  <2>1. QED
    BY <1>1, <1>2, <1>3, <1>4
<1>6. ASSUME NEW q \in {-1, 0, 1}, m * q <= u, u < m * q + m PROVE r = u - m * q
  <2>1. q \in Int
    BY <1>6
  <2>2. d = q
    BY <1>2, <1>6, <2>1, DivIs
  <2> HIDE DEF d, r
  <2>3. m * q \in Int
    BY <1>2, <2>1
  <2>4. QED
    BY <1>3, <2>2, <2>3
<1> HIDE DEF d, r
<1>7. m * 0 = 0 /\ m * 1 = m /\ m * (-1) = -m
  BY <1>2
<1>8. 0 <= u /\ u < m => r = u
  <2>1. 0 <= u /\ u < m => r = u - m * 0
    BY <1>2, <1>6, <1>7
  <2>2. QED
    BY <1>2, <1>7, <2>1
<1>9. m <= u /\ u < 2 * m => r = u - m
  <2>1. m <= u /\ u < 2 * m => r = u - m * 1
    BY <1>2, <1>6, <1>7
  <2>2. QED
    BY <1>7, <2>1
<1>10. -m <= u /\ u < 0 => r = u + m
  <2>1. -m <= u /\ u < 0 => r = u - m * (-1)
    BY <1>2, <1>6, <1>7
  <2>2. QED
    BY <1>2, <1>7, <2>1
<1>11. QED
  BY <1>1, <1>2, <1>3, <1>4, <1>5, <1>8, <1>9, <1>10 DEF h

(***************************************************************************)
(* The words with one bit.                                                 *)
(***************************************************************************)
LEMMA PowerDiv ==
  ASSUME NEW a \in Nat, NEW k \in Nat
  PROVE  /\ Bit(2^a, k) = 1 <=> k = a
         /\ (k <= a => (Bit(-(2^a), k) = 1 <=> k = a))
<1> DEFINE q == 2^k
           p == 2^a
<1>1. q \in Nat /\ q > 0 /\ p \in Nat /\ p > 0
  BY PowerType
<1>2. CASE k <= a
  <2> DEFINE j == a - k
             c == 2^j
  <2>1. j \in Nat /\ a = k + j
    BY <1>2
  <2> HIDE DEF j
  <2>2. c \in Nat /\ p = q * c
    BY <2>1, PowerType, PowerSum
  <2>3. c % 2 = 1 <=> j = 0
    <3>1. CASE j = 0
      BY <3>1, PowerZero
    <3>2. CASE j # 0
      <4> DEFINE n == j - 1
      <4>1. n \in Nat /\ j = n + 1
        BY <2>1, <3>2
      <4> HIDE DEF n
      <4>2. c = 2 * 2^n /\ 2^n \in Nat
        BY <4>1, PowerType, PowerNext
      <4> HIDE DEF c
      <4>3. c % 2 = 0
        BY <4>2
      <4>4. QED
        BY <3>2, <4>3
    <3>3. QED
      BY <3>1, <3>2
  <2> HIDE DEF p, q, c
  <2>4. p \div q = c
    <3>1. q * c <= p /\ p < q * c + q
      BY <1>1, <2>2
    <3>2. QED
      BY <1>1, <2>2, <3>1, DivIs
  <2>5. (-p) \div q = -c
    <3>1. q * (-c) = -(q * c) /\ q * c \in Int
      BY <1>1, <2>2
    <3>2. q * (-c) <= -p /\ -p < q * (-c) + q /\ -c \in Int /\ -p \in Int
      BY <1>1, <2>2, <3>1
    <3>3. QED
      BY <1>1, <3>2, DivIs
  <2>6. (-c) % 2 = 1 <=> c % 2 = 1
    BY <2>2
  <2>7. Bit(p, k) = c % 2 /\ Bit(-p, k) = (-c) % 2
    BY <2>4, <2>5 DEF Bit, q
  <2>8. QED
    BY <2>1, <2>3, <2>6, <2>7 DEF p
<1>3. CASE k > a
  <2>1. 2 * p <= q
    BY <1>3, PowerLess
  <2> HIDE DEF p, q
  <2>2. q * 0 <= p /\ p < q * 0 + q
    BY <1>1, <2>1
  <2>3. p \div q = 0
    BY <1>1, <2>2, DivIs
  <2> DEFINE d == p \div q
  <2>4. Bit(p, k) = d % 2 /\ d = 0
    BY <2>3 DEF Bit, q
  <2> HIDE DEF d
  <2>5. Bit(p, k) # 1
    BY <2>4
  <2>6. QED
    BY <1>3, <2>5 DEF p
<1>4. QED
  BY <1>2, <1>3

LEMMA OneBit ==
  ASSUME NEW a \in 0 .. W - 1
  PROVE  ShiftLeft(1, a) \in Word /\ BitsOf(ShiftLeft(1, a)) = {a}
<1> DEFINE p == 2^a
<1>1. a \in Nat /\ p \in Nat /\ p > 0 /\ W \in Nat /\ W >= 8
  BY WidthFacts, PowerType
<1>2. ShiftLeft(1, a) = Wrap(p)
  BY <1>1 DEF ShiftLeft
<1>3. CASE a < W - 1
  <2>1. 2 * p <= Half /\ Half \in Nat
    BY <1>1, <1>3, PowerLess, WidthFacts DEF Half
  <2>2. Wrap(p) = p
    BY <1>1, <2>1, WrapIs
  <2>3. Wrap(p) \in Word
    BY <1>1, WrapIs
  <2>4. \A k \in 0 .. W - 1 : k \in Nat /\ (Bit(p, k) = 1 <=> k = a)
    BY <1>1, PowerDiv
  <2> HIDE DEF p
  <2>5. \A k \in 0 .. W - 1 : k \in BitsOf(p) <=> k = a
    BY <1>1, <2>4, BitsAre
  <2>6. QED
    BY <1>1, <1>2, <2>2, <2>3, <2>5, BitsAre
<1>4. CASE a = W - 1
  <2>1. p = Half /\ Half \in Nat /\ Half >= 128
    BY <1>4, WidthFacts DEF Half
  <2>2. Wrap(p) = -p
    <3> HIDE DEF p
    <3>1. Wrap(p) = p - 2 * Half
      BY <1>1, <2>1, WrapIs
    <3>2. QED
      BY <2>1, <3>1
  <2>3. Wrap(p) \in Word
    BY <1>1, WrapIs
  <2>4. \A k \in 0 .. W - 1 : k \in Nat /\ (Bit(-p, k) = 1 <=> k = a)
    <3>1. \A k \in 0 .. W - 1 : k \in Nat /\ k <= a
      BY <1>1, <1>4
    <3>2. QED
      BY <1>1, <3>1, PowerDiv
  <2> HIDE DEF p
  <2>5. -p \in Int
    BY <1>1
  <2>6. \A k \in 0 .. W - 1 : k \in BitsOf(-p) <=> k = a
    BY <2>4, <2>5, BitsAre
  <2>7. BitsOf(-p) = {a}
    BY <1>1, <2>5, <2>6, BitsAre
  <2>8. QED
    BY <1>2, <2>2, <2>3, <2>7
<1>5. QED
  BY <1>1, <1>3, <1>4

(***************************************************************************)
(* The puzzles equal their references.                                     *)
(***************************************************************************)
LEMMA AndIs ==
  ASSUME NEW x \in Word, NEW y \in Word, NEW z \in Word, BitsOf(z) = BitsOf(x) \cap BitsOf(y)
  PROVE  And(x, y) = z
<1>1. And(x, y) \in Word /\ BitsOf(And(x, y)) = BitsOf(x) \cap BitsOf(y)
  BY AndOrXor
<1>2. BitsOf(And(x, y)) = BitsOf(z)
  BY <1>1
<1>3. QED
  BY <1>1, <1>2, SameBits

LEMMA OrIs ==
  ASSUME NEW x \in Word, NEW y \in Word, NEW z \in Word, BitsOf(z) = BitsOf(x) \cup BitsOf(y)
  PROVE  Or(x, y) = z
<1>1. Or(x, y) \in Word /\ BitsOf(Or(x, y)) = BitsOf(x) \cup BitsOf(y)
  BY AndOrXor
<1>2. BitsOf(Or(x, y)) = BitsOf(z)
  BY <1>1
<1>3. QED
  BY <1>1, <1>2, SameBits

LEMMA XorIs ==
  ASSUME NEW x \in Word, NEW y \in Word, NEW z \in Word,
         BitsOf(z) = (BitsOf(x) \cup BitsOf(y)) \ (BitsOf(x) \cap BitsOf(y))
  PROVE  Xor(x, y) = z
<1>1. Xor(x, y) \in Word /\ BitsOf(Xor(x, y)) = (BitsOf(x) \cup BitsOf(y)) \ (BitsOf(x) \cap BitsOf(y))
  BY AndOrXor
<1>2. BitsOf(Xor(x, y)) = BitsOf(z)
  BY <1>1
<1>3. QED
  BY <1>1, <1>2, SameBits

LEMMA Masks ==
  ASSUME NEW x \in Word
  PROVE  /\ And(0, x) = 0 /\ And(-1, x) = x
         /\ Or(0, x) = x /\ Or(x, 0) = x /\ Or(-1, x) = -1 /\ Or(x, -1) = -1
         /\ Xor(x, 0) = x /\ Xor(x, -1) = Not(x)
<1> DEFINE zero == 0
           ones == -1
<1>1. /\ zero \in Word /\ BitsOf(zero) = {}
      /\ ones \in Word /\ BitsOf(ones) = 0 .. W - 1 /\ BitsOf(x) \subseteq 0 .. W - 1
      /\ Not(x) \in Word /\ BitsOf(Not(x)) = (0 .. W - 1) \ BitsOf(x)
  <2>1. x \in Int
    BY TopShift
  <2>2. QED
    BY <2>1, ZeroAndOnes, BitsAre, NotIs
<1> HIDE DEF zero, ones
<1>2. And(zero, x) = zero
  <2>1. BitsOf(zero) = BitsOf(zero) \cap BitsOf(x)
    BY <1>1
  <2>2. QED
    BY <1>1, <2>1, AndIs
<1>3. And(ones, x) = x
  <2>1. BitsOf(x) = BitsOf(ones) \cap BitsOf(x)
    BY <1>1
  <2>2. QED
    BY <1>1, <2>1, AndIs
<1>4. Or(zero, x) = x
  <2>1. BitsOf(x) = BitsOf(zero) \cup BitsOf(x)
    BY <1>1
  <2>2. QED
    BY <1>1, <2>1, OrIs
<1>5. Or(x, zero) = x
  <2>1. BitsOf(x) = BitsOf(x) \cup BitsOf(zero)
    BY <1>1
  <2>2. QED
    BY <1>1, <2>1, OrIs
<1>6. Or(ones, x) = ones
  <2>1. BitsOf(ones) = BitsOf(ones) \cup BitsOf(x)
    BY <1>1
  <2>2. QED
    BY <1>1, <2>1, OrIs
<1>7. Or(x, ones) = ones
  <2>1. BitsOf(ones) = BitsOf(x) \cup BitsOf(ones)
    BY <1>1
  <2>2. QED
    BY <1>1, <2>1, OrIs
<1>8. Xor(x, zero) = x
  <2>1. BitsOf(x) = (BitsOf(x) \cup BitsOf(zero)) \ (BitsOf(x) \cap BitsOf(zero))
    BY <1>1
  <2>2. QED
    BY <1>1, <2>1, XorIs
<1>9. Xor(x, ones) = Not(x)
  <2>1. BitsOf(Not(x)) = (BitsOf(x) \cup BitsOf(ones)) \ (BitsOf(x) \cap BitsOf(ones))
    BY <1>1
  <2>2. QED
    BY <1>1, <2>1, XorIs
<1>10. QED
  BY <1>2, <1>3, <1>4, <1>5, <1>6, <1>7, <1>8, <1>9 DEF zero, ones

LEMMA OrZero ==
  ASSUME NEW x \in Word, NEW y \in Word
  PROVE  Or(x, y) = 0 <=> (x = 0 /\ y = 0)
<1>1. Or(x, y) \in Word /\ BitsOf(Or(x, y)) = BitsOf(x) \cup BitsOf(y)
  BY AndOrXor
<1>2. QED
  BY <1>1, NoBits

LEMMA SignIs == ShiftLeft(1, W - 1) = TMin /\ TMin \in Word /\ TMin # 0 /\ BitsOf(TMin) = {W - 1}
<1> DEFINE h == Half
<1>1. h \in Nat /\ h >= 128 /\ TMin = -h /\ TMin \in Word /\ W - 1 \in 0 .. W - 1
  BY WidthFacts
<1>2. ShiftLeft(1, W - 1) = Wrap(h)
  BY <1>1 DEF ShiftLeft, Half
<1>3. Wrap(h) = h - 2 * h
  BY <1>1, WrapIs
<1> HIDE DEF h
<1>4. ShiftLeft(1, W - 1) = TMin
  BY <1>1, <1>2, <1>3
<1>5. QED
  BY <1>1, <1>4, OneBit

LEMMA XorRight ==
  ASSUME NEW x \in Word, NEW y \in Word
  PROVE  bitXor(x, y) = test_bitXor(x, y)
<1> DEFINE N == 0 .. W - 1
           X == BitsOf(x)
           Y == BitsOf(y)
           differ == {k \in N : ShiftRight(x, k) % 2 # ShiftRight(y, k) % 2}
           neither == And(Not(x), Not(y))
           both == And(x, y)
<1>1. /\ Not(x) \in Word /\ BitsOf(Not(x)) = N \ X
      /\ Not(y) \in Word /\ BitsOf(Not(y)) = N \ Y
  BY NotIs
<1>2. /\ neither \in Word /\ BitsOf(neither) = (N \ X) \cap (N \ Y)
      /\ both \in Word /\ BitsOf(both) = X \cap Y
  BY <1>1, AndOrXor
<1> HIDE DEF neither, both
<1>3. /\ Not(neither) \in Word /\ BitsOf(Not(neither)) = N \ ((N \ X) \cap (N \ Y))
      /\ Not(both) \in Word /\ BitsOf(Not(both)) = N \ (X \cap Y)
  BY <1>2, NotIs
<1>4. /\ And(Not(neither), Not(both)) \in Word
      /\ BitsOf(And(Not(neither), Not(both))) = (N \ ((N \ X) \cap (N \ Y))) \cap (N \ (X \cap Y))
  BY <1>3, AndOrXor
<1>5. differ = (N \ ((N \ X) \cap (N \ Y))) \cap (N \ (X \cap Y))
  <2>1. ASSUME NEW k \in N PROVE k \in differ <=> (k \in X) # (k \in Y)
    <3>1. k \in Nat /\ x \in Int /\ y \in Int
      BY WidthFacts
    <3>2. Bit(x, k) \in {0, 1} /\ Bit(y, k) \in {0, 1}
      BY <3>1, Shifted
    <3>3. (k \in X <=> Bit(x, k) = 1) /\ (k \in Y <=> Bit(y, k) = 1)
      BY <3>1, BitsAre
    <3>4. k \in differ <=> Bit(x, k) # Bit(y, k)
      BY DEF Bit, ShiftRight
    <3>5. QED
      BY <3>2, <3>3, <3>4
  <2>2. X \subseteq N /\ Y \subseteq N /\ differ \subseteq N
    BY DEF BitsOf
  <2> HIDE DEF N, X, Y, differ
  <2>3. QED
    BY <2>1, <2>2
<1>6. test_bitXor(x, y) \in Word /\ BitsOf(test_bitXor(x, y)) = differ
  <2>1. differ \in SUBSET (0 .. W - 1)
    OBVIOUS
  <2>2. test_bitXor(x, y) = WordOf(differ)
    BY DEF test_bitXor
  <2> HIDE DEF differ
  <2>3. QED
    BY <2>1, <2>2, BitsOfWord
<1>7. bitXor(x, y) = And(Not(neither), Not(both))
  BY DEF bitXor, neither, both
<1>8. QED
  BY <1>4, <1>5, <1>6, <1>7, SameBits

LEMMA TminRight == tmin = test_tmin
  BY SignIs DEF tmin, test_tmin

LEMMA TmaxRight ==
  ASSUME NEW x \in Word
  PROVE  isTmax(x) = test_isTmax(x)
<1> DEFINE h == Half
           next == Wrap(x + 1)
           sum == Wrap(x + next)
<1>1. h \in Nat /\ h >= 128 /\ x \in Int /\ -h <= x /\ x < h /\ TMax = h - 1
  BY WidthFacts
<1>2. next \in Word /\ (x < h - 1 => next = x + 1) /\ (x = h - 1 => next = -h)
  <2>1. x + 1 \in Int /\ 0 - h = -h
    BY <1>1
  <2>2. (-h <= x + 1 /\ x + 1 < h => next = x + 1) /\ (h <= x + 1 /\ x + 1 < 3 * h => next = (x + 1) - 2 * h)
    BY <2>1, WrapIs
  <2>3. next \in Word
    BY <2>1, WrapIs
  <2> HIDE DEF h, next
  <2>4. QED
    BY <1>1, <2>2, <2>3
<1>3. next \in Int /\ -h <= next /\ next < h
  BY <1>2, WidthFacts
<1> HIDE DEF next
<1>4. /\ sum \in Word
      /\ -h <= x + next /\ x + next < h => sum = x + next
      /\ h <= x + next /\ x + next < 3 * h => sum = (x + next) - 2 * h
      /\ -(3 * h) <= x + next /\ x + next < -h => sum = (x + next) + 2 * h
  <2>1. x + next \in Int
    BY <1>1, <1>3
  <2>2. QED
    BY <2>1, WrapIs
<1>5. sum \in Int
  BY <1>4, WidthFacts
<1> HIDE DEF sum, h
<1>6. x = h - 1 => sum = -1 /\ next # 0
  BY <1>1, <1>2, <1>4
<1>7. x # h - 1 => sum # -1 \/ next = 0
  BY <1>1, <1>2, <1>3, <1>4, <1>5
<1>8. Not(sum) \in Word /\ (Not(sum) = 0 <=> sum = -1)
  BY <1>4, <1>5, NotIs DEF Not
<1>9. Bang(next) \in Word /\ (Bang(next) = 0 <=> next # 0)
  BY <1>3, WidthFacts DEF Bang
<1>10. Or(Not(sum), Bang(next)) = 0 <=> x = TMax
  BY <1>1, <1>6, <1>7, <1>8, <1>9, OrZero
<1>11. isTmax(x) = Bang(Or(Not(sum), Bang(next)))
  BY DEF isTmax, sum, next
<1>12. QED
  BY <1>10, <1>11 DEF Bang, test_isTmax

LEMMA OddBitsRight ==
  ASSUME NEW x \in Word
  PROVE  allOddBits(x) = test_allOddBits(x)
<1> DEFINE odd == {k \in 0 .. W - 1 : k % 2 = 1}
           m == maybeCheating
           X == BitsOf(x)
<1>1. m \in Word /\ BitsOf(m) = odd
  <2>1. odd \in SUBSET (0 .. W - 1)
    OBVIOUS
  <2> HIDE DEF odd
  <2>2. m = WordOf(odd)
    BY DEF maybeCheating, odd
  <2>3. QED
    BY <2>1, <2>2, BitsOfWord
<1> HIDE DEF m, odd
<1>2. And(x, m) \in Word /\ BitsOf(And(x, m)) = X \cap odd
  BY <1>1, AndOrXor
<1>3. /\ Xor(And(x, m), m) \in Word
      /\ BitsOf(Xor(And(x, m), m)) = ((X \cap odd) \cup odd) \ ((X \cap odd) \cap odd)
  BY <1>1, <1>2, AndOrXor
<1>4. Xor(And(x, m), m) = 0 <=> odd \subseteq X
  BY <1>3, NoBits
<1>5. ASSUME NEW k \in 0 .. W - 1
      PROVE  And(x, ShiftLeft(1, k)) # 0 <=> k \in X
  <2> DEFINE one == ShiftLeft(1, k)
  <2>1. one \in Word /\ BitsOf(one) = {k}
    BY OneBit
  <2> HIDE DEF one
  <2>2. And(x, one) \in Word /\ BitsOf(And(x, one)) = X \cap {k}
    BY <2>1, AndOrXor
  <2>3. QED
    BY <2>2, NoBits DEF one
<1>6. (\A k \in 0 .. W - 1 : k % 2 = 1 => And(x, ShiftLeft(1, k)) # 0) <=> odd \subseteq X
  <2> HIDE DEF X
  <2>1. QED
    BY <1>5 DEF odd
<1>7. allOddBits(x) = Bang(Xor(And(x, m), m))
  BY DEF allOddBits, m
<1>8. QED
  BY <1>4, <1>6, <1>7 DEF Bang, test_allOddBits

LEMMA NegateRight ==
  ASSUME NEW x \in Word
  PROVE  negate(x) = test_negate(x)
<1>1. Not(x) + 1 = -x
  BY WidthFacts DEF Not
<1>2. QED
  BY <1>1 DEF negate, test_negate

(* The sign bit, put before a number that has none.                        *)
LEMMA WithSign ==
  ASSUME NEW x \in Word, x >= 0
  PROVE  Or(TMin, x) = x + TMin /\ x + TMin \in Word
<1> DEFINE h == Half
           y == x - h
<1>1. h \in Nat /\ h >= 128 /\ x \in Nat /\ x < h /\ TMin = -h /\ y \in Word /\ y \in Int
      /\ x + TMin = y /\ W \in Nat /\ W >= 8
  BY WidthFacts
<1>2. ASSUME NEW k \in 0 .. W - 1, k # W - 1
      PROVE  k \in BitsOf(y) <=> k \in BitsOf(x)
  <2> DEFINE p == 2^k
             j == (W - 1) - (k + 1)
             c == 2^j
             d == x \div p
             r == x % p
  <2>1. j \in Nat /\ k \in Nat /\ W - 1 = (k + 1) + j
    BY <1>1, <1>2
  <2> HIDE DEF j
  <2>2. p \in Nat /\ p > 0 /\ c \in Nat /\ 2^(k + 1) = 2 * p
    BY <2>1, PowerType, PowerNext
  <2>3. h = (2 * p) * c
    <3>1. 2^((k + 1) + j) = 2^(k + 1) * 2^j
      <4>1. k + 1 \in Nat
        BY <2>1
      <4>2. QED
        BY <2>1, <4>1, PowerSum
    <3>2. QED
      BY <2>1, <2>2, <3>1 DEF Half
  <2> HIDE DEF p, c, h
  <2>4. d \in Int /\ r \in Int /\ x = p * d + r /\ 0 <= r /\ r < p
    BY <1>1, <2>2, DivFacts
  <2> HIDE DEF d, r
  <2>5. p * (d - 2 * c) = p * d - (2 * p) * c /\ p * d \in Int /\ (2 * p) * c \in Int
    BY <2>2, <2>4
  <2>6. p * (d - 2 * c) <= y /\ y < p * (d - 2 * c) + p /\ d - 2 * c \in Int
    BY <1>1, <2>2, <2>3, <2>4, <2>5
  <2>7. y \div p = d - 2 * c
    <3> HIDE DEF y
    <3>1. QED
      BY <1>1, <2>2, <2>6, DivIs
  <2>8. (d - 2 * c) % 2 = d % 2
    BY <2>2, <2>4
  <2>9. Bit(y, k) = Bit(x, k)
    BY <2>7, <2>8 DEF Bit, p, d
  <2>10. QED
    BY <1>1, <2>9, BitsAre
<1>3. W - 1 \in BitsOf(y) /\ W - 1 \notin BitsOf(x)
  BY <1>1, TopBitIs
<1>4. BitsOf(x) \subseteq 0 .. W - 1 /\ BitsOf(y) \subseteq 0 .. W - 1
  BY DEF BitsOf
<1> HIDE DEF y
<1>5. BitsOf(y) = {W - 1} \cup BitsOf(x)
  BY <1>2, <1>3, <1>4
<1>6. BitsOf(y) = BitsOf(TMin) \cup BitsOf(x)
  BY <1>5, SignIs
<1>7. Or(TMin, x) = y
  BY <1>1, <1>6, SignIs, OrIs
<1>8. QED
  BY <1>1, <1>7

(* The sign of a word, as isAsciiDigit looks at it.                        *)
LEMMA SignOfWord ==
  ASSUME NEW x \in Word
  PROVE  And(TMin, ShiftRight(x, W - 1)) \in Word
         /\ (And(TMin, ShiftRight(x, W - 1)) = 0 <=> x >= 0)
<1>1. ShiftRight(x, W - 1) = IF x < 0 THEN -1 ELSE 0
  BY TopShift DEF ShiftRight, Half
<1>2. TMin \in Word /\ TMin # 0 /\ -1 \in Word /\ 0 \in Word /\ x \in Int
  BY SignIs, ZeroAndOnes, TopShift
<1> DEFINE ones == -1
           zero == 0
<1>3. CASE x < 0
  <2>1. ShiftRight(x, W - 1) = ones /\ ones \in Word /\ BitsOf(ones) = 0 .. W - 1 /\ BitsOf(TMin) \subseteq 0 .. W - 1
    BY <1>1, <1>3, ZeroAndOnes DEF BitsOf
  <2> HIDE DEF ones
  <2>2. BitsOf(TMin) = BitsOf(TMin) \cap BitsOf(ones)
    BY <2>1
  <2>3. And(TMin, ones) = TMin
    BY <1>2, <2>1, <2>2, AndIs
  <2>4. QED
    BY <1>2, <1>3, <2>1, <2>3
<1>4. CASE ~(x < 0)
  <2>1. ShiftRight(x, W - 1) = zero /\ zero \in Word /\ BitsOf(zero) = {} /\ zero = 0
    BY <1>1, <1>4, ZeroAndOnes
  <2> HIDE DEF zero
  <2>2. BitsOf(zero) = BitsOf(TMin) \cap BitsOf(zero)
    BY <2>1
  <2>3. And(TMin, zero) = zero
    BY <1>2, <2>1, <2>2, AndIs
  <2>4. QED
    BY <1>2, <1>4, <2>1, <2>3
<1>5. QED
  BY <1>3, <1>4

LEMMA AsciiDigitRight ==
  ASSUME NEW x \in Word
  PROVE  isAsciiDigit(x) = test_isAsciiDigit(x)
<1> DEFINE h == Half
           t == h - 58 + x
           u == x - 48
           top == Wrap(t)
           low == Wrap(u)
           above == And(TMin, ShiftRight(top, W - 1))
           below == And(TMin, ShiftRight(low, W - 1))
<1>1. h \in Nat /\ h >= 128 /\ x \in Int /\ -h <= x /\ x < h /\ TMin = -h /\ 57 \in Word
  BY WidthFacts
<1>2. Or(TMin, 57) = 57 - h
  <2>1. Or(TMin, 57) = 57 + TMin
    BY <1>1, WithSign
  <2>2. QED
    BY <1>1, <2>1
<1>3. Not(Or(ShiftLeft(1, W - 1), 57)) + x = t /\ Not(48) + 1 + x = u
  <2>1. Not(Or(ShiftLeft(1, W - 1), 57)) = -(57 - h) - 1
    BY <1>2, SignIs DEF Not
  <2>2. QED
    BY <1>1, <2>1 DEF Not
<1>4. t \in Int /\ u \in Int /\ t = h - 58 + x /\ u = x - 48
  BY <1>1
<1> HIDE DEF t, u
<1>5. /\ top \in Word
      /\ -h <= t /\ t < h => top = t
      /\ h <= t /\ t < 3 * h => top = t - 2 * h
  BY <1>4, WrapIs
<1>6. /\ low \in Word
      /\ -h <= u /\ u < h => low = u
      /\ -(3 * h) <= u /\ u < -h => low = u + 2 * h
  BY <1>4, WrapIs
<1> HIDE DEF top, low
<1>7. (above = 0 <=> top >= 0) /\ (below = 0 <=> low >= 0) /\ above \in Word /\ below \in Word
  BY <1>5, <1>6, SignOfWord
<1> HIDE DEF above, below, h
<1>8. Or(above, below) = 0 <=> (top >= 0 /\ low >= 0)
  BY <1>7, OrZero
<1>9. (top >= 0 /\ low >= 0) <=> (48 <= x /\ x <= 57)
  BY <1>1, <1>4, <1>5, <1>6
<1>10. isAsciiDigit(x) = Bang(Or(above, below))
  BY <1>3, SignIs DEF isAsciiDigit, above, below, top, low
<1>11. QED
  BY <1>8, <1>9, <1>10 DEF Bang, test_isAsciiDigit

LEMMA ConditionalRight ==
  ASSUME NEW x \in Word, NEW y \in Word, NEW z \in Word
  PROVE  conditional(x, y, z) = test_conditional(x, y, z)
<1> DEFINE zero == 0
           ones == -1
           mask == ShiftRight(ShiftLeft(Bang(x), W - 1), W - 1)
<1>1. /\ zero \in Word /\ ones \in Word /\ Not(zero) = ones /\ Not(ones) = zero
  <2>1. \A d \in Int : (d = 0 => Not(d) = -1) /\ (d = -1 => Not(d) = 0)
    BY DEF Not
  <2>2. zero \in Int /\ zero = 0 /\ ones \in Int /\ ones = -1 /\ zero \in Word /\ ones \in Word
    BY ZeroAndOnes
  <2> HIDE DEF zero, ones
  <2>3. QED
    BY <2>1, <2>2
<1>2. conditional(x, y, z) = Or(And(Not(mask), y), And(mask, z))
  BY DEF conditional
<1>3. /\ And(zero, y) = zero /\ And(ones, y) = y /\ Or(zero, y) = y /\ Or(y, zero) = y
      /\ And(zero, z) = zero /\ And(ones, z) = z /\ Or(zero, z) = z
  BY Masks
<1>4. CASE x = 0
  <2>1. ShiftLeft(Bang(x), W - 1) = TMin
    BY <1>4, SignIs DEF Bang
  <2>2. TMin \in Word /\ TMin < 0
    BY WidthFacts
  <2>3. mask = ones
    BY <2>1, <2>2, TopShift DEF ShiftRight, Half
  <2> HIDE DEF mask, zero, ones
  <2>4. conditional(x, y, z) = z
    BY <1>1, <1>2, <1>3, <2>3
  <2>5. QED
    BY <1>4, <2>4 DEF test_conditional
<1>5. CASE x # 0
  <2>1. ShiftLeft(Bang(x), W - 1) = 0
    <3>1. 0 * Half = 0 /\ -Half <= 0 /\ 0 < Half
      BY WidthFacts
    <3>2. Wrap(0) = 0
      BY <3>1, WrapIs
    <3>3. QED
      BY <1>5, <3>1, <3>2 DEF Bang, ShiftLeft, Half
  <2>2. mask = zero
    BY <1>1, <2>1, TopShift DEF ShiftRight, Half
  <2> HIDE DEF mask, zero, ones
  <2>3. conditional(x, y, z) = y
    BY <1>1, <1>2, <1>3, <2>2
  <2>4. QED
    BY <1>5, <2>3 DEF test_conditional
<1>6. QED
  BY <1>4, <1>5

(* It is wrong where the difference overflows and this build lets it.      *)
LEMMA LessOrEqualRight ==
  ASSUME NEW x \in Word, NEW y \in Word, NEW w \in BOOLEAN
  PROVE  (~w \/ y - x \in Word) => isLessOrEqual(x, y, w) = test_isLessOrEqual(x, y)
<1>1. x \in Int /\ y \in Int
  BY TopShift
<1>2. y + Not(x) + 1 = y - x
  BY <1>1 DEF Not
<1>3. y - x \in Word => Wrap(y - x) = y - x
  <2>1. y - x \in Int
    BY <1>1
  <2>2. y - x \in Word => -Half <= y - x /\ y - x < Half
    BY WidthFacts
  <2>3. QED
    BY <2>1, <2>2, WrapIs
<1>4. (y - x < 0 <=> y < x)
  BY <1>1
<1>5. isLessOrEqual(x, y, w) = IF (IF w THEN Wrap(y - x) ELSE y - x) < 0 THEN 0 ELSE 1
  BY <1>2 DEF isLessOrEqual
<1>6. test_isLessOrEqual(x, y) = IF y < x THEN 0 ELSE 1
  BY <1>1 DEF test_isLessOrEqual
<1>7. QED
  BY <1>3, <1>4, <1>5, <1>6

LEMMA LessOrEqualWrong ==
  ASSUME NEW w \in BOOLEAN, w
  PROVE  isLessOrEqual(TMin, TMax, w) # test_isLessOrEqual(TMin, TMax)
<1> DEFINE h == Half
<1>1. h \in Nat /\ h >= 128 /\ TMin = -h /\ TMax = h - 1
  BY WidthFacts
<1>2. TMax + Not(TMin) + 1 = 2 * h - 1
  BY <1>1 DEF Not
<1>3. Wrap(2 * h - 1) = (2 * h - 1) - 2 * h
  <2>1. 2 * h - 1 \in Int /\ h <= 2 * h - 1 /\ 2 * h - 1 < 3 * h
    BY <1>1
  <2>2. QED
    BY <2>1, WrapIs
<1> HIDE DEF h
<1>4. Wrap(2 * h - 1) = -1
  BY <1>1, <1>3
<1>5. isLessOrEqual(TMin, TMax, w) = 0
  <2> DEFINE r == Wrap(TMax + Not(TMin) + 1)
  <2>1. isLessOrEqual(TMin, TMax, w) = IF r < 0 THEN 0 ELSE 1
    BY DEF isLessOrEqual
  <2>2. r = -1
    BY <1>2, <1>4
  <2> HIDE DEF r
  <2>3. r < 0
    BY <2>2
  <2>4. (IF r < 0 THEN 0 ELSE 1) = 0
    BY <2>3
  <2>5. QED
    BY <2>1, <2>4
<1>6. test_isLessOrEqual(TMin, TMax) = 1
  BY <1>1 DEF test_isLessOrEqual
<1>7. 0 # 1
  OBVIOUS
<1>8. QED
  BY <1>5, <1>6, <1>7, Zenon

LEMMA LogicalNegRight ==
  ASSUME NEW x \in Word
  PROVE  logicalNeg(x) = test_logicalNeg(x)
<1> DEFINE h == Half
           minus == Wrap(-x)
           sign == ShiftRight(x, W - 1)
           other == ShiftRight(minus, W - 1)
           ones == -1
<1>1. h \in Nat /\ h >= 128 /\ x \in Int /\ -h <= x /\ x < h
  BY WidthFacts
<1>2. Not(x) + 1 = -x
  BY <1>1 DEF Not
<1>3. logicalNeg(x) = Or(sign, other) + 1
  BY <1>2 DEF logicalNeg
<1>4. minus \in Word /\ (-h <= -x /\ -x < h => minus = -x)
  <2>1. -x \in Int
    BY <1>1
  <2>2. QED
    BY <2>1, WrapIs
<1> HIDE DEF minus
<1>5. sign = (IF x < 0 THEN -1 ELSE 0) /\ other = (IF minus < 0 THEN -1 ELSE 0)
  BY <1>4, TopShift DEF ShiftRight, Half
<1>6. ones \in Word /\ 0 \in Word /\ ones = -1
  BY ZeroAndOnes
<1> HIDE DEF sign, other, ones, h
<1>7. sign \in Word /\ other \in Word
  BY <1>5, <1>6
<1>8. CASE x < 0
  <2>1. Or(ones, other) = ones
    BY <1>6, <1>7, Masks
  <2>2. sign = ones
    BY <1>5, <1>6, <1>8
  <2>3. QED
    BY <1>3, <1>6, <1>8, <2>1, <2>2 DEF test_logicalNeg, Bang
<1>9. CASE x > 0
  <2>1. minus = -x /\ minus < 0
    BY <1>1, <1>4, <1>9
  <2>2. Or(sign, ones) = ones
    BY <1>6, <1>7, Masks
  <2>3. other = ones
    BY <1>5, <1>6, <2>1
  <2>4. QED
    BY <1>3, <1>6, <1>9, <2>2, <2>3 DEF test_logicalNeg, Bang
<1>10. CASE x = 0
  <2>1. minus = 0
    BY <1>1, <1>4, <1>10
  <2>2. sign = 0 /\ other = 0
    BY <1>5, <1>10, <2>1
  <2>3. Or(sign, other) = 0
    BY <1>7, <2>2, OrZero
  <2>4. QED
    BY <1>3, <1>10, <2>3 DEF test_logicalNeg, Bang
<1>11. QED
  BY <1>1, <1>8, <1>9, <1>10

(***************************************************************************)
(* howManyBits looks for the highest bit by halves.                        *)
(***************************************************************************)
LEMMA Widths ==
  ASSUME NEW j \in 0 .. K
  PROVE  /\ W \div 2^j = 2^(K - j) /\ 2^(K - j) \in Nat /\ 2^(K - j) > 0
         /\ j # 0 => 2^(K - (j - 1)) = 2 * 2^(K - j)
<1> DEFINE n == K - j
           p == 2^j
           q == 2^n
<1>1. K \in Nat /\ j \in Nat /\ n \in Nat /\ K = j + n
  BY WidthAssumption
<1> HIDE DEF n
<1>2. p \in Nat /\ p > 0 /\ q \in Nat /\ q > 0 /\ W = p * q
  BY <1>1, PowerType, PowerSum DEF W
<1>3. 2^(n + 1) = 2 * q
  BY <1>1, PowerNext
<1> HIDE DEF p, q
<1>4. p * q <= W /\ W < p * q + p /\ W \in Int
  BY <1>2, WidthFacts
<1>5. W \div p = q
  BY <1>2, <1>4, DivIs
<1>6. n + 1 = K - (j - 1)
  BY <1>1
<1>7. QED
  BY <1>2, <1>3, <1>5, <1>6 DEF n, p, q

(* t is the highest bit of a, or 0 when there is none.                     *)
Highest(t, a) ==
  /\ t \in 0 .. W - 1
  /\ \A m \in Nat : m > 0 => (ShiftRight(a, m) # 0 <=> m <= t)

LEMMA HighestIs ==
  ASSUME NEW a \in Nat, NEW t \in 0 .. W - 1, 2^t <= a, a < 2^(t + 1)
  PROVE  Highest(t, a)
<1>1. t \in Nat /\ t + 1 \in Nat
  BY WidthFacts
<1>2. ASSUME NEW m \in Nat PROVE ShiftRight(a, m) # 0 <=> m <= t
  <2> DEFINE p == 2^m
             d == a \div p
             r == a % p
  <2>1. p \in Nat /\ p > 0
    BY PowerType
  <2>2. m <= t => p <= 2^t
    BY <1>1, PowerMonotone
  <2>3. m > t => 2^(t + 1) <= p
    BY <1>1, PowerMonotone
  <2>4. 2^t \in Nat /\ 2^(t + 1) \in Nat
    BY <1>1, PowerType
  <2> HIDE DEF p
  <2>5. d \in Int /\ r \in Int /\ a = p * d + r /\ 0 <= r /\ r < p
    BY <2>1, DivFacts
  <2> HIDE DEF d, r
  <2>6. m <= t => d # 0
    <3>1. p * 0 = 0
      BY <2>1
    <3>2. d = 0 => a = r
      BY <2>5, <3>1
    <3>3. QED
      BY <2>1, <2>2, <2>4, <2>5, <3>2
  <2>7. m > t => d = 0
    <3>1. p * 0 = 0
      BY <2>1
    <3>2. m > t => p * 0 <= a /\ a < p * 0 + p
      BY <2>1, <2>3, <2>4, <3>1
    <3>3. m > t => a \div p = 0
      BY <2>1, <3>2, DivIs
    <3>4. QED
      BY <3>3 DEF d
  <2>8. ShiftRight(a, m) = d
    BY DEF ShiftRight, d, p
  <2>9. QED
    BY <1>1, <2>6, <2>7, <2>8
<1>3. QED
  BY <1>2 DEF Highest

LEMMA NoneHighest == Highest(0, 0)
<1>1. 0 \in 0 .. W - 1
  BY WidthFacts
<1>2. ASSUME NEW m \in Nat PROVE ShiftRight(0, m) = 0
  <2> DEFINE p == 2^m
  <2>1. p \in Nat /\ p > 0
    BY PowerType
  <2> HIDE DEF p
  <2>2. p * 0 <= 0 /\ 0 < p * 0 + p
    BY <2>1
  <2>3. 0 \div p = 0
    BY <2>1, <2>2, DivIs
  <2>4. QED
    BY <2>3 DEF ShiftRight, p
<1>3. QED
  BY <1>1, <1>2 DEF Highest

LEMMA TopBitExists ==
  ASSUME NEW a \in Nat, a > 0, a < Half
  PROVE  \E t \in 0 .. W - 1 : 2^t <= a /\ a < 2^(t + 1)
<1> DEFINE above == {k \in Nat : a < 2^k}
<1>1. W - 1 \in above
  BY WidthFacts DEF Half
<1>2. PICK m \in above : \A k \in above : m <= k
  <2>1. above \subseteq Nat /\ above # {}
    BY <1>1
  <2> HIDE DEF above
  <2>2. QED
    BY <2>1, LeastOf
<1>3. m # 0
  <2>1. ~(a < 2^0)
    BY PowerZero
  <2>2. 0 \notin above
    BY <2>1
  <2>3. QED
    BY <1>2, <2>2
<1> DEFINE t == m - 1
<1>4. t \in Nat /\ m = t + 1 /\ m <= W - 1
  BY <1>1, <1>2, <1>3
<1>5. t \notin above /\ a < 2^m
  BY <1>2, <1>4
<1> HIDE DEF t
<1>6. 2^t \in Nat
  BY <1>4, PowerType
<1>7. 2^t <= a
  BY <1>4, <1>5, <1>6
<1>8. t \in 0 .. W - 1
  BY <1>4, WidthFacts
<1>9. QED
  BY <1>4, <1>5, <1>7, <1>8

LEMMA TopBitFacts ==
  ASSUME NEW a \in Nat, a > 0, a < Half
  PROVE  /\ TopBit(a) \in 0 .. W - 1 /\ Highest(TopBit(a), a)
         /\ (TopBit(a) = 0 <=> a = 1)
<1>1. TopBit(a) \in 0 .. W - 1 /\ 2^TopBit(a) <= a /\ a < 2^(TopBit(a) + 1)
  BY TopBitExists DEF TopBit
<1> DEFINE t == TopBit(a)
<1>2. t \in 0 .. W - 1 /\ 2^t <= a /\ a < 2^(t + 1)
  BY <1>1
<1> HIDE DEF t
<1>3. Highest(t, a)
  BY <1>2, HighestIs
<1>4. t = 0 => a = 1
  BY <1>2, PowerZero
<1>5. t # 0 => a >= 2
  <2>1. t # 0 => 1 <= t /\ t \in Nat /\ 1 \in Nat
    BY <1>2, WidthFacts
  <2>2. t # 0 => 2^1 <= 2^t
    BY <2>1, PowerMonotone
  <2>3. t # 0 => 2^t \in Nat
    BY <2>1, PowerType
  <2>4. QED
    BY <1>2, <2>2, <2>3, PowerZero
<1>6. QED
  BY <1>2, <1>3, <1>4, <1>5 DEF t

(* By halves: what is below the width looked for so far is not counted.    *)
LEMMA Halving ==
  ASSUME NEW t \in Nat, NEW v \in Nat, v > 0
  PROVE  LET before == t - (t % (2 * v))
         IN  /\ before \in Nat /\ before + v > 0
             /\ t - (t % v) = before + (IF before + v <= t THEN v ELSE 0)
<1> DEFINE d == t \div v
           s == t % v
           h == d \div 2
           b == d % 2
           r == t % (2 * v)
<1>1. d \in Int /\ s \in Int /\ t = v * d + s /\ 0 <= s /\ s < v
  BY DivFacts
<1>2. t \div (2 * v) = h
  BY DivTwice
<1>3. 2 * v \in Nat /\ 2 * v > 0
  OBVIOUS
<1>4. r \in Int /\ t = (2 * v) * h + r /\ 0 <= r /\ r < 2 * v
  BY <1>2, <1>3, DivFacts
<1> HIDE DEF r, s, d
<1>5. h \in Int /\ b \in {0, 1} /\ d = 2 * h + b
  BY <1>1
<1> HIDE DEF h, b
<1>6. v * (2 * h + b) = (2 * v) * h + v * b /\ (2 * v) * h \in Int
  BY <1>5
<1>7. r = v * b + s
  <2> DEFINE c == (2 * v) * h
             e == v * b
  <2>1. c \in Int /\ e \in Int /\ t = c + e + s /\ t = c + r
    <3>1. v * b \in Int
      BY <1>5
    <3>2. QED
      BY <1>1, <1>4, <1>5, <1>6, <3>1
  <2> HIDE DEF c, e
  <2>2. r = e + s
    BY <1>1, <1>4, <2>1
  <2>3. QED
    BY <2>2 DEF e
<1>8. r = (IF b = 1 THEN v ELSE 0) + s
  <2>1. v * 1 = v /\ v * 0 = 0
    OBVIOUS
  <2>2. QED
    BY <1>5, <1>7, <2>1
<1>9. t - r >= 0
  <2>1. h >= 0
    <3>1. d >= 0
      <4>1. ASSUME d < 0 PROVE FALSE
        <5>1. v * d <= v * (-1)
          BY <1>1, <4>1, Times
        <5>2. v * (-1) = -v /\ v * d \in Int
          BY <1>1
        <5>3. QED
          BY <1>1, <5>1, <5>2
      <4>2. QED
        BY <1>1, <4>1
    <3>2. QED
      BY <1>5, <3>1
  <2>2. (2 * v) * h >= 0
    BY <1>3, <1>5, <2>1
  <2>3. QED
    BY <1>4, <1>6, <2>2
<1>10. t - s = (t - r) + (IF (t - r) + v <= t THEN v ELSE 0)
  BY <1>1, <1>4, <1>5, <1>8
<1>11. QED
  BY <1>4, <1>9, <1>10 DEF r, s

LEMMA FoldedIs ==
  ASSUME NEW x \in Word
  PROVE  LET folded == Xor(x, ShiftRight(x, W - 1))
         IN  /\ folded = IF x < 0 THEN -x - 1 ELSE x
             /\ folded \in Nat /\ folded < Half /\ folded \in Word
<1> DEFINE zero == 0
           ones == -1
           sign == ShiftRight(x, W - 1)
<1>1. x \in Int /\ Half \in Nat /\ -Half <= x /\ x < Half /\ zero \in Word /\ ones \in Word
  BY WidthFacts, ZeroAndOnes
<1>2. sign = IF x < 0 THEN ones ELSE zero
  BY TopShift DEF ShiftRight, Half
<1>3. Xor(x, zero) = x /\ Xor(x, ones) = Not(x)
  BY Masks
<1> HIDE DEF zero, ones, sign
<1>4. Xor(x, sign) = IF x < 0 THEN Not(x) ELSE x
  BY <1>2, <1>3
<1>5. Not(x) = -x - 1 /\ Not(x) \in Word
  BY NotIs DEF Not
<1>6. QED
  BY <1>1, <1>4, <1>5 DEF sign

HalvesFrom(a, f) ==
  [j \in 0 .. K |->
     IF j = 0 THEN 0
     ELSE f[j-1] + (IF ShiftRight(a, f[j-1] + W \div 2^j) # 0 THEN W \div 2^j ELSE 0)]

LEMMA Halves ==
  ASSUME NEW a, NEW t, Highest(t, a), NEW f, f = HalvesFrom(a, f)
  PROVE  f[K] = t
<1> DEFINE closed(j) == t - (t % 2^(K - j))
<1>1. K \in Nat /\ t \in Nat /\ t < W
  BY WidthAssumption, WidthFacts DEF Highest
<1>2. \A j \in 0 .. K :
        f[j] = IF j = 0 THEN 0
               ELSE f[j-1] + (IF ShiftRight(a, f[j-1] + W \div 2^j) # 0 THEN W \div 2^j ELSE 0)
  BY DEF HalvesFrom
<1>3. closed(0) = 0
  <2>1. t % W = t
    BY <1>1, WidthFacts
  <2>2. K - 0 = K
    BY <1>1
  <2>3. QED
    BY <1>1, <2>1, <2>2 DEF W
<1>4. closed(K) = t
  <2>1. K - K = 0
    BY <1>1
  <2>2. t % 1 = 0
    BY <1>1
  <2>3. QED
    BY <1>1, <2>1, <2>2, PowerZero
<1>5. ASSUME NEW j \in 0 .. K, j # 0, f[j-1] = closed(j - 1) PROVE f[j] = closed(j)
  <2> DEFINE v == 2^(K - j)
             before == closed(j - 1)
  <2>1. W \div 2^j = v /\ v \in Nat /\ v > 0 /\ 2^(K - (j - 1)) = 2 * v
    BY <1>5, Widths
  <2>2. before = t - (t % (2 * v))
    BY <2>1
  <2>3. closed(j) = t - (t % v)
    OBVIOUS
  <2> HIDE DEF v, before, closed
  <2>4. /\ before \in Nat /\ before + v > 0
        /\ t - (t % v) = before + (IF before + v <= t THEN v ELSE 0)
    BY <1>1, <2>1, <2>2, Halving
  <2>5. ShiftRight(a, before + v) # 0 <=> before + v <= t
    <3>1. before + v \in Nat
      BY <2>1, <2>4
    <3>2. QED
      BY <2>4, <3>1 DEF Highest
  <2>6. f[j] = before + (IF ShiftRight(a, before + v) # 0 THEN v ELSE 0)
    BY <1>2, <1>5, <2>1 DEF before
  <2>7. QED
    BY <2>3, <2>4, <2>5, <2>6
<1> HIDE DEF closed
<1> DEFINE bad == {j \in 0 .. K : f[j] # closed(j)}
<1>6. bad = {}
  <2>1. SUFFICES ASSUME bad # {} PROVE FALSE
    OBVIOUS
  <2>2. PICK j \in bad : \A k \in bad : j <= k
    <3>1. bad \subseteq Nat
      BY <1>1
    <3> HIDE DEF bad
    <3>2. QED
      BY <2>1, <3>1, LeastOf
  <2>3. j \in 0 .. K /\ f[j] # closed(j)
    BY <2>2
  <2>4. j # 0
    BY <1>1, <1>2, <1>3, <2>3
  <2>5. f[j-1] = closed(j - 1)
    BY <1>1, <2>2, <2>4
  <2>6. QED
    BY <1>5, <2>3, <2>4, <2>5
<1>7. f[K] = closed(K)
  BY <1>1, <1>6
<1>8. QED
  BY <1>4, <1>7

(* There is such an f: it is known in closed form.                         *)
LEMMA HalvesExist ==
  ASSUME NEW a, NEW t, Highest(t, a)
  PROVE  \E f : f = HalvesFrom(a, f)
<1> DEFINE closed(j) == t - (t % 2^(K - j))
           f == [j \in 0 .. K |-> closed(j)]
<1>1. K \in Nat /\ t \in Nat /\ t < W
  BY WidthAssumption, WidthFacts DEF Highest
<1>2. closed(0) = 0
  <2>1. t % W = t
    BY <1>1, WidthFacts
  <2>2. K - 0 = K
    BY <1>1
  <2>3. QED
    BY <1>1, <2>1, <2>2 DEF W
<1>3. ASSUME NEW j \in 0 .. K, j # 0
      PROVE  closed(j) = f[j-1] + (IF ShiftRight(a, f[j-1] + W \div 2^j) # 0 THEN W \div 2^j ELSE 0)
  <2> DEFINE v == 2^(K - j)
             before == closed(j - 1)
  <2>1. W \div 2^j = v /\ v \in Nat /\ v > 0 /\ 2^(K - (j - 1)) = 2 * v
    BY <1>3, Widths
  <2>2. before = t - (t % (2 * v))
    BY <2>1
  <2>3. closed(j) = t - (t % v)
    OBVIOUS
  <2>4. f[j-1] = before
    BY <1>1, <1>3
  <2> HIDE DEF v, before, closed, f
  <2>5. /\ before \in Nat /\ before + v > 0
        /\ t - (t % v) = before + (IF before + v <= t THEN v ELSE 0)
    BY <1>1, <2>1, <2>2, Halving
  <2>6. ShiftRight(a, before + v) # 0 <=> before + v <= t
    <3>1. before + v \in Nat
      BY <2>1, <2>5
    <3>2. QED
      BY <2>5, <3>1 DEF Highest
  <2>7. QED
    BY <2>1, <2>3, <2>4, <2>5, <2>6
<1> HIDE DEF closed
<1>4. \A j \in 0 .. K :
        f[j] = IF j = 0 THEN 0
               ELSE f[j-1] + (IF ShiftRight(a, f[j-1] + W \div 2^j) # 0 THEN W \div 2^j ELSE 0)
  BY <1>2, <1>3
<1>5. f = [j \in 0 .. K |-> f[j]]
  OBVIOUS
<1> HIDE DEF f
<1>6. f = HalvesFrom(a, f)
  <2> DEFINE g == HalvesFrom(a, f)
  <2>1. g = [j \in 0 .. K |-> g[j]]
    BY DEF HalvesFrom
  <2>2. \A j \in 0 .. K : g[j] = f[j]
    BY <1>4 DEF HalvesFrom
  <2> HIDE DEF g
  <2>3. f = g
    BY <1>5, <2>1, <2>2
  <2>4. QED
    BY <2>3 DEF g
<1>7. QED
  BY <1>6

LEMMA HowManyBitsRight ==
  ASSUME NEW x \in Word
  PROVE  howManyBits(x) = test_howManyBits(x)
<1> DEFINE folded == Xor(x, ShiftRight(x, W - 1))
           n == CHOOSE f : f = HalvesFrom(folded, f)
           t == IF folded = 0 THEN 0 ELSE TopBit(folded)
<1>1. /\ folded = IF x < 0 THEN -x - 1 ELSE x
      /\ folded \in Nat /\ folded < Half /\ folded \in Word /\ x \in Int
  BY FoldedIs, TopShift
<1>2. howManyBits(x) = n[K] + Bang(Bang(n[K])) + Bang(Xor(1, folded)) + 1
  BY DEF howManyBits, HalvesFrom
<1>3. test_howManyBits(x) = IF folded = 0 THEN 1 ELSE TopBit(folded) + 2
  BY <1>1 DEF test_howManyBits
<1> HIDE DEF folded
<1>4. Highest(t, folded) /\ t \in Nat /\ (folded # 0 => (t = 0 <=> folded = 1))
  <2>1. CASE folded = 0
    BY <2>1, NoneHighest
  <2>2. CASE folded # 0
    BY <1>1, <2>2, TopBitFacts
  <2>3. QED
    BY <2>1, <2>2
<1>5. n = HalvesFrom(folded, n)
  BY <1>4, HalvesExist
<1> HIDE DEF n
<1>6. n[K] = t
  BY <1>4, <1>5, Halves
<1>7. Xor(1, folded) = 0 <=> folded = 1
  <2> DEFINE one == 1
  <2>1. one \in Word /\ one = 1
    BY WidthFacts
  <2> HIDE DEF one
  <2>2. /\ Xor(one, folded) \in Word
        /\ BitsOf(Xor(one, folded)) = (BitsOf(one) \cup BitsOf(folded)) \ (BitsOf(one) \cap BitsOf(folded))
    BY <1>1, <2>1, AndOrXor
  <2>3. Xor(one, folded) = 0 <=> BitsOf(one) = BitsOf(folded)
    BY <2>2, NoBits
  <2>4. BitsOf(one) = BitsOf(folded) <=> one = folded
    BY <1>1, <2>1, SameBits
  <2>5. QED
    BY <2>1, <2>3, <2>4
<1>8. Bang(Xor(1, folded)) = IF folded = 1 THEN 1 ELSE 0
  BY <1>7 DEF Bang
<1>9. Bang(Bang(n[K])) = IF t = 0 THEN 0 ELSE 1
  BY <1>6 DEF Bang
<1>10. CASE folded = 0
  BY <1>2, <1>3, <1>6, <1>8, <1>9, <1>10
<1>11. CASE folded # 0
  <2>1. t = TopBit(folded)
    BY <1>11
  <2> HIDE DEF t
  <2>2. QED
    BY <1>2, <1>3, <1>4, <1>6, <1>8, <1>9, <1>11, <2>1
<1>12. QED
  BY <1>10, <1>11

LEMMA FloatFacts ==
  /\ E \in Nat /\ E >= 2 /\ F \in Nat /\ 2^F \in Nat /\ 2^F > 0
  /\ Bias \in Nat /\ Bias > 0 /\ Inf \in Nat
<1>1. E \in Nat /\ E >= 2 /\ E < W - 2
  BY WidthAssumption DEF W
<1>2. F \in Nat
  BY <1>1, WidthFacts DEF F
<1> DEFINE p == 2^F
           n == E - 1
           q == 2^n
           e == 2^E
<1>3. p \in Nat /\ p > 0 /\ e \in Nat /\ e > 0
  BY <1>1, <1>2, PowerType
<1>4. n \in Nat /\ 1 <= n
  BY <1>1
<1> HIDE DEF n
<1>5. q \in Nat /\ 2 <= q
  BY <1>4, PowerType, PowerMonotone, PowerZero
<1>6. Inf = (e - 1) * p /\ Bias = q - 1
  BY DEF Inf, Bias, n
<1> HIDE DEF p, q, e
<1>7. (e - 1) * p \in Nat
  <2>1. e - 1 \in Nat
    BY <1>3
  <2>2. QED
    BY <1>3, <2>1
<1>8. QED
  BY <1>1, <1>2, <1>3, <1>5, <1>6, <1>7 DEF p

(* The parts of the words that are floats, by what one has half of: the     *)
(* exponents and fractions up to that of one.                              *)
LEMMA FloatBounds ==
  LET p == 2^F
  IN  \E x \in Nat : /\ x >= 2 * p /\ Half = 2 * x /\ Inf = 2 * x - p /\ Bias * p = x - p
                    /\ p = 2 * 2^(F - 1) /\ 2^(F - 1) \in Nat
<1> DEFINE p == 2^F
           l == F - 1
           n == E - 1
           q == 2^n
           e == 2^E
           x == q * p
<1>1. E \in Nat /\ E >= 2 /\ E < W - 2 /\ W \in Nat /\ F = W - 1 - E /\ F \in Nat
  BY FloatFacts, WidthFacts, WidthAssumption DEF W, F
<1>2. l \in Nat /\ n \in Nat /\ l + 1 = F /\ n + 1 = E /\ F + E = W - 1
  BY <1>1
<1>3. p \in Nat /\ p > 0 /\ 2^l \in Nat /\ p = 2 * 2^l
  <2>1. 2^(l + 1) = 2 * 2^l
    BY <1>2, PowerNext
  <2>2. QED
    BY <1>1, <1>2, <2>1, PowerType
<1>4. q \in Nat /\ q >= 2 /\ e = 2 * q
  <2>1. 2^(n + 1) = 2 * 2^n
    BY <1>2, PowerNext
  <2>2. q \in Nat
    BY <1>2, PowerType
  <2>3. q = Bias + 1 /\ Bias \in Nat /\ Bias > 0
    BY <2>2, FloatFacts DEF Bias
  <2>4. QED
    BY <1>2, <2>1, <2>2, <2>3
<1>5. Half = p * e
  <2>1. 2^(F + E) = 2^F * 2^E
    BY <1>1, PowerSum
  <2>2. QED
    BY <1>2, <2>1 DEF Half
<1>6. Inf = (e - 1) * p /\ Bias * p = (q - 1) * p
  BY DEF Inf, Bias
<1> HIDE DEF p, q, e
<1>7. x \in Nat /\ x >= 2 * p
  BY <1>3, <1>4
<1>8. p * e = 2 * x /\ (e - 1) * p = 2 * x - p /\ (q - 1) * p = x - p
  BY <1>3, <1>4
<1> HIDE DEF x
<1>9. Half = 2 * x /\ Inf = 2 * x - p /\ Bias * p = x - p
  BY <1>5, <1>6, <1>8
<1>10. QED
  BY <1>3, <1>7, <1>9 DEF p, l

(* The stubs are wrong for 0.                                              *)
LEMMA FloatsWrong ==
  /\ floatStub # test_float_twice(0)
  /\ floatStub # test_float_i2f(0)
  /\ floatStub # test_float_f2i(0)
<1> DEFINE zero == 0
<1>1. Half \in Nat /\ Half > 0 /\ zero \in Int /\ zero = 0
  BY WidthFacts
<1>2. 2^F \in Nat /\ 2^F > 0 /\ Bias \in Nat /\ Bias > 0 /\ Inf \in Nat
  BY FloatFacts
<1>3. Magnitude(zero) = 0
  BY <1>1 DEF Magnitude, Half
<1>4. test_float_twice(zero) = 0
  <2> DEFINE m == Magnitude(zero)
             p == 2^F
  <2>1. m \in Int /\ m = 0 /\ p \in Nat /\ p > 0
    BY <1>2, <1>3
  <2> HIDE DEF m
  <2>2. ~IsNan(zero)
    BY <1>2, <2>1 DEF IsNan, m
  <2>3. SignOf(zero) = 0
    BY <1>1 DEF SignOf
  <2>4. test_float_twice(zero) =
          IF IsNan(zero) THEN zero
          ELSE SignOf(zero) + (IF m < p THEN 2 * m ELSE IF m + p < Inf THEN m + p ELSE Inf)
    BY DEF test_float_twice, m
  <2> HIDE DEF p, zero
  <2>5. QED
    BY <2>1, <2>2, <2>3, <2>4
<1>5. test_float_i2f(zero) = 0
  BY DEF test_float_i2f
<1>6. test_float_f2i(zero) = 0
  <2> DEFINE p == 2^F
             exponent == Magnitude(zero) \div p - Bias
             whole == ((p + (Magnitude(zero) % p)) * 2^exponent) \div p
  <2>1. test_float_f2i(zero) =
          IF exponent >= W-1 THEN TMin
          ELSE IF exponent < 0 THEN 0 ELSE IF zero < 0 THEN -whole ELSE whole
    BY DEF test_float_f2i
  <2> HIDE DEF whole
  <2>2. p \in Nat /\ p > 0
    BY <1>2
  <2> HIDE DEF p
  <2>3. p * 0 <= 0 /\ 0 < p * 0 + p
    BY <2>2
  <2>4. 0 \div p = 0
    BY <2>2, <2>3, DivIs
  <2>5. exponent = 0 - Bias
    BY <1>3, <2>4
  <2> HIDE DEF exponent
  <2>6. exponent \in Int /\ exponent < 0
    BY <1>2, <2>5
  <2>7. exponent < W - 1
    BY <2>6, WidthFacts
  <2>8. QED
    BY <2>1, <2>6, <2>7, WidthFacts
<1>7. floatStub = 2 /\ 2 # 0
  BY DEF floatStub
<1>8. QED
  BY <1>4, <1>5, <1>6, <1>7

(***************************************************************************)
(* The table of puzzles.                                                   *)
(***************************************************************************)
LEMMA Table ==
  /\ Len(test_set) = 13 /\ DOMAIN test_set = 1 .. 13
  /\ test_set[1] = Puzzle("bitXor", 2, 1, TMin, TMax)
  /\ test_set[2] = Puzzle("tmin", 0, 1, TMin, TMax)
  /\ test_set[3] = Puzzle("isTmax", 1, 2, TMin, TMax)
  /\ test_set[4] = Puzzle("allOddBits", 1, 2, TMin, TMax)
  /\ test_set[5] = Puzzle("negate", 1, 2, TMin, TMax)
  /\ test_set[6] = Puzzle("isAsciiDigit", 1, 3, TMin, TMax)
  /\ test_set[7] = Puzzle("conditional", 3, 3, TMin, TMax)
  /\ test_set[8] = Puzzle("isLessOrEqual", 2, 3, TMin, TMax)
  /\ test_set[9] = Puzzle("logicalNeg", 1, 4, TMin, TMax)
  /\ test_set[10] = Puzzle("howManyBits", 1, 4, TMin, TMax)
  /\ test_set[11] = Puzzle("float_twice", 1, 4, 1, 1)
  /\ test_set[12] = Puzzle("float_i2f", 1, 4, 1, 1)
  /\ test_set[13] = Puzzle("float_f2i", 1, 4, 1, 1)
  BY DEF test_set

LEMMA Solutions ==
  ASSUME NEW name, NEW a, NEW w
  PROVE  /\ name = "bitXor" => solution(name, a, w) = bitXor(a[1], a[2])
         /\ name = "tmin" => solution(name, a, w) = tmin
         /\ name = "isTmax" => solution(name, a, w) = isTmax(a[1])
         /\ name = "allOddBits" => solution(name, a, w) = allOddBits(a[1])
         /\ name = "negate" => solution(name, a, w) = negate(a[1])
         /\ name = "isAsciiDigit" => solution(name, a, w) = isAsciiDigit(a[1])
         /\ name = "conditional" => solution(name, a, w) = conditional(a[1], a[2], a[3])
         /\ name = "isLessOrEqual" => solution(name, a, w) = isLessOrEqual(a[1], a[2], w)
         /\ name = "logicalNeg" => solution(name, a, w) = logicalNeg(a[1])
         /\ name = "howManyBits" => solution(name, a, w) = howManyBits(a[1])
         /\ name = "float_twice" => solution(name, a, w) = floatStub
         /\ name = "float_i2f" => solution(name, a, w) = floatStub
         /\ name = "float_f2i" => solution(name, a, w) = floatStub
  BY DEF solution, Floats

LEMMA References ==
  ASSUME NEW name, NEW a
  PROVE  /\ name = "bitXor" => reference(name, a) = test_bitXor(a[1], a[2])
         /\ name = "tmin" => reference(name, a) = test_tmin
         /\ name = "isTmax" => reference(name, a) = test_isTmax(a[1])
         /\ name = "allOddBits" => reference(name, a) = test_allOddBits(a[1])
         /\ name = "negate" => reference(name, a) = test_negate(a[1])
         /\ name = "isAsciiDigit" => reference(name, a) = test_isAsciiDigit(a[1])
         /\ name = "conditional" => reference(name, a) = test_conditional(a[1], a[2], a[3])
         /\ name = "isLessOrEqual" => reference(name, a) = test_isLessOrEqual(a[1], a[2])
         /\ name = "logicalNeg" => reference(name, a) = test_logicalNeg(a[1])
         /\ name = "howManyBits" => reference(name, a) = test_howManyBits(a[1])
         /\ name = "float_twice" => reference(name, a) = test_float_twice(a[1])
         /\ name = "float_i2f" => reference(name, a) = test_float_i2f(a[1])
         /\ name = "float_f2i" => reference(name, a) = test_float_f2i(a[1])
  BY DEF reference

(* A puzzle of bits.c that is not a stub equals its reference of tests.c   *)
(* for all words of any width, isLessOrEqual where y - x is a word or the  *)
(* build does not wrap.                                                    *)
THEOREM PuzzleRight ==
  ASSUME NEW j \in 1 .. 13, NEW a \in [1 .. test_set[j].args -> Word], NEW w \in BOOLEAN,
         test_set[j].name \notin Floats,
         test_set[j].name = "isLessOrEqual" => ~w \/ a[2] - a[1] \in Word
  PROVE  solution(test_set[j].name, a, w) = reference(test_set[j].name, a)
<1> DEFINE name == test_set[j].name
           args == test_set[j].args
<1>1. (args >= 1 => a[1] \in Word) /\ (args >= 2 => a[2] \in Word) /\ (args >= 3 => a[3] \in Word)
  <2>1. args \in 0 .. 3
    BY Table DEF Puzzle
  <2> HIDE DEF args
  <2>2. QED
    BY <2>1 DEF args
<1>2. CASE j = 1
  <2>1. name = "bitXor" /\ args = 2
    BY <1>2, Table DEF Puzzle
  <2>2. bitXor(a[1], a[2]) = test_bitXor(a[1], a[2])
    BY <1>1, <2>1, XorRight
  <2> HIDE DEF name
  <2>3. solution(name, a, w) = reference(name, a)
    BY <2>1, <2>2, Solutions, References
  <2>4. QED
    BY <2>3 DEF name
<1>3. CASE j = 2
  <2>1. name = "tmin" /\ args = 0
    BY <1>3, Table DEF Puzzle
  <2>2. tmin = test_tmin
    BY <1>1, <2>1, TminRight
  <2> HIDE DEF name
  <2>3. solution(name, a, w) = reference(name, a)
    BY <2>1, <2>2, Solutions, References
  <2>4. QED
    BY <2>3 DEF name
<1>4. CASE j = 3
  <2>1. name = "isTmax" /\ args = 1
    BY <1>4, Table DEF Puzzle
  <2>2. isTmax(a[1]) = test_isTmax(a[1])
    BY <1>1, <2>1, TmaxRight
  <2> HIDE DEF name
  <2>3. solution(name, a, w) = reference(name, a)
    BY <2>1, <2>2, Solutions, References
  <2>4. QED
    BY <2>3 DEF name
<1>5. CASE j = 4
  <2>1. name = "allOddBits" /\ args = 1
    BY <1>5, Table DEF Puzzle
  <2>2. allOddBits(a[1]) = test_allOddBits(a[1])
    BY <1>1, <2>1, OddBitsRight
  <2> HIDE DEF name
  <2>3. solution(name, a, w) = reference(name, a)
    BY <2>1, <2>2, Solutions, References
  <2>4. QED
    BY <2>3 DEF name
<1>6. CASE j = 5
  <2>1. name = "negate" /\ args = 1
    BY <1>6, Table DEF Puzzle
  <2>2. negate(a[1]) = test_negate(a[1])
    BY <1>1, <2>1, NegateRight
  <2> HIDE DEF name
  <2>3. solution(name, a, w) = reference(name, a)
    BY <2>1, <2>2, Solutions, References
  <2>4. QED
    BY <2>3 DEF name
<1>7. CASE j = 6
  <2>1. name = "isAsciiDigit" /\ args = 1
    BY <1>7, Table DEF Puzzle
  <2>2. isAsciiDigit(a[1]) = test_isAsciiDigit(a[1])
    BY <1>1, <2>1, AsciiDigitRight
  <2> HIDE DEF name
  <2>3. solution(name, a, w) = reference(name, a)
    BY <2>1, <2>2, Solutions, References
  <2>4. QED
    BY <2>3 DEF name
<1>8. CASE j = 7
  <2>1. name = "conditional" /\ args = 3
    BY <1>8, Table DEF Puzzle
  <2>2. conditional(a[1], a[2], a[3]) = test_conditional(a[1], a[2], a[3])
    BY <1>1, <2>1, ConditionalRight
  <2> HIDE DEF name
  <2>3. solution(name, a, w) = reference(name, a)
    BY <2>1, <2>2, Solutions, References
  <2>4. QED
    BY <2>3 DEF name
<1>9. CASE j = 8
  <2>1. name = "isLessOrEqual" /\ args = 2
    BY <1>9, Table DEF Puzzle
  <2>2. isLessOrEqual(a[1], a[2], w) = test_isLessOrEqual(a[1], a[2])
    BY <1>1, <2>1, LessOrEqualRight
  <2> HIDE DEF name
  <2>3. solution(name, a, w) = reference(name, a)
    BY <2>1, <2>2, Solutions, References
  <2>4. QED
    BY <2>3 DEF name
<1>10. CASE j = 9
  <2>1. name = "logicalNeg" /\ args = 1
    BY <1>10, Table DEF Puzzle
  <2>2. logicalNeg(a[1]) = test_logicalNeg(a[1])
    BY <1>1, <2>1, LogicalNegRight
  <2> HIDE DEF name
  <2>3. solution(name, a, w) = reference(name, a)
    BY <2>1, <2>2, Solutions, References
  <2>4. QED
    BY <2>3 DEF name
<1>11. CASE j = 10
  <2>1. name = "howManyBits" /\ args = 1
    BY <1>11, Table DEF Puzzle
  <2>2. howManyBits(a[1]) = test_howManyBits(a[1])
    BY <1>1, <2>1, HowManyBitsRight
  <2> HIDE DEF name
  <2>3. solution(name, a, w) = reference(name, a)
    BY <2>1, <2>2, Solutions, References
  <2>4. QED
    BY <2>3 DEF name
<1>12. CASE j \in {11, 12, 13}
  BY <1>12, Table DEF Puzzle, Floats
<1>13. QED
  BY <1>2, <1>3, <1>4, <1>5, <1>6, <1>7, <1>8, <1>9, <1>10, <1>11, <1>12

(* The right puzzles are those that are neither stubs nor isLessOrEqual in *)
(* the build that wraps.                                                   *)
THEOREM RightIs ==
  ASSUME NEW w \in BOOLEAN, NEW j \in 1 .. 13
  PROVE  test_set[j] \in Right(w) <=> (test_set[j].name \notin Floats /\ ~(test_set[j].name = "isLessOrEqual" /\ w))
<1> DEFINE p == test_set[j]
<1>1. p \in ToSet(test_set) /\ p.args \in 0 .. 3
  BY Table DEF ToSet, Puzzle
<1>2. p \in Right(w) <=> \A a \in Inputs(p.args) : solution(p.name, a, w) = reference(p.name, a)
  BY <1>1 DEF Right
<1>3. \A a \in Inputs(p.args) : a \in [1 .. p.args -> Word]
  <2> DEFINE n == p.args
  <2>1. n = 0 => Inputs(n) = {<<>>}
    BY DEF Inputs
  <2>2. n = 1 => Inputs(n) = {<<x>> : x \in Word}
    BY DEF Inputs
  <2>3. n = 2 => Inputs(n) = Word \X Word
    BY DEF Inputs
  <2>4. n = 3 => Inputs(n) = Word \X Sample \X Sample
    BY DEF Inputs
  <2>5. Sample \subseteq Word
    BY BTestAssumption
  <2>6. n \in {0, 1, 2, 3}
    BY <1>1
  <2> HIDE DEF n
  <2>7. \A a \in Inputs(n) : a \in [1 .. n -> Word]
    <3>1. CASE n = 0
      <4>1. <<>> \in Seq(Word) /\ Len(<<>>) = 0
        BY EmptySeq
      <4>2. <<>> \in [1 .. 0 -> Word]
        BY <4>1, LenProperties
      <4>3. QED
        BY <2>1, <3>1, <4>2
    <3>2. CASE n = 1
      BY <2>2, <3>2
    <3>3. CASE n = 2
      BY <2>3, <3>3
    <3>4. CASE n = 3
      BY <2>4, <2>5, <3>4
    <3>5. QED
      BY <2>6, <3>1, <3>2, <3>3, <3>4
  <2>8. QED
    BY <2>7 DEF n
<1>4. ASSUME p.name \notin Floats, ~(p.name = "isLessOrEqual" /\ w) PROVE p \in Right(w)
  <2>1. \A a \in Inputs(p.args) : solution(p.name, a, w) = reference(p.name, a)
    BY <1>3, <1>4, PuzzleRight
  <2>2. QED
    BY <1>2, <2>1
<1>5. ASSUME p.name \in Floats PROVE p \notin Right(w)
  <2> DEFINE a == <<0>>
             name == p.name
  <2>1. p.args = 1
    BY <1>5, Table DEF Puzzle, Floats
  <2>2. a \in Inputs(p.args) /\ a[1] = 0
    BY <2>1, ZeroAndOnes DEF Inputs
  <2> HIDE DEF a
  <2>3. name \in {"float_twice", "float_i2f", "float_f2i"}
    BY <1>5 DEF Floats
  <2> HIDE DEF name
  <2>4. solution(name, a, w) # reference(name, a)
    BY <2>2, <2>3, FloatsWrong, Solutions, References
  <2>5. QED
    BY <1>2, <2>2, <2>4 DEF name
<1>6. ASSUME p.name = "isLessOrEqual", w PROVE p \notin Right(w)
  <2> DEFINE a == <<TMin, TMax>>
             name == p.name
  <2>1. p.args = 2
    BY <1>6, Table DEF Puzzle
  <2>2. a \in Inputs(p.args) /\ a[1] = TMin /\ a[2] = TMax
    <3>1. TMin \in Word /\ TMax \in Word
      BY WidthFacts
    <3>2. QED
      BY <2>1, <3>1 DEF Inputs
  <2> HIDE DEF a
  <2>3. name = "isLessOrEqual"
    BY <1>6
  <2> HIDE DEF name
  <2>4. solution(name, a, w) # reference(name, a)
    <3>1. solution(name, a, w) = isLessOrEqual(a[1], a[2], w)
      BY <2>3, Solutions
    <3>2. reference(name, a) = test_isLessOrEqual(a[1], a[2])
      BY <2>3, References
    <3>3. isLessOrEqual(a[1], a[2], w) # test_isLessOrEqual(a[1], a[2])
      BY <1>6, <2>2, LessOrEqualWrong
    <3>4. QED
      BY <3>1, <3>2, <3>3
  <2>5. QED
    BY <1>2, <2>2, <2>4 DEF name
<1>7. QED
  BY <1>4, <1>5, <1>6

(***************************************************************************)
(* The values of gen_vals.                                                 *)
(***************************************************************************)
(* f gives what the first of the sequences in s flatten to.                *)
Flattens(T, s, f) ==
  /\ f \in [1 .. Len(s) -> Seq(T)]
  /\ f[1] = s[1]
  /\ \A c \in 2 .. Len(s) : f[c] = f[c - 1] \o s[c]

LEMMA FlattensExist ==
  ASSUME NEW T, NEW s \in Seq(Seq(T)), s # <<>>
  PROVE  \E f : Flattens(T, s, f)
<1> DEFINE n == Len(s)
           Upto(m) == \E f \in [1 .. m -> Seq(T)] :
                        f[1] = s[1] /\ \A c \in 2 .. m : f[c] = f[c - 1] \o s[c]
           bad == {m \in 1 .. n : ~Upto(m)}
<1>1. n \in Nat \ {0} /\ \A c \in 1 .. n : s[c] \in Seq(T)
  BY EmptySeq, LenProperties, ElementOfSeq
<1> HIDE DEF n
<1>2. Upto(1)
  <2> DEFINE f == [c \in 1 .. 1 |-> s[1]]
  <2>1. s[1] \in Seq(T) /\ 2 .. 1 = {}
    BY <1>1
  <2>2. f \in [1 .. 1 -> Seq(T)] /\ f[1] = s[1]
    BY <2>1
  <2> HIDE DEF f
  <2>3. QED
    BY <2>1, <2>2
<1>3. ASSUME NEW m \in 2 .. n, Upto(m - 1) PROVE Upto(m)
  <2>1. PICK h \in [1 .. m - 1 -> Seq(T)] :
          h[1] = s[1] /\ \A c \in 2 .. m - 1 : h[c] = h[c - 1] \o s[c]
    BY <1>3
  <2> DEFINE last == h[m - 1] \o s[m]
             f == [c \in 1 .. m |-> IF c = m THEN last ELSE h[c]]
  <2>2. last \in Seq(T)
    <3>1. h[m - 1] \in Seq(T) /\ s[m] \in Seq(T)
      BY <1>1, <2>1
    <3>2. QED
      BY <3>1, ConcatProperties
  <2>3. last = h[m - 1] \o s[m]
    OBVIOUS
  <2> HIDE DEF last
  <2>4. f \in [1 .. m -> Seq(T)] /\ f[m] = last /\ \A c \in 1 .. m - 1 : f[c] = h[c]
    <3>1. \A c \in 1 .. m : (c # m) => c \in 1 .. m - 1
      OBVIOUS
    <3>2. \A c \in 1 .. m - 1 : c \in 1 .. m /\ c # m
      OBVIOUS
    <3>3. m \in 1 .. m
      OBVIOUS
    <3>4. QED
      BY <2>1, <2>2, <3>1, <3>2, <3>3
  <2> HIDE DEF f
  <2>5. f[1] = s[1]
    <3>1. 1 \in 1 .. m - 1
      OBVIOUS
    <3>2. QED
      BY <2>1, <2>4, <3>1
  <2>6. ASSUME NEW c \in 2 .. m PROVE f[c] = f[c - 1] \o s[c]
    <3>1. c - 1 \in 1 .. m - 1
      OBVIOUS
    <3>2. CASE c = m
      BY <2>3, <2>4, <3>1, <3>2
    <3>3. CASE c # m
      <4>1. c \in 1 .. m - 1 /\ c \in 2 .. m - 1
        BY <3>3
      <4>2. QED
        BY <2>1, <2>4, <3>1, <4>1
    <3>4. QED
      BY <3>2, <3>3
  <2>7. QED
    BY <2>4, <2>5, <2>6
<1> HIDE DEF Upto
<1>4. bad = {}
  <2>1. SUFFICES ASSUME bad # {} PROVE FALSE
    OBVIOUS
  <2>2. PICK m \in bad : \A k \in bad : m <= k
    <3>1. bad \subseteq Nat
      OBVIOUS
    <3> HIDE DEF bad
    <3>2. QED
      BY <2>1, <3>1, LeastOf
  <2>3. m \in 2 .. n /\ m - 1 \in 1 .. n /\ m - 1 \notin bad
    BY <1>1, <1>2, <2>2
  <2>4. QED
    BY <1>3, <2>2, <2>3
<1>5. Upto(n)
  BY <1>1, <1>4
<1>6. QED
  BY <1>5 DEF Upto, Flattens, n

LEMMA FlattenIs ==
  ASSUME NEW T, NEW s \in Seq(Seq(T)), s # <<>>, NEW f, Flattens(T, s, f)
  PROVE  FlattenSeq(s) = f[Len(s)]
<1> DEFINE n == Len(s)
           Next1(g) == [c \in 1 .. n |-> IF c = 1 THEN s[c] ELSE g[c - 1] \o s[c]]
           flatten == CHOOSE g : g = Next1(g)
<1>1. n \in Nat \ {0}
  BY EmptySeq
<1>2. FlattenSeq(s) = flatten[n]
  BY <1>1 DEF FlattenSeq
<1> HIDE DEF n
<1>3. f \in [1 .. n -> Seq(T)] /\ f[1] = s[1] /\ \A c \in 2 .. n : f[c] = f[c - 1] \o s[c]
  BY DEF Flattens, n
<1>4. f = Next1(f)
  <2>1. \A c \in 1 .. n : (c # 1) => c \in 2 .. n
    BY <1>1
  <2>2. \A c \in 1 .. n : f[c] = IF c = 1 THEN s[c] ELSE f[c - 1] \o s[c]
    BY <1>3, <2>1
  <2>3. f = [c \in 1 .. n |-> f[c]]
    BY <1>3
  <2>4. QED
    BY <2>2, <2>3
<1>5. flatten = Next1(flatten)
  BY <1>4
<1> HIDE DEF flatten
<1>6. flatten[1] = s[1] /\ \A c \in 2 .. n : flatten[c] = flatten[c - 1] \o s[c]
  <2>1. 1 \in 1 .. n /\ \A c \in 2 .. n : c \in 1 .. n /\ c # 1
    BY <1>1
  <2>2. QED
    BY <1>5, <2>1
<1> DEFINE bad == {c \in 1 .. n : flatten[c] # f[c]}
<1>7. bad = {}
  <2>1. SUFFICES ASSUME bad # {} PROVE FALSE
    OBVIOUS
  <2>2. PICK c \in bad : \A k \in bad : c <= k
    <3>1. bad \subseteq Nat
      OBVIOUS
    <3> HIDE DEF bad
    <3>2. QED
      BY <2>1, <3>1, LeastOf
  <2>3. c \in 2 .. n /\ c - 1 \in 1 .. n /\ c - 1 \notin bad
    BY <1>1, <1>3, <1>6, <2>2
  <2>4. flatten[c - 1] = f[c - 1] /\ flatten[c] # f[c]
    BY <2>2, <2>3
  <2>5. QED
    BY <1>3, <1>6, <2>3, <2>4
<1>8. QED
  BY <1>1, <1>2, <1>7 DEF n

LEMMA FlattenStarts ==
  ASSUME NEW T, NEW s \in Seq(Seq(T)), s # <<>>
  PROVE  /\ FlattenSeq(s) \in Seq(T) /\ Len(FlattenSeq(s)) >= Len(s[1])
         /\ \A c \in 1 .. Len(s[1]) : FlattenSeq(s)[c] = s[1][c]
<1> DEFINE n == Len(s)
<1>1. n \in Nat \ {0} /\ \A c \in 1 .. n : s[c] \in Seq(T)
  BY EmptySeq, LenProperties, ElementOfSeq
<1>2. PICK f : Flattens(T, s, f)
  BY FlattensExist
<1>3. FlattenSeq(s) = f[n]
  BY <1>2, FlattenIs
<1>4. f \in [1 .. n -> Seq(T)] /\ f[1] = s[1] /\ \A c \in 2 .. n : f[c] = f[c - 1] \o s[c]
  BY <1>2 DEF Flattens
<1> HIDE DEF n
<1> DEFINE starts(t) == Len(t) >= Len(s[1]) /\ \A c \in 1 .. Len(s[1]) : t[c] = s[1][c]
           bad == {c \in 1 .. n : ~starts(f[c])}
<1>5. Len(s[1]) \in Nat
  BY <1>1, LenProperties
<1>6. starts(f[1])
  BY <1>4, <1>5
<1>7. ASSUME NEW c \in 2 .. n, starts(f[c - 1]) PROVE starts(f[c])
  <2> DEFINE u == f[c - 1]
             v == s[c]
             k == Len(s[1])
  <2>1. u \in Seq(T) /\ v \in Seq(T) /\ f[c] = u \o v /\ k \in Nat
    <3>1. c \in 1 .. n /\ c - 1 \in 1 .. n
      BY <1>1, <1>7
    <3>2. QED
      BY <1>1, <1>4, <1>5, <1>7, <3>1
  <2>2. Len(u) >= k /\ \A d \in 1 .. k : u[d] = s[1][d]
    BY <1>7
  <2> HIDE DEF u, v, k
  <2>3. /\ Len(u \o v) = Len(u) + Len(v) /\ Len(u) \in Nat /\ Len(v) \in Nat
        /\ \A d \in 1 .. Len(u) : (u \o v)[d] = u[d]
    BY <2>1, LenProperties, ConcatProperties
  <2>4. \A d \in 1 .. k : d \in 1 .. Len(u)
    BY <2>1, <2>2, <2>3
  <2>5. Len(u \o v) >= k /\ \A d \in 1 .. k : (u \o v)[d] = s[1][d]
    BY <2>1, <2>2, <2>3, <2>4
  <2>6. QED
    BY <2>1, <2>5 DEF k
<1> HIDE DEF starts
<1>8. bad = {}
  <2>1. SUFFICES ASSUME bad # {} PROVE FALSE
    OBVIOUS
  <2>2. PICK c \in bad : \A k \in bad : c <= k
    <3>1. bad \subseteq Nat
      OBVIOUS
    <3> HIDE DEF bad
    <3>2. QED
      BY <2>1, <3>1, LeastOf
  <2>3. c \in 2 .. n /\ c - 1 \in 1 .. n /\ c - 1 \notin bad
    BY <1>1, <1>6, <2>2
  <2>4. QED
    BY <1>7, <2>2, <2>3
<1>9. starts(f[n]) /\ f[n] \in Seq(T)
  <2>1. n \in 1 .. n /\ n \notin bad
    BY <1>1, <1>8
  <2>2. QED
    BY <1>4, <2>1
<1>10. QED
  BY <1>3, <1>9 DEF starts

GoodValues(name, given, v) ==
  /\ v \in Seq(Word) /\ Len(v) \in Nat \ {0}
  /\ ~given /\ name \in Floats => v[1] = 0
  /\ ~given /\ name \notin Floats => v[1] = TMin /\ \E m \in 1 .. Len(v) : v[m] = TMax

LEMMA FloatsGood ==
  ASSUME NEW r \in Nat, r > 0
  PROVE  FloatValues(r) \in Seq(Word) /\ Len(FloatValues(r)) \in Nat \ {0} /\ FloatValues(r)[1] = 0
<1> DEFINE sn == 2^F
           one == Bias * 2^F
           ln == Inf - 1
           both(u) == <<u, TMin + u>>
           range == IF r > 2^F THEN 2^F ELSE r
           around(u, n) == <<u + n, u - n, TMin + (u + n), TMin + (u - n)>>
           round(n) == both(n) \o around(sn, n) \o around(one, n) \o both(ln - n)
           s == [n \in 1 .. range |-> round(n - 1)]
           last == 2^(F-1)
<1>1. FloatValues(r) = FlattenSeq(s) \o both(Inf) \o both(Inf + last)
  BY DEF FloatValues
<1>2. PICK c \in Nat : /\ c >= 2 * sn /\ Half = 2 * c /\ Inf = 2 * c - sn /\ one = c - sn
                      /\ sn = 2 * last /\ last \in Nat
  BY FloatBounds
<1>3. sn \in Nat /\ sn > 0 /\ ln = 2 * c - sn - 1 /\ range \in 1 .. sn
  BY <1>2, FloatFacts
<1>4. ASSUME NEW u \in 0 .. Half - 1
      PROVE  both(u) \in Seq(Word) /\ Len(both(u)) = 2 /\ both(u)[1] = u /\ u \in Word /\ TMin + u \in Word
  <2> DEFINE h == Half
  <2>1. h \in Nat /\ TMin = -h /\ Word = -h .. h - 1
    BY WidthFacts
  <2> HIDE DEF h
  <2>2. u \in Word /\ TMin + u \in Word
    BY <2>1 DEF h
  <2>3. QED
    BY <2>2
<1> HIDE DEF sn, one, ln, range, last, both
<1>5. ASSUME NEW n \in 0 .. range - 1 PROVE round(n) \in Seq(Word) /\ Len(round(n)) >= 2 /\ round(n)[1] = n
  <2>1. both(n) \in Seq(Word) /\ Len(both(n)) = 2 /\ both(n)[1] = n
    <3>1. n \in 0 .. Half - 1
      BY <1>2, <1>3
    <3>2. QED
      BY <1>4, <3>1
  <2>2. around(sn, n) \in Seq(Word) /\ around(one, n) \in Seq(Word) /\ both(ln - n) \in Seq(Word)
    <3>1. /\ sn + n \in 0 .. Half - 1 /\ sn - n \in 0 .. Half - 1
          /\ one + n \in 0 .. Half - 1 /\ one - n \in 0 .. Half - 1 /\ ln - n \in 0 .. Half - 1
      BY <1>2, <1>3
    <3>2. /\ sn + n \in Word /\ TMin + (sn + n) \in Word /\ sn - n \in Word /\ TMin + (sn - n) \in Word
          /\ one + n \in Word /\ TMin + (one + n) \in Word /\ one - n \in Word /\ TMin + (one - n) \in Word
          /\ both(ln - n) \in Seq(Word)
      BY <1>4, <3>1
    <3>3. \A w, x, y, z \in Word : <<w, x, y, z>> \in Seq(Word)
      OBVIOUS
    <3>4. QED
      BY <3>2, <3>3
  <2> HIDE DEF around
  <2> DEFINE starts(t) == t \in Seq(Word) /\ Len(t) >= 2 /\ t[1] = n
  <2>3. ASSUME NEW t \in Seq(Word), NEW x \in Seq(Word), starts(t) PROVE starts(t \o x)
    BY <2>3, ConcatProperties, LenProperties
  <2>4. starts(both(n))
    BY <2>1
  <2> HIDE DEF starts
  <2>5. \A t \in Seq(Word), x \in Seq(Word) : starts(t) => starts(t \o x)
    BY <2>3
  <2>6. \A t : starts(t) => t \in Seq(Word)
    BY DEF starts
  <2>7. starts(both(n) \o around(sn, n))
    BY <2>2, <2>4, <2>5, <2>6
  <2>8. starts(both(n) \o around(sn, n) \o around(one, n))
    BY <2>2, <2>7, <2>5, <2>6
  <2>9. starts(round(n))
    BY <2>2, <2>8, <2>5, <2>6
  <2>10. QED
    BY <2>9 DEF starts
<1> HIDE DEF round
<1>6. s \in Seq(Seq(Word)) /\ Len(s) = range /\ s[1] = round(0)
  <2>1. \A n \in 1 .. range : n - 1 \in 0 .. range - 1
    BY <1>3
  <2>2. \A n \in 1 .. range : round(n - 1) \in Seq(Word)
    BY <1>5, <2>1
  <2>3. 1 \in 1 .. range /\ 1 - 1 = 0
    BY <1>3
  <2>4. QED
    BY <1>3, <2>2, <2>3
<1>7. s # <<>> /\ Len(s[1]) >= 2 /\ s[1][1] = 0
  <2>1. Len(round(0)) >= 2 /\ round(0)[1] = 0
    <3>1. 0 \in 0 .. range - 1
      BY <1>3
    <3>2. QED
      BY <1>5, <3>1
  <2>2. Len(s) # 0
    BY <1>3, <1>6
  <2> HIDE DEF s
  <2>3. s # <<>>
    BY <2>2, <1>6, EmptySeq
  <2>4. QED
    BY <1>6, <2>1, <2>3
<1> HIDE DEF s
<1> DEFINE f == FlattenSeq(s)
<1>8. f \in Seq(Word) /\ Len(f) >= 2 /\ f[1] = 0
  <2>1. s[1] \in Seq(Word)
    BY <1>6, <1>7, EmptySeq, LenProperties, ElementOfSeq
  <2>2. Len(s[1]) \in Nat /\ 1 \in 1 .. Len(s[1])
    BY <1>7, <2>1, LenProperties
  <2>3. f \in Seq(Word) /\ Len(f) >= Len(s[1]) /\ f[1] = s[1][1]
    BY <1>6, <1>7, <2>2, FlattenStarts
  <2>4. Len(f) \in Nat
    BY <2>3, LenProperties
  <2>5. QED
    BY <1>7, <2>2, <2>3, <2>4
<1> HIDE DEF f
<1> DEFINE starts(t) == t \in Seq(Word) /\ Len(t) >= 2 /\ t[1] = 0
<1>9. ASSUME NEW t \in Seq(Word), NEW x \in Seq(Word), starts(t) PROVE starts(t \o x)
  BY <1>9, ConcatProperties, LenProperties
<1>10. both(Inf) \in Seq(Word) /\ both(Inf + last) \in Seq(Word)
  <2>1. Inf \in 0 .. Half - 1 /\ Inf + last \in 0 .. Half - 1
    BY <1>2, <1>3
  <2>2. QED
    BY <1>4, <2>1
<1> DEFINE g == f \o both(Inf)
<1>11. starts(g \o both(Inf + last))
  <2>1. starts(f)
    BY <1>8
  <2> HIDE DEF starts
  <2>2. g \in Seq(Word) /\ starts(g)
    BY <1>8, <1>9, <1>10, <2>1, ConcatProperties
  <2> HIDE DEF g
  <2>3. QED
    BY <1>9, <1>10, <2>2
<1> DEFINE v == g \o both(Inf + last)
<1>12. v \in Seq(Word) /\ Len(v) \in Nat \ {0} /\ v[1] = 0
  <2> HIDE DEF v
  <2>1. v \in Seq(Word) /\ Len(v) >= 2 /\ v[1] = 0
    BY <1>11 DEF v
  <2>2. QED
    BY <2>1, LenProperties
<1>13. QED
  BY <1>1, <1>12 DEF f, g, v

LEMMA SampledGood ==
  ASSUME NEW r \in 1 .. TestRange, NEW random \in [0 .. r - 1 -> RandomWords],
         ~(TMax - MAX_TEST_VALS <= TMin)
  PROVE  LET v == SampledValues(TMin, TMax, r, random)
         IN  v \in Seq(Word) /\ Len(v) \in Nat /\ Len(v) >= 2 /\ v[1] = TMin /\ v[2] = TMax
<1> DEFINE if_inside(n) == IF TMin <= n /\ n <= TMax THEN <<n>> ELSE <<>>
           ends(n) == <<TMin + n, TMax - n>>
           round(n) == ends(n) \o if_inside(n) \o if_inside(-n) \o <<random[n]>>
           s == [n \in 1 .. r |-> round(n - 1)]
           h == Half
<1>1. SampledValues(TMin, TMax, r, random) = FlattenSeq(s)
  BY DEF SampledValues
<1>2. TestRange \in Nat /\ r \in Nat /\ r >= 1 /\ r <= TestRange /\ RandomWords \subseteq Word
  BY BTestAssumption
<1>3. h \in Nat /\ TMin = -h /\ TMax = h - 1 /\ Word = -h .. h - 1
  BY WidthFacts
<1>4. 13 * TestRange < 2 * h - 1
  BY <1>2, <1>3 DEF MAX_TEST_VALS
<1>5. ASSUME NEW n \in 0 .. r - 1
      PROVE  ends(n) \in Seq(Word) /\ Len(ends(n)) = 2 /\ ends(n)[1] = TMin + n /\ ends(n)[2] = TMax - n
  <2>1. TMin + n \in Word /\ TMax - n \in Word
    <3> HIDE DEF h
    <3>1. QED
      BY <1>2, <1>3, <1>4
  <2>2. QED
    BY <2>1
<1>6. ASSUME NEW n \in Int PROVE if_inside(n) \in Seq(Word)
  <2>1. TMin <= n /\ n <= TMax => n \in Word
    BY DEF Word
  <2>2. <<>> \in Seq(Word)
    BY EmptySeq
  <2>3. QED
    BY <2>1, <2>2
<1> HIDE DEF if_inside, ends, h
<1>7. ASSUME NEW n \in 0 .. r - 1
      PROVE  round(n) \in Seq(Word) /\ Len(round(n)) \in Nat /\ Len(round(n)) >= 2
             /\ round(n)[1] = TMin + n /\ round(n)[2] = TMax - n
  <2> DEFINE starts(t) == /\ t \in Seq(Word) /\ Len(t) \in Nat /\ Len(t) >= 2
                          /\ t[1] = TMin + n /\ t[2] = TMax - n
  <2>1. ASSUME NEW t \in Seq(Word), NEW x \in Seq(Word), starts(t) PROVE starts(t \o x)
    <3>1. Len(x) \in Nat /\ Len(t) \in Nat /\ Len(t) >= 2
      BY <2>1, LenProperties
    <3>2. /\ t \o x \in Seq(Word) /\ Len(t \o x) = Len(t) + Len(x)
          /\ \A c \in 1 .. Len(t) + Len(x) : (t \o x)[c] = IF c <= Len(t) THEN t[c] ELSE x[c - Len(t)]
      BY ConcatProperties
    <3>3. 1 \in 1 .. Len(t) + Len(x) /\ 2 \in 1 .. Len(t) + Len(x)
      BY <3>1
    <3>4. (t \o x)[1] = t[1] /\ (t \o x)[2] = t[2]
      BY <3>1, <3>2, <3>3
    <3>5. QED
      BY <2>1, <3>1, <3>2, <3>4
  <2>2. starts(ends(n))
    BY <1>5
  <2>3. if_inside(n) \in Seq(Word) /\ if_inside(-n) \in Seq(Word)
    BY <1>2, <1>6
  <2>4. <<random[n]>> \in Seq(Word)
    BY <1>2
  <2> HIDE DEF starts
  <2>5. \A t \in Seq(Word), x \in Seq(Word) : starts(t) => starts(t \o x)
    BY <2>1
  <2>6. \A t : starts(t) => t \in Seq(Word)
    BY DEF starts
  <2>7. starts(ends(n) \o if_inside(n))
    BY <2>2, <2>3, <2>5, <2>6
  <2>8. starts(ends(n) \o if_inside(n) \o if_inside(-n))
    BY <2>3, <2>5, <2>6, <2>7
  <2>9. starts(round(n))
    BY <2>4, <2>5, <2>6, <2>8
  <2>10. QED
    BY <2>9 DEF starts
<1> HIDE DEF round
<1>8. s \in Seq(Seq(Word)) /\ Len(s) = r /\ s[1] = round(0)
  <2>1. \A n \in 1 .. r : n - 1 \in 0 .. r - 1
    BY <1>2
  <2>2. \A n \in 1 .. r : round(n - 1) \in Seq(Word)
    BY <1>7, <2>1
  <2>3. QED
    BY <1>2, <2>2
<1>9. s # <<>> /\ Len(s[1]) \in Nat /\ Len(s[1]) >= 2 /\ s[1][1] = TMin /\ s[1][2] = TMax
  <2>1. 0 \in 0 .. r - 1
    BY <1>2
  <2>2. TMin + 0 = TMin /\ TMax - 0 = TMax
    BY <1>3
  <2>3. QED
    BY <1>2, <1>7, <1>8, <2>1, <2>2
<1> HIDE DEF s
<1> DEFINE f == FlattenSeq(s)
<1>10. f \in Seq(Word) /\ Len(f) >= Len(s[1]) /\ \A c \in 1 .. Len(s[1]) : f[c] = s[1][c]
  BY <1>8, <1>9, FlattenStarts
<1>11. Len(f) \in Nat /\ 1 \in 1 .. Len(s[1]) /\ 2 \in 1 .. Len(s[1])
  BY <1>9, <1>10, LenProperties
<1> HIDE DEF f
<1>12. f[1] = TMin /\ f[2] = TMax /\ Len(f) >= 2
  BY <1>9, <1>10, <1>11
<1>13. QED
  BY <1>1, <1>10, <1>11, <1>12 DEF f

LEMMA AllGood ==
  LET v == [n \in 1 .. (TMax - TMin + 1) |-> TMin + n - 1]
  IN  v \in Seq(Word) /\ Len(v) \in Nat /\ Len(v) >= 2 /\ v[1] = TMin /\ v[Len(v)] = TMax
<1> DEFINE h == Half
           m == TMax - TMin + 1
           v == [n \in 1 .. m |-> TMin + n - 1]
<1>1. h \in Nat /\ h >= 128 /\ TMin = -h /\ TMax = h - 1 /\ Word = -h .. h - 1 /\ m = 2 * h
  BY WidthFacts
<1> HIDE DEF h, m
<1>2. \A n \in 1 .. m : TMin + n - 1 \in Word
  BY <1>1
<1>3. v \in Seq(Word) /\ Len(v) = m
  BY <1>1, <1>2
<1>4. v[1] = TMin + 1 - 1 /\ v[m] = TMin + m - 1
  BY <1>1
<1>5. TMin + 1 - 1 = TMin /\ TMin + m - 1 = TMax
  BY <1>1
<1> HIDE DEF v
<1>6. QED
  BY <1>1, <1>3, <1>4, <1>5 DEF v, m

LEMMA GeneratedGood ==
  ASSUME has_arg \in [1 .. 3 -> BOOLEAN], argval \in [1 .. 3 -> Word],
         NEW j \in 1 .. 13, NEW k \in 1 .. test_set[j].args,
         NEW random \in [0 .. arg_test_range(test_set[j].args) - 1 -> RandomWords]
  PROVE  GoodValues(test_set[j].name, has_arg[k], gen_vals(test_set[j], k, random))
<1> DEFINE p == test_set[j]
           v == gen_vals(p, k, random)
           r == arg_test_range(p.args)
<1>1. p.args \in 0 .. 3 /\ k \in 1 .. 3
  BY Table DEF Puzzle
<1>2. r \in 1 .. TestRange /\ r \in Nat /\ r > 0
  <2>1. (IF p.args \in {1, 2} THEN p.args ELSE 3) \in 1 .. 3
    OBVIOUS
  <2>2. QED
    BY <2>1, BTestAssumption DEF arg_test_range
<1>3. /\ p.name \in Floats => p.min = 1 /\ p.max = 1
      /\ p.name \notin Floats => p.min = TMin /\ p.max = TMax
  BY Table DEF Puzzle, Floats
<1>4. CASE has_arg[k]
  <2>1. v = <<argval[k]>> /\ argval[k] \in Word
    BY <1>1, <1>4 DEF gen_vals
  <2> HIDE DEF v
  <2>2. v \in Seq(Word) /\ Len(v) = 1
    BY <2>1
  <2>3. QED
    BY <1>4, <2>2 DEF GoodValues, v
<1>5. CASE ~has_arg[k] /\ p.name \in Floats
  <2>1. v = FloatValues(r)
    BY <1>3, <1>5 DEF gen_vals
  <2> HIDE DEF v, r
  <2>2. v \in Seq(Word) /\ Len(v) \in Nat \ {0} /\ v[1] = 0
    BY <1>2, <2>1, FloatsGood
  <2>3. QED
    BY <1>5, <2>2 DEF GoodValues, v
<1>6. CASE ~has_arg[k] /\ p.name \notin Floats
  <2>1. TMin # 1 /\ TMin \in Int
    BY WidthFacts
  <2>2. v = IF TMax - MAX_TEST_VALS <= TMin
              THEN [n \in 1 .. (TMax - TMin + 1) |-> TMin + n - 1]
              ELSE SampledValues(TMin, TMax, r, random)
    BY <1>3, <1>6, <2>1 DEF gen_vals
  <2> HIDE DEF v
  <2>3. v \in Seq(Word) /\ Len(v) \in Nat /\ Len(v) >= 2 /\ v[1] = TMin
        /\ (v[2] = TMax \/ v[Len(v)] = TMax)
    <3>1. CASE TMax - MAX_TEST_VALS <= TMin
      BY <2>2, <3>1, AllGood
    <3>2. CASE ~(TMax - MAX_TEST_VALS <= TMin)
      <4>1. v = SampledValues(TMin, TMax, r, random)
        BY <2>2, <3>2
      <4> HIDE DEF r
      <4>2. random \in [0 .. r - 1 -> RandomWords]
        BY DEF r
      <4>3. QED
        BY <1>2, <3>2, <4>1, <4>2, SampledGood
    <3>3. QED
      BY <3>1, <3>2
  <2>4. \E m \in 1 .. Len(v) : v[m] = TMax
    <3>1. 2 \in 1 .. Len(v) /\ Len(v) \in 1 .. Len(v)
      BY <2>3
    <3>2. QED
      BY <2>3, <3>1
  <2>5. QED
    BY <1>6, <2>3, <2>4 DEF GoodValues, v
<1>7. QED
  BY <1>1, <1>4, <1>5, <1>6

(***************************************************************************)
(* The invariant of btest.                                                 *)
(***************************************************************************)
Typed ==
  /\ wraps \in BOOLEAN /\ right = Right(wraps)
  /\ pc \in {"options", "loop", "gen", "test", "score", "done", "exited", "crashed"}
  /\ has_arg \in [1 .. 3 -> BOOLEAN] /\ argval \in [1 .. 3 -> Word]
  /\ global_rating \in Int /\ (pc # "exited" => global_rating >= 0)
  /\ i \in 1 .. 14
  /\ pc \in {"gen", "test", "score"} => i <= 13 /\ test_fname \in {"all", test_set[i].name}
  /\ pc = "options" => i = 1
  /\ pc = "done" => i = 14

Counted ==
  /\ terrors \in {0, 1} /\ (pc \in {"gen", "test"} => terrors = 0)
  /\ points \in Nat /\ alarms \in Nat
  /\ pc = "options" => points = 0

(* The values generated so far are good ones, and the loops are at some of *)
(* them.                                                                   *)
Valued ==
  /\ pc \in {"gen", "test"} =>
       /\ vals \in Seq(Seq(Word)) /\ Len(vals) <= test_set[i].args
       /\ \A k \in 1 .. Len(vals) : GoodValues(test_set[i].name, has_arg[k], vals[k])
  /\ pc = "test" =>
       /\ Len(vals) = test_set[i].args
       /\ at \in [1 .. Len(vals) -> Int]
       /\ \A k \in 1 .. Len(vals) : at[k] \in 1 .. Len(vals[k])

(* The loops have not gone past values for which a wrong puzzle shows: a   *)
(* stub's first one, and the first two that overflow isLessOrEqual.        *)
Reaches(name, w, v, p) ==
  /\ name \in Floats => p[1] = 1
  /\ name = "isLessOrEqual" /\ w => p[1] = 1 /\ \A m \in 1 .. (p[2] - 1) : v[2][m] # TMax

Reached ==
  pc = "test" /\ ~FixedArguments => Reaches(test_set[i].name, wraps, vals, at)

(* What the table holds before position j that was asked for and is right. *)
Before(j, fname, rs) ==
  {test_set[k] : k \in 1 .. (j - 1)} \cap {p \in ToSet(test_set) : fname \in {"all", p.name}} \cap rs
(* The puzzles before this one that are worth points, and their worth.     *)
Gained == Before(i, test_fname, right)
Pairs(g, ps) == UNION {{p} \X (1 .. (IF g # 0 THEN g ELSE p.rating)) : p \in ps}
Sum == Cardinality(Pairs(global_rating, Gained))

(* Tests without an error mean a puzzle that is right, and the reverse.    *)
Decided ==
  pc = "score" /\ ~FixedArguments =>
    /\ terrors = 0 => test_set[i] \in right
    /\ alarms = 0 /\ terrors # 0 => test_set[i] \notin right

Earned ==
  pc \in {"loop", "gen", "test", "score", "done"} /\ ~FixedArguments =>
    /\ IsFiniteSet(Pairs(global_rating, Gained))
    /\ points <= Sum
    /\ alarms = 0 => points = Sum

(* What failed, or is about to, with no difference seen.                   *)
Unexplained ==
  (failed \cup (IF pc = "score" /\ terrors # 0 THEN {test_set[i].name} ELSE {})) \ {r[1] : r \in refuted}

Explained == IsFiniteSet(failed) /\ Cardinality(Unexplained) <= alarms

LEMMA Entry ==
  ASSUME NEW j \in 1 .. 13
  PROVE  /\ test_set[j].args \in 0 .. 3 /\ test_set[j].rating \in Nat
         /\ test_set[j].name \in Names
         /\ test_set[j] \in ToSet(test_set)
         /\ test_set[j].name \in Floats => test_set[j].args = 1
         /\ test_set[j].name = "isLessOrEqual" => test_set[j].args = 2
BY Table DEF Puzzle, Names, Floats, ToSet

LEMMA Distinct ==
  ASSUME NEW j \in 1 .. 13, NEW k \in 1 .. 13, test_set[j] = test_set[k]
  PROVE  j = k
BY Table DEF Puzzle

LEMMA TypedHolds ==
  ASSUME Typed, [Next]_vars PROVE Typed'
<1>1. Len(test_set) = 13
  BY Table
<1>2. CASE UNCHANGED vars
  BY <1>2 DEF Typed, vars, build, command, loops
<1>3. ASSUME NEW k \in 1 .. 3, NEW text \in Texts, ArgOption(k, text) PROVE Typed'
  <2>1. Wrap(text.value) \in Word
    <3>1. text.value \in Int
      BY BTestAssumption
    <3>2. QED
      BY <3>1, WrapIs
  <2>2. get_num_val(text, argval[k]) \in BOOLEAN
    BY BTestAssumption DEF get_num_val
  <2>3. has_arg' \in [1 .. 3 -> BOOLEAN]
    BY <1>3, <2>2 DEF ArgOption, Typed
  <2>4. argval' \in [1 .. 3 -> Word]
    <3> HIDE DEF Word
    <3>1. QED
      BY <1>3, <2>1 DEF ArgOption, Typed
  <2>5. pc = "options" /\ pc' \in {pc, "exited"} /\ global_rating' = global_rating /\ i' = i
        /\ wraps' = wraps /\ right' = right
    BY <1>3 DEF ArgOption, Option, build, loops
  <2>6. QED
    BY <2>3, <2>4, <2>5 DEF Typed
<1>4. ASSUME NEW name \in Names, NameOption(name) PROVE Typed'
  BY <1>4 DEF NameOption, Option, build, loops, Typed
<1>5. ASSUME NEW r \in Ratings, RatingOption(r) PROVE Typed'
  <2>1. r \in Int
    BY BTestAssumption
  <2>2. QED
    BY <1>5, <2>1 DEF RatingOption, Option, build, loops, Typed
<1>6. ASSUME NEW limit \in Limits, LimitOption(limit) PROVE Typed'
  BY <1>6 DEF LimitOption, Option, build, loops, Typed
<1>7. CASE Start
  BY <1>7 DEF Start, build, command, loops, Typed
<1>8. CASE Call
  <2>1. i \in 1 .. 13
    BY <1>1, <1>8 DEF Call, Typed
  <2>2. QED
    BY <1>8, <2>1 DEF Call, build, command, Typed
<1>9. CASE GenerateValues
  BY <1>9 DEF GenerateValues, build, command, Typed
<1>10. CASE SetAlarm
  BY <1>10 DEF SetAlarm, build, command, Typed
<1>11. CASE Test
  BY <1>11 DEF Test, build, command, Typed
<1>12. CASE Score
  BY <1>12 DEF Score, build, command, Typed
<1>13. CASE Finish
  <2>1. i = 14
    BY <1>1, <1>13 DEF Finish, Typed
  <2>2. QED
    BY <1>13, <2>1 DEF Finish, build, command, loops, Typed
<1>14. CASE AlarmGoesOff
  BY <1>14 DEF AlarmGoesOff, build, command, loops, Typed
<1>15. CASE Ended
  BY <1>2, <1>15 DEF Ended
<1>16. QED
  BY <1>2, <1>3, <1>4, <1>5, <1>6, <1>7, <1>8, <1>9, <1>10, <1>11, <1>12, <1>13, <1>14, <1>15
     DEF Next

LEMMA CountedHolds ==
  ASSUME Typed, Counted, [Next]_vars PROVE Counted'
<1>1. CASE UNCHANGED vars
  BY <1>1 DEF Counted, vars, score, clock
<1>2. ASSUME Option PROVE terrors' = terrors /\ points' = points /\ alarms' = alarms /\ pc = "options"
  BY <1>2 DEF Option, score, clock
<1>3. ASSUME Option, pc' \in {"options", "exited"} PROVE Counted'
  BY <1>2, <1>3 DEF Counted
<1>4. ASSUME NEW k \in 1 .. 3, NEW text \in Texts, ArgOption(k, text) PROVE Counted'
  BY <1>3, <1>4 DEF ArgOption, Option
<1>5. ASSUME NEW name \in Names, NameOption(name) PROVE Counted'
  BY <1>3, <1>5 DEF NameOption, Option
<1>6. ASSUME NEW r \in Ratings, RatingOption(r) PROVE Counted'
  BY <1>3, <1>6 DEF RatingOption, Option
<1>7. ASSUME NEW limit \in Limits, LimitOption(limit) PROVE Counted'
  BY <1>3, <1>7 DEF LimitOption, Option
<1>8. CASE Start
  BY <1>8 DEF Start, score, clock, Counted
<1>9. CASE Call
  BY <1>9 DEF Call, clock, Counted
<1>10. CASE GenerateValues
  BY <1>10 DEF GenerateValues, score, clock, Counted
<1>11. CASE SetAlarm
  BY <1>11 DEF SetAlarm, score, Counted
<1>12. CASE Test
  BY <1>12 DEF Test, clock, Counted
<1>13. CASE Score
  <2>1. rating(test_set[i]) \in Nat
    <3>1. i \in 1 .. 13 /\ global_rating \in Int /\ global_rating >= 0
      BY <1>13 DEF Score, Typed
    <3>2. QED
      BY <3>1, Entry DEF rating
  <2>2. QED
    BY <1>13, <2>1 DEF Score, clock, Counted
<1>14. CASE Finish
  BY <1>14 DEF Finish, score, clock, Counted
<1>15. CASE AlarmGoesOff
  BY <1>15 DEF AlarmGoesOff, Counted
<1>16. CASE Ended
  BY <1>1, <1>16 DEF Ended
<1>17. QED
  BY <1>1, <1>4, <1>5, <1>6, <1>7, <1>8, <1>9, <1>10, <1>11, <1>12, <1>13, <1>14, <1>15, <1>16
     DEF Next
LEMMA MaxOf ==
  ASSUME NEW S \in SUBSET (1 .. 3), S # {}
  PROVE  Max(S) \in S /\ \A y \in S : Max(S) >= y
<1>1. \E x \in S : \A y \in S : x >= y
  <2>1. CASE 3 \in S
    BY <2>1
  <2>2. CASE 3 \notin S /\ 2 \in S
    BY <2>2
  <2>3. CASE 3 \notin S /\ 2 \notin S
    <3>1. \A y \in S : y = 1
      BY <2>3
    <3>2. 1 \in S
      BY <3>1
    <3>3. QED
      BY <3>1, <3>2
  <2>4. QED
    BY <2>1, <2>2, <2>3
<1>2. QED
  BY <1>1 DEF Max

(* The loops go on from one position of values to another.                 *)
LEMMA AdvancedIs ==
  ASSUME Typed, Valued, pc = "test", Unfinished # {}
  PROVE  /\ Advanced \in [1 .. Len(vals) -> Int]
         /\ \A k \in 1 .. Len(vals) : Advanced[k] \in 1 .. Len(vals[k])
         /\ Len(vals) = 2 /\ 2 \in Unfinished => Advanced[1] = at[1] /\ Advanced[2] = at[2] + 1
<1>1. i \in 1 .. 13
  BY DEF Typed
<1>2. /\ Len(vals) \in 0 .. 3 /\ at \in [1 .. Len(vals) -> Int]
      /\ \A k \in 1 .. Len(vals) : at[k] \in 1 .. Len(vals[k]) /\ Len(vals[k]) \in Nat \ {0}
  <2>1. Len(vals) \in 0 .. 3
    BY <1>1, Entry DEF Valued
  <2>2. \A k \in 1 .. Len(vals) : Len(vals[k]) \in Nat \ {0}
    BY DEF Valued, GoodValues
  <2>3. QED
    BY <2>1, <2>2 DEF Valued
<1>3. Unfinished \in SUBSET (1 .. 3) /\ \A k \in 1 .. Len(vals) : k \in Unfinished <=> at[k] < Len(vals[k])
  BY <1>2 DEF Unfinished
<1> DEFINE top == Max(Unfinished)
<1>4. top \in Unfinished /\ \A y \in Unfinished : top >= y
  BY <1>3, MaxOf
<1>5. Advanced = [n \in 1 .. Len(vals) |-> IF n < top THEN at[n] ELSE IF n = top THEN at[n] + 1 ELSE 1]
  BY DEF Advanced
<1>6. top \in 1 .. Len(vals)
  BY <1>4 DEF Unfinished
<1> HIDE DEF top
<1>7. Advanced \in [1 .. Len(vals) -> Int]
  BY <1>2, <1>5
<1>8. ASSUME NEW k \in 1 .. Len(vals) PROVE Advanced[k] \in 1 .. Len(vals[k])
  BY <1>2, <1>3, <1>4, <1>5
<1>9. ASSUME Len(vals) = 2, 2 \in Unfinished PROVE Advanced[1] = at[1] /\ Advanced[2] = at[2] + 1
  <2>1. top = 2
    BY <1>4, <1>6, <1>9
  <2>2. QED
    BY <1>5, <1>9, <2>1
<1>10. QED
  BY <1>7, <1>8, <1>9

LEMMA ValuedHolds ==
  ASSUME Typed, Valued, [Next]_vars PROVE Valued'
<1>1. CASE UNCHANGED vars
  BY <1>1 DEF Valued, vars, command, loops
<1>2. ASSUME pc' \notin {"gen", "test"} PROVE Valued'
  BY <1>2 DEF Valued
<1>3. ASSUME Option, pc' \in {"options", "exited"} PROVE Valued'
  BY <1>2, <1>3
<1>4. ASSUME NEW k \in 1 .. 3, NEW text \in Texts, ArgOption(k, text) PROVE Valued'
  BY <1>3, <1>4 DEF ArgOption, Option
<1>5. ASSUME NEW name \in Names, NameOption(name) PROVE Valued'
  BY <1>3, <1>5 DEF NameOption, Option
<1>6. ASSUME NEW r \in Ratings, RatingOption(r) PROVE Valued'
  BY <1>3, <1>6 DEF RatingOption, Option
<1>7. ASSUME NEW limit \in Limits, LimitOption(limit) PROVE Valued'
  BY <1>3, <1>7 DEF LimitOption, Option
<1>8. CASE Start
  BY <1>2, <1>8 DEF Start
<1>9. CASE Call
  <2>1. CASE pc' = "loop"
    BY <1>2, <2>1
  <2>2. CASE pc' = "gen"
    <3>1. i' \in 1 .. 13
      BY <1>9, <2>2, Table DEF Call, Typed
    <3>2. vals' = <<>> /\ <<>> \in Seq(Seq(Word)) /\ Len(<<>>) = 0
      BY <1>9, EmptySeq DEF Call
    <3>3. test_set[i'].args >= 0
      BY <3>1, Entry
    <3>4. QED
      BY <2>2, <3>2, <3>3 DEF Valued
  <2>3. QED
    BY <1>9, <2>1, <2>2 DEF Call
<1>10. CASE GenerateValues
  <2> DEFINE p == test_set[i]
             n == Len(vals) + 1
  <2>1. pc = "gen" /\ pc' = "gen" /\ i' = i /\ has_arg' = has_arg /\ i \in 1 .. 13
    BY <1>10 DEF GenerateValues, command, Typed
  <2>2. /\ vals \in Seq(Seq(Word)) /\ Len(vals) \in Nat /\ n \in 1 .. p.args
        /\ \A k \in 1 .. Len(vals) : GoodValues(p.name, has_arg[k], vals[k])
    <3>1. vals \in Seq(Seq(Word)) /\ \A k \in 1 .. Len(vals) : GoodValues(p.name, has_arg[k], vals[k])
      BY <2>1 DEF Valued
    <3>2. Len(vals) < p.args
      BY <1>10 DEF GenerateValues
    <3>3. p.args \in 0 .. 3
      BY <2>1, Entry
    <3>4. Len(vals) \in Nat
      BY <3>1, LenProperties
    <3>5. QED
      BY <3>1, <3>2, <3>3, <3>4
  <2>3. PICK random \in [0 .. arg_test_range(p.args) - 1 -> RandomWords] :
          vals' = Append(vals, gen_vals(p, n, random))
    BY <1>10 DEF GenerateValues
  <2> DEFINE g == gen_vals(p, n, random)
  <2>4. GoodValues(p.name, has_arg[n], g)
    BY <2>1, <2>2, GeneratedGood DEF Typed
  <2>5. g \in Seq(Word)
    BY <2>4 DEF GoodValues
  <2>6. vals' = Append(vals, g)
    BY <2>3
  <2> HIDE DEF g
  <2>7. /\ vals' \in Seq(Seq(Word)) /\ Len(vals') = n /\ vals'[n] = g
        /\ \A k \in 1 .. Len(vals) : vals'[k] = vals[k]
    BY <2>2, <2>5, <2>6, AppendProperties
  <2>8. \A k \in 1 .. n : GoodValues(p.name, has_arg[k], vals'[k])
    <3>1. \A k \in 1 .. n : k = n \/ k \in 1 .. Len(vals)
      BY <2>2
    <3>2. QED
      BY <2>2, <2>4, <2>7, <3>1
  <2>9. Len(vals') <= p.args
    BY <2>2, <2>7, Entry, <2>1
  <2>10. QED
    BY <2>1, <2>7, <2>8, <2>9 DEF Valued
<1>11. CASE SetAlarm
  <2>1. /\ pc = "gen" /\ i' = i /\ has_arg' = has_arg /\ vals' = vals
        /\ Len(vals) = test_set[i].args /\ at' = [k \in 1 .. Len(vals) |-> 1]
    BY <1>11 DEF SetAlarm, command
  <2>2. \A k \in 1 .. Len(vals) : Len(vals[k]) \in Nat \ {0}
    BY <2>1 DEF Valued, GoodValues
  <2>3. QED
    BY <2>1, <2>2 DEF Valued
<1>12. CASE Test
  <2>1. pc = "test" /\ i' = i /\ has_arg' = has_arg /\ vals' = vals
    BY <1>12 DEF Test, command
  <2>2. at' = at \/ (Unfinished # {} /\ at' = Advanced)
    BY <1>12 DEF Test
  <2>3. at' \in [1 .. Len(vals) -> Int] /\ \A k \in 1 .. Len(vals) : at'[k] \in 1 .. Len(vals[k])
    <3>1. CASE at' = at
      BY <2>1, <3>1 DEF Valued
    <3>2. CASE Unfinished # {} /\ at' = Advanced
      BY <2>1, <3>2, AdvancedIs
    <3>3. QED
      BY <2>2, <3>1, <3>2
  <2>4. QED
    BY <2>1, <2>3 DEF Valued
<1>13. CASE Score
  BY <1>2, <1>13 DEF Score
<1>14. CASE Finish
  BY <1>2, <1>14 DEF Finish
<1>15. CASE AlarmGoesOff
  BY <1>2, <1>15 DEF AlarmGoesOff
<1>16. CASE Ended
  BY <1>1, <1>16 DEF Ended
<1>17. QED
  BY <1>1, <1>4, <1>5, <1>6, <1>7, <1>8, <1>9, <1>10, <1>11, <1>12, <1>13, <1>14, <1>15, <1>16
     DEF Next

Error == solution(test_set[i].name, arguments, wraps) # reference(test_set[i].name, arguments)

(* An error is known: the stubs, and a difference that overflows.          *)
LEMMA ErrorKnown ==
  ASSUME Typed, Valued, pc = "test", Error
  PROVE  \/ test_set[i].name \in Floats
         \/ /\ test_set[i].name = "isLessOrEqual" /\ wraps
            /\ arguments[2] - arguments[1] \notin Word
<1>1. SUFFICES ASSUME test_set[i].name \notin Floats,
                      test_set[i].name = "isLessOrEqual" => ~wraps \/ arguments[2] - arguments[1] \in Word
               PROVE  FALSE
  OBVIOUS
<1>2. i \in 1 .. 13 /\ wraps \in BOOLEAN
  BY DEF Typed
<1>3. arguments \in [1 .. test_set[i].args -> Word]
  <2>1. \A k \in 1 .. Len(vals) : vals[k] \in Seq(Word) /\ at[k] \in 1 .. Len(vals[k])
    BY <1>1 DEF Valued, GoodValues
  <2> HIDE DEF Word
  <2>2. \A k \in 1 .. Len(vals) : vals[k][at[k]] \in Word
    BY <2>1, ElementOfSeq
  <2>3. Len(vals) = test_set[i].args
    BY DEF Valued
  <2>4. QED
    BY <2>2, <2>3 DEF arguments
<1>4. solution(test_set[i].name, arguments, wraps) = reference(test_set[i].name, arguments)
  BY <1>1, <1>2, <1>3, PuzzleRight
<1>5. QED
  BY <1>4 DEF Error

(* A wrong puzzle is found: the loops come to values it is wrong for.      *)
LEMMA ErrorFound ==
  ASSUME Typed, Valued, Reached, pc = "test", ~FixedArguments, ~Error
  PROVE  /\ test_set[i].name \notin Floats
         /\ test_set[i].name = "isLessOrEqual" /\ wraps =>
              /\ Len(vals) = 2 /\ 2 \in Unfinished
              /\ at[1] = 1 /\ \A m \in 1 .. at[2] : vals[2][m] # TMax
<1> DEFINE name == test_set[i].name
<1>1. i \in 1 .. 13 /\ wraps \in BOOLEAN
  BY DEF Typed
<1>2. \A k \in 1 .. 3 : ~has_arg[k]
  BY DEF FixedArguments
<1>3. Len(vals) = test_set[i].args /\ test_set[i].args \in 0 .. 3
  BY <1>1, Entry DEF Valued
<1>4. \A k \in 1 .. Len(vals) : GoodValues(name, has_arg[k], vals[k]) /\ at[k] \in 1 .. Len(vals[k])
  BY DEF Valued
<1>5. Reaches(name, wraps, vals, at)
  BY DEF Reached
<1>6. \A k \in 1 .. Len(vals) : arguments[k] = vals[k][at[k]]
  BY DEF arguments
<1>7. solution(name, arguments, wraps) = reference(name, arguments)
  BY DEF Error
<1>8. name \notin Floats
  <2>1. SUFFICES ASSUME name \in Floats PROVE FALSE
    OBVIOUS
  <2>2. Len(vals) = 1
    BY <1>1, <1>3, <2>1, Entry
  <2>3. at[1] = 1
    BY <1>5, <2>1 DEF Reaches
  <2>4. vals[1][1] = 0
    BY <1>2, <1>4, <2>1, <2>2 DEF GoodValues
  <2>5. arguments[1] = 0
    BY <1>6, <2>2, <2>3, <2>4
  <2>6. QED
    BY <1>7, <2>1, <2>5, Solutions, References, FloatsWrong DEF Floats
<1>9. ASSUME name = "isLessOrEqual", wraps
      PROVE  /\ Len(vals) = 2 /\ 2 \in Unfinished
             /\ at[1] = 1 /\ \A m \in 1 .. at[2] : vals[2][m] # TMax
  <2>1. Len(vals) = 2
    BY <1>1, <1>3, <1>9, Entry
  <2>2. at[1] = 1 /\ \A m \in 1 .. (at[2] - 1) : vals[2][m] # TMax
    BY <1>5, <1>9 DEF Reaches
  <2>3. GoodValues(name, has_arg[1], vals[1]) /\ GoodValues(name, has_arg[2], vals[2])
    BY <1>4, <2>1
  <2>4. ~has_arg[1] /\ ~has_arg[2]
    BY <1>2
  <2>5. vals[1][1] = TMin /\ Len(vals[2]) \in Nat /\ \E m \in 1 .. Len(vals[2]) : vals[2][m] = TMax
    BY <1>8, <2>3, <2>4 DEF GoodValues
  <2>6. at[2] \in 1 .. Len(vals[2])
    BY <1>4, <2>1
  <2>7. vals[2][at[2]] # TMax
    <3>1. SUFFICES ASSUME vals[2][at[2]] = TMax PROVE FALSE
      OBVIOUS
    <3>2. arguments[1] = TMin /\ arguments[2] = TMax
      BY <1>6, <2>1, <2>2, <2>5, <3>1
    <3>3. /\ solution(name, arguments, wraps) = isLessOrEqual(TMin, TMax, wraps)
          /\ reference(name, arguments) = test_isLessOrEqual(TMin, TMax)
      BY <1>9, <3>2, Solutions, References
    <3>4. isLessOrEqual(TMin, TMax, wraps) # test_isLessOrEqual(TMin, TMax)
      BY <1>1, <1>9, LessOrEqualWrong
    <3>5. QED
      BY <1>7, <3>3, <3>4
  <2> HIDE DEF name, TMax
  <2>8. \A m \in 1 .. at[2] : vals[2][m] # TMax
    <3>1. \A m \in 1 .. at[2] : m = at[2] \/ m \in 1 .. (at[2] - 1)
      BY <2>5, <2>6
    <3>2. QED
      BY <2>2, <2>7, <3>1
  <2>9. at[2] < Len(vals[2])
    <3>1. PICK m \in 1 .. Len(vals[2]) : vals[2][m] = TMax
      BY <2>5
    <3>2. m \notin 1 .. at[2]
      BY <2>8, <3>1
    <3>3. QED
      BY <2>5, <2>6, <3>1, <3>2
  <2>10. 2 \in Unfinished
    BY <2>1, <2>9 DEF Unfinished
  <2>11. QED
    BY <2>1, <2>2, <2>8, <2>10
<1>10. QED
  BY <1>8, <1>9
LEMMA ReachedHolds ==
  ASSUME Typed, Valued, Reached, [Next]_vars PROVE Reached'
<1>1. CASE UNCHANGED vars
  BY <1>1 DEF Reached, FixedArguments, vars, build, command, loops
<1>2. ASSUME pc' # "test" PROVE Reached'
  BY <1>2 DEF Reached
<1>3. ASSUME Option, pc' \in {"options", "exited"} PROVE Reached'
  BY <1>2, <1>3
<1>4. ASSUME NEW k \in 1 .. 3, NEW text \in Texts, ArgOption(k, text) PROVE Reached'
  BY <1>3, <1>4 DEF ArgOption, Option
<1>5. ASSUME NEW name \in Names, NameOption(name) PROVE Reached'
  BY <1>3, <1>5 DEF NameOption, Option
<1>6. ASSUME NEW r \in Ratings, RatingOption(r) PROVE Reached'
  BY <1>3, <1>6 DEF RatingOption, Option
<1>7. ASSUME NEW limit \in Limits, LimitOption(limit) PROVE Reached'
  BY <1>3, <1>7 DEF LimitOption, Option
<1>8. CASE Start
  BY <1>2, <1>8 DEF Start
<1>9. CASE Call
  BY <1>2, <1>9 DEF Call
<1>10. CASE GenerateValues
  BY <1>2, <1>10 DEF GenerateValues
<1>11. CASE SetAlarm
  <2>1. i' = i /\ i \in 1 .. 13 /\ vals' = vals /\ at' = [k \in 1 .. Len(vals) |-> 1] /\ Len(vals) = test_set[i].args
    BY <1>11 DEF SetAlarm, Typed
  <2>2. test_set[i].name \in Floats => at'[1] = 1
    <3>1. test_set[i].name \in Floats => Len(vals) = 1
      BY <2>1, Entry
    <3>2. QED
      BY <2>1, <3>1
  <2>3. test_set[i].name = "isLessOrEqual" => at'[1] = 1 /\ at'[2] = 1
    <3>1. test_set[i].name = "isLessOrEqual" => Len(vals) = 2
      BY <2>1, Entry
    <3>2. QED
      BY <2>1, <3>1
  <2>4. \A m \in 1 .. (1 - 1) : FALSE
    OBVIOUS
  <2>5. Reaches(test_set[i'].name, wraps', vals', at')
    BY <2>1, <2>2, <2>3, <2>4 DEF Reaches
  <2>6. QED
    BY <2>5 DEF Reached
<1>12. CASE Test
  <2>1. SUFFICES ASSUME pc' = "test", ~FixedArguments' PROVE Reaches(test_set[i].name, wraps, vals, at')
    <3>1. i' = i /\ wraps' = wraps /\ vals' = vals
      BY <1>12 DEF Test, build
    <3>2. QED
      BY <3>1 DEF Reached
  <2>2. pc = "test" /\ ~FixedArguments
    BY <1>12, <2>1 DEF Test, command, FixedArguments
  <2>3. ~Error /\ Unfinished # {} /\ at' = Advanced
    BY <1>12, <2>1 DEF Test, Error
  <2>4. /\ test_set[i].name \notin Floats
        /\ test_set[i].name = "isLessOrEqual" /\ wraps =>
             /\ Len(vals) = 2 /\ 2 \in Unfinished
             /\ at[1] = 1 /\ \A m \in 1 .. at[2] : vals[2][m] # TMax
    BY <2>2, <2>3, ErrorFound
  <2>5. Len(vals) = 2 /\ 2 \in Unfinished => at'[1] = at[1] /\ at'[2] = at[2] + 1 /\ at[2] \in Int
    BY <2>2, <2>3, AdvancedIs DEF Valued
  <2> HIDE DEF TMax
  <2>6. ASSUME test_set[i].name = "isLessOrEqual", wraps
        PROVE  at'[1] = 1 /\ \A m \in 1 .. (at'[2] - 1) : vals[2][m] # TMax
    <3>1. at'[1] = at[1] /\ at'[2] = at[2] + 1 /\ at[2] \in Int
      BY <2>4, <2>5, <2>6
    <3>2. at'[2] - 1 = at[2]
      BY <3>1
    <3>3. QED
      BY <2>4, <2>6, <3>1, <3>2
  <2>7. QED
    BY <2>4, <2>6 DEF Reaches
<1>13. CASE Score
  BY <1>2, <1>13 DEF Score
<1>14. CASE Finish
  BY <1>2, <1>14 DEF Finish
<1>15. CASE AlarmGoesOff
  BY <1>2, <1>15 DEF AlarmGoesOff
<1>16. CASE Ended
  BY <1>1, <1>16 DEF Ended
<1>17. QED
  BY <1>1, <1>4, <1>5, <1>6, <1>7, <1>8, <1>9, <1>10, <1>11, <1>12, <1>13, <1>14, <1>15, <1>16
     DEF Next

LEMMA DecidedHolds ==
  ASSUME Typed, Counted, Valued, Reached, Decided, [Next]_vars PROVE Decided'
<1>1. CASE UNCHANGED vars
  BY <1>1 DEF Decided, FixedArguments, vars, build, command, loops, score, clock
<1>2. ASSUME pc' # "score" PROVE Decided'
  BY <1>2 DEF Decided
<1>3. ASSUME Option, pc' \in {"options", "exited"} PROVE Decided'
  BY <1>2, <1>3
<1>4. ASSUME NEW k \in 1 .. 3, NEW text \in Texts, ArgOption(k, text) PROVE Decided'
  BY <1>3, <1>4 DEF ArgOption, Option
<1>5. ASSUME NEW name \in Names, NameOption(name) PROVE Decided'
  BY <1>3, <1>5 DEF NameOption, Option
<1>6. ASSUME NEW r \in Ratings, RatingOption(r) PROVE Decided'
  BY <1>3, <1>6 DEF RatingOption, Option
<1>7. ASSUME NEW limit \in Limits, LimitOption(limit) PROVE Decided'
  BY <1>3, <1>7 DEF LimitOption, Option
<1>8. CASE Start
  BY <1>2, <1>8 DEF Start
<1>9. CASE Call
  BY <1>2, <1>9 DEF Call
<1>10. CASE GenerateValues
  BY <1>2, <1>10 DEF GenerateValues
<1>11. CASE SetAlarm
  BY <1>2, <1>11 DEF SetAlarm
<1>12. CASE Test
  <2>1. SUFFICES ASSUME pc' = "score", ~FixedArguments'
                 PROVE  /\ terrors' = 0 => test_set[i] \in right
                        /\ alarms' = 0 /\ terrors' # 0 => test_set[i] \notin right
    <3>1. i' = i /\ right' = right
      BY <1>12 DEF Test, build
    <3>2. QED
      BY <3>1 DEF Decided
  <2>2. pc = "test" /\ ~FixedArguments /\ i \in 1 .. 13 /\ wraps \in BOOLEAN /\ right = Right(wraps) /\ terrors = 0
    BY <1>12, <2>1 DEF Test, command, FixedArguments, Typed, Counted
  <2>3. test_set[i] \in right <=> (test_set[i].name \notin Floats /\ ~(test_set[i].name = "isLessOrEqual" /\ wraps))
    BY <2>2, RightIs
  <2>4. CASE Error
    <3>1. terrors' = 1
      BY <1>12, <2>2, <2>4 DEF Test, Error
    <3>2. test_set[i] \notin right
      BY <2>2, <2>3, <2>4, ErrorKnown
    <3>3. QED
      BY <3>1, <3>2
  <2>5. CASE ~Error
    <3>1. terrors' = 0 /\ Unfinished = {}
      BY <1>12, <2>1, <2>2, <2>5 DEF Test, Error
    <3>2. test_set[i] \in right
      BY <2>2, <2>3, <2>5, <3>1, ErrorFound
    <3>3. QED
      BY <3>1, <3>2
  <2>6. QED
    BY <2>4, <2>5
<1>13. CASE Score
  BY <1>2, <1>13 DEF Score
<1>14. CASE Finish
  BY <1>2, <1>14 DEF Finish
<1>15. CASE AlarmGoesOff
  <2>1. terrors' = 1 \/ pc' = "crashed"
    BY <1>15 DEF AlarmGoesOff
  <2>2. alarms' # 0
    BY <1>15 DEF AlarmGoesOff, Counted
  <2>3. QED
    BY <2>1, <2>2 DEF Decided
<1>16. CASE Ended
  BY <1>1, <1>16 DEF Ended
<1>17. QED
  BY <1>1, <1>4, <1>5, <1>6, <1>7, <1>8, <1>9, <1>10, <1>11, <1>12, <1>13, <1>14, <1>15, <1>16
     DEF Next

(* A puzzle that was not counted yet adds its rating.                      *)
LEMMA PairsAdd ==
  ASSUME NEW g, NEW ps, NEW p, p \notin ps, IsFiniteSet(Pairs(g, ps)),
         NEW n \in Nat, n = (IF g # 0 THEN g ELSE p.rating)
  PROVE  /\ IsFiniteSet(Pairs(g, ps \cup {p}))
         /\ Cardinality(Pairs(g, ps \cup {p})) = Cardinality(Pairs(g, ps)) + n
<1> DEFINE S == Pairs(g, ps)
           T == {p} \X (1 .. n)
<1>1. Pairs(g, ps \cup {p}) = S \cup T
  BY DEF Pairs
<1>2. S \cap T = {}
  BY DEF Pairs
<1>3. IsFiniteSet(T) /\ Cardinality(T) = n
  <2> DEFINE A == {p}
             B == 1 .. n
  <2>1. IsFiniteSet(A) /\ Cardinality(A) = 1
    BY FS_Singleton
  <2>2. IsFiniteSet(B) /\ Cardinality(B) = n
    <3>1. \A a, b \in Int : IsFiniteSet(a .. b) /\ Cardinality(a .. b) = IF a > b THEN 0 ELSE b - a + 1
      BY FS_Interval
    <3>2. 1 \in Int /\ n \in Int
      OBVIOUS
    <3>3. IsFiniteSet(1 .. n) /\ Cardinality(1 .. n) = IF 1 > n THEN 0 ELSE n - 1 + 1
      BY <3>1, <3>2, Zenon
    <3>4. QED
      BY <3>3
  <2> HIDE DEF A, B
  <2>3. IsFiniteSet(A \X B) /\ Cardinality(A \X B) = Cardinality(A) * Cardinality(B)
    BY <2>1, <2>2, FS_Product
  <2>4. QED
    BY <2>1, <2>2, <2>3 DEF A, B
<1>4. IsFiniteSet(S) /\ Cardinality(S) \in Nat
  BY FS_CardinalityType
<1> HIDE DEF T
<1> HIDE DEF S
<1>5. /\ IsFiniteSet(S \cup T)
      /\ Cardinality(S \cup T) = Cardinality(S) + Cardinality(T) - Cardinality(S \cap T)
  BY <1>3, <1>4, FS_Union
<1>6. Cardinality(S \cap T) = 0
  BY <1>2, FS_EmptySet
<1>7. Cardinality(S \cup T) = Cardinality(S) + n
  BY <1>3, <1>4, <1>5, <1>6
<1>8. QED
  BY <1>1, <1>5, <1>7 DEF S

LEMMA BeforeNext ==
  ASSUME NEW j \in 1 .. 13, NEW fname, NEW rs
  PROVE  /\ Before(j + 1, fname, rs) =
              IF fname \in {"all", test_set[j].name} /\ test_set[j] \in rs
                THEN Before(j, fname, rs) \cup {test_set[j]} ELSE Before(j, fname, rs)
         /\ test_set[j] \notin Before(j, fname, rs)
<1> DEFINE A == {test_set[k] : k \in 1 .. (j - 1)}
           B == {test_set[k] : k \in 1 .. (j + 1 - 1)}
           asked == {p \in ToSet(test_set) : fname \in {"all", p.name}}
<1>1. B = A \cup {test_set[j]}
  <2>1. \A k : k \in 1 .. (j + 1 - 1) <=> k = j \/ k \in 1 .. (j - 1)
    OBVIOUS
  <2>2. QED
    BY <2>1, SMT
<1>2. test_set[j] \notin A
  <2>1. \A k \in 1 .. (j - 1) : k \in 1 .. 13 /\ k # j
    OBVIOUS
  <2>2. QED
    BY <2>1, Distinct
<1>3. test_set[j] \in asked <=> fname \in {"all", test_set[j].name}
  BY Entry
<1>4. Before(j, fname, rs) = A \cap asked \cap rs /\ Before(j + 1, fname, rs) = B \cap asked \cap rs
  BY DEF Before
<1> HIDE DEF A, B, asked
<1> DEFINE p == test_set[j]
           wanted == fname \in {"all", p.name}
<1>5. p \notin A /\ (p \in asked <=> wanted) /\ B = A \cup {p}
  BY <1>1, <1>2, <1>3
<1> HIDE DEF p, wanted
<1>6. B \cap asked \cap rs = (IF wanted /\ p \in rs THEN (A \cap asked \cap rs) \cup {p} ELSE A \cap asked \cap rs)
  BY <1>5
<1>7. p \notin A \cap asked \cap rs
  BY <1>5
<1>8. QED
  BY <1>4, <1>6, <1>7 DEF p, wanted
LEMMA EarnedHolds ==
  ASSUME Typed, Counted, Decided, Earned, [Next]_vars PROVE Earned'
<1>1. CASE UNCHANGED vars
  BY <1>1 DEF Earned, Sum, Gained, FixedArguments, vars, build, command, loops, score, clock
<1>2. ASSUME pc' \notin {"loop", "gen", "test", "score", "done"} PROVE Earned'
  BY <1>2 DEF Earned
<1>3. ASSUME Option, pc' \in {"options", "exited"} PROVE Earned'
  BY <1>2, <1>3
<1>4. ASSUME NEW k \in 1 .. 3, NEW text \in Texts, ArgOption(k, text) PROVE Earned'
  BY <1>3, <1>4 DEF ArgOption, Option
<1>5. ASSUME NEW name \in Names, NameOption(name) PROVE Earned'
  BY <1>3, <1>5 DEF NameOption, Option
<1>6. ASSUME NEW r \in Ratings, RatingOption(r) PROVE Earned'
  BY <1>3, <1>6 DEF RatingOption, Option
<1>7. ASSUME NEW limit \in Limits, LimitOption(limit) PROVE Earned'
  BY <1>3, <1>7 DEF LimitOption, Option
<1>8. CASE Start
  <2>1. i' = 1 /\ points' = 0
    BY <1>8 DEF Start, loops, score, Typed, Counted
  <2>2. Gained' = {}
    <3>1. \A k : k \notin 1 .. (1 - 1)
      OBVIOUS
    <3>2. QED
      BY <2>1, <3>1 DEF Gained, Before
  <2>3. Pairs(global_rating', Gained') = {}
    BY <2>2 DEF Pairs
  <2>4. IsFiniteSet(Pairs(global_rating', Gained')) /\ Sum' = 0
    BY <2>3, FS_EmptySet DEF Sum
  <2>5. QED
    BY <2>1, <2>4 DEF Earned
(* What neither moves on in the table nor gives points.                    *)
<1>9. ASSUME pc \in {"loop", "gen", "test", "score"}, Gained' = Gained,
             UNCHANGED <<command, points>>, alarms' = alarms \/ alarms' # 0
      PROVE  Earned'
  BY <1>9 DEF Earned, Sum, command, FixedArguments
<1>10. CASE Call
  <2>1. /\ pc = "loop" /\ i \in 1 .. 13 /\ UNCHANGED <<build, command, points, alarms>>
        /\ (i' = i \/ (test_fname \notin {"all", test_set[i].name} /\ i' = i + 1))
    BY <1>10, Table DEF Call, clock, Typed
  <2>2. Gained' = Gained
    <3>1. test_fname' = test_fname /\ right' = right
      BY <2>1 DEF build, command
    <3>2. QED
      BY <2>1, <3>1, BeforeNext DEF Gained
  <2>3. QED
    BY <1>9, <2>1, <2>2
<1>11. CASE GenerateValues
  <2>1. pc = "gen" /\ UNCHANGED <<i, command, build, points, alarms>>
    BY <1>11 DEF GenerateValues, score, clock
  <2>2. Gained' = Gained
    BY <2>1 DEF Gained, command, build
  <2>3. QED
    BY <1>9, <2>1, <2>2
<1>12. CASE SetAlarm
  <2>1. pc = "gen" /\ UNCHANGED <<i, command, build, points, alarms>>
    BY <1>12 DEF SetAlarm, score
  <2>2. Gained' = Gained
    BY <2>1 DEF Gained, command, build
  <2>3. QED
    BY <1>9, <2>1, <2>2
<1>13. CASE Test
  <2>1. pc = "test" /\ UNCHANGED <<i, command, build, points, alarms>>
    BY <1>13 DEF Test, clock
  <2>2. Gained' = Gained
    BY <2>1 DEF Gained, command, build
  <2>3. QED
    BY <1>9, <2>1, <2>2
<1>14. CASE Finish
  <2>1. pc = "loop" /\ UNCHANGED <<i, command, build, points, alarms>>
    BY <1>14 DEF Finish, loops, score, clock
  <2>2. Gained' = Gained
    BY <2>1 DEF Gained, command, build
  <2>3. QED
    BY <1>9, <2>1, <2>2
<1>15. CASE AlarmGoesOff
  <2>1. pc \in {"loop", "gen", "test", "score"} /\ UNCHANGED <<i, command, build, points>> /\ alarms' # 0
    BY <1>15 DEF AlarmGoesOff, loops, Counted
  <2>2. Gained' = Gained
    BY <2>1 DEF Gained, command, build
  <2>3. QED
    BY <1>9, <2>1, <2>2
<1>16. CASE Score
  <2>1. SUFFICES ASSUME ~FixedArguments'
                 PROVE  /\ IsFiniteSet(Pairs(global_rating', Gained'))
                        /\ points' <= Sum' /\ (alarms' = 0 => points' = Sum')
    BY DEF Earned
  <2> DEFINE p == test_set[i]
             n == IF global_rating # 0 THEN global_rating ELSE p.rating
  <2>2. /\ pc = "score" /\ i \in 1 .. 13 /\ i' = i + 1 /\ UNCHANGED <<build, command, alarms>>
        /\ ~FixedArguments /\ test_fname \in {"all", p.name}
        /\ points' = points + (IF terrors = 0 THEN n ELSE 0)
    BY <1>16, <2>1 DEF Score, clock, command, FixedArguments, Typed, rating
  <2>3. n \in Nat
    <3>1. p.rating \in Nat
      BY <2>2, Entry
    <3>2. global_rating \in Int /\ global_rating >= 0
      BY <2>2 DEF Typed
    <3>3. QED
      BY <3>1, <3>2
  <2>4. Gained' = (IF p \in right THEN Gained \cup {p} ELSE Gained) /\ p \notin Gained
    <3>1. test_fname' = test_fname /\ right' = right
      BY <2>2 DEF build, command
    <3>2. QED
      BY <2>2, <3>1, BeforeNext DEF Gained
  <2> DEFINE S == Pairs(global_rating, Gained)
             T == Pairs(global_rating, Gained')
  <2>5. IsFiniteSet(S) /\ points <= Cardinality(S) /\ (alarms = 0 => points = Cardinality(S))
    BY <2>2 DEF Earned, Sum
  <2>6. IsFiniteSet(T) /\ Cardinality(T) = IF p \in right THEN Cardinality(S) + n ELSE Cardinality(S)
    <3>1. CASE p \in right
      <4>1. IsFiniteSet(Pairs(global_rating, Gained \cup {p}))
            /\ Cardinality(Pairs(global_rating, Gained \cup {p})) = Cardinality(S) + n
        BY <2>3, <2>4, <2>5, PairsAdd
      <4>2. QED
        BY <2>4, <3>1, <4>1
    <3>2. CASE p \notin right
      BY <2>4, <2>5, <3>2
    <3>3. QED
      BY <3>1, <3>2
  <2>7. Cardinality(S) \in Nat /\ points \in Nat
    BY <2>5, FS_CardinalityType DEF Counted
  <2>8. (terrors = 0 => p \in right) /\ (alarms = 0 /\ terrors # 0 => p \notin right)
    BY <2>2 DEF Decided
  <2>9. global_rating' = global_rating /\ alarms' = alarms
    BY <2>2 DEF command
  <2>10. Sum' = Cardinality(T) /\ Pairs(global_rating', Gained') = T
    BY <2>9 DEF Sum
  <2> HIDE DEF p, n, S, T
  <2>11. points' <= Cardinality(T) /\ (alarms = 0 => points' = Cardinality(T))
    BY <2>2, <2>3, <2>5, <2>6, <2>7, <2>8
  <2>12. QED
    BY <2>6, <2>9, <2>10, <2>11
<1>17. CASE Ended
  BY <1>1, <1>17 DEF Ended
<1>18. QED
  BY <1>1, <1>4, <1>5, <1>6, <1>7, <1>8, <1>10, <1>11, <1>12, <1>13, <1>14, <1>15, <1>16, <1>17
     DEF Next

LEMMA NoMore ==
  ASSUME NEW S, IsFiniteSet(S), NEW T, T \subseteq S
  PROVE  Cardinality(T) <= Cardinality(S) /\ Cardinality(T) \in Nat /\ Cardinality(S) \in Nat
<1>1. IsFiniteSet(T) /\ Cardinality(T) <= Cardinality(S)
  BY FS_Subset
<1>2. QED
  BY <1>1, FS_CardinalityType

LEMMA ExplainedHolds ==
  ASSUME Typed, Counted, Explained, [Next]_vars PROVE Explained'
<1> DEFINE shown == {r[1] : r \in refuted}
           pending == IF pc = "score" /\ terrors # 0 THEN {test_set[i].name} ELSE {}
<1>1. /\ IsFiniteSet(Unexplained) /\ Cardinality(Unexplained) <= alarms /\ alarms \in Nat
      /\ Unexplained = (failed \cup pending) \ shown /\ IsFiniteSet(failed)
  <2>1. IsFiniteSet(failed) /\ Cardinality(Unexplained) <= alarms /\ alarms \in Nat
    BY DEF Explained, Counted
  <2>2. IsFiniteSet(failed \cup pending)
    <3>1. IsFiniteSet(failed \cup {test_set[i].name})
      BY <2>1, FS_AddElement
    <3>2. QED
      BY <2>1, <3>1
  <2>3. Unexplained = (failed \cup pending) \ shown
    BY DEF Unexplained
  <2> HIDE DEF pending, shown
  <2>4. IsFiniteSet(Unexplained)
    BY <2>2, <2>3, FS_Subset
  <2>5. QED
    BY <2>1, <2>3, <2>4
<1>2. ASSUME IsFiniteSet(failed'), Unexplained' \subseteq Unexplained, alarms' = alarms PROVE Explained'
  BY <1>1, <1>2, NoMore DEF Explained
(* What leaves alone what failed and what was shown, and decides nothing.  *)
<1>3. ASSUME UNCHANGED <<alarms, refuted, failed>>, pc' # "score" PROVE Explained'
  <2>1. Unexplained' \subseteq Unexplained
    BY <1>3 DEF Unexplained
  <2>2. QED
    BY <1>1, <1>2, <1>3, <2>1
<1>4. CASE UNCHANGED vars
  BY <1>4 DEF Explained, Unexplained, vars, loops, score, clock, seen
<1>5. ASSUME Option, pc' \in {"options", "exited"} PROVE Explained'
  BY <1>3, <1>5 DEF Option, clock, seen
<1>6. ASSUME NEW k \in 1 .. 3, NEW text \in Texts, ArgOption(k, text) PROVE Explained'
  BY <1>5, <1>6 DEF ArgOption, Option
<1>7. ASSUME NEW name \in Names, NameOption(name) PROVE Explained'
  BY <1>5, <1>7 DEF NameOption, Option
<1>8. ASSUME NEW r \in Ratings, RatingOption(r) PROVE Explained'
  BY <1>5, <1>8 DEF RatingOption, Option
<1>9. ASSUME NEW limit \in Limits, LimitOption(limit) PROVE Explained'
  BY <1>5, <1>9 DEF LimitOption, Option
<1>10. CASE Start
  BY <1>3, <1>10 DEF Start, clock, seen
<1>11. CASE Call
  BY <1>3, <1>11 DEF Call, clock, seen
<1>12. CASE GenerateValues
  BY <1>3, <1>12 DEF GenerateValues, clock, seen
<1>13. CASE SetAlarm
  BY <1>3, <1>13 DEF SetAlarm, seen
<1>14. CASE Test
  <2>1. pc = "test" /\ terrors = 0 /\ alarms' = alarms /\ failed' = failed /\ i' = i
    BY <1>14 DEF Test, clock, Counted
  <2>2. CASE Error
    <3>1. refuted' = refuted \cup {<<test_set[i].name, arguments>>}
      BY <1>14, <2>2 DEF Test, Error
    <3> DEFINE name == test_set[i].name
               R == refuted'
    <3>2. \A x : x \in shown \/ x = name => x \in {r[1] : r \in R}
      <4>1. \A r \in refuted : r \in R
        BY <3>1
      <4>2. <<name, arguments>> \in R /\ <<name, arguments>>[1] = name
        BY <3>1
      <4> HIDE DEF R, name
      <4>3. QED
        BY <4>1, <4>2
    <3>3. Unexplained' \subseteq Unexplained
      BY <2>1, <3>2 DEF Unexplained
    <3>4. QED
      BY <1>1, <1>2, <2>1, <3>3
  <2>3. CASE ~Error
    <3>1. refuted' = refuted /\ terrors' = 0
      BY <1>14, <2>1, <2>3 DEF Test, Error
    <3>2. Unexplained' \subseteq Unexplained
      BY <2>1, <3>1 DEF Unexplained
    <3>3. QED
      BY <1>1, <1>2, <2>1, <3>2
  <2>4. QED
    BY <2>2, <2>3
<1>15. CASE Score
  <2>1. /\ pc = "score" /\ pc' = "loop" /\ UNCHANGED <<alarms, refuted>>
        /\ failed' = IF terrors = 0 THEN failed ELSE failed \cup {test_set[i].name}
    BY <1>15 DEF Score, clock
  <2>2. IsFiniteSet(failed')
    <3>1. IsFiniteSet(failed \cup {test_set[i].name})
      BY <1>1, FS_AddElement
    <3>2. QED
      BY <1>1, <2>1, <3>1
  <2>3. Unexplained' \subseteq Unexplained
    BY <2>1 DEF Unexplained
  <2>4. QED
    BY <1>2, <2>1, <2>2, <2>3
<1>16. CASE Finish
  BY <1>3, <1>16 DEF Finish, clock, seen
<1>17. CASE AlarmGoesOff
  <2>1. alarms' = alarms + 1 /\ failed' = failed /\ refuted' = refuted /\ i' = i
    BY <1>17 DEF AlarmGoesOff, loops, seen
  <2> DEFINE name == test_set[i].name
             more == Unexplained \cup {name}
  <2>2. Unexplained' \subseteq more
    BY <2>1 DEF Unexplained
  <2>3. IsFiniteSet(more) /\ Cardinality(more) <= Cardinality(Unexplained) + 1 /\ Cardinality(Unexplained) \in Nat
    <3>1. IsFiniteSet(more) /\ Cardinality(more) = IF name \in Unexplained THEN Cardinality(Unexplained) ELSE Cardinality(Unexplained) + 1
      BY <1>1, FS_AddElement
    <3>2. Cardinality(Unexplained) \in Nat
      BY <1>1, FS_CardinalityType
    <3>3. QED
      BY <3>1, <3>2
  <2> HIDE DEF more
  <2>4. /\ Cardinality(Unexplained') <= Cardinality(more)
        /\ Cardinality(Unexplained') \in Nat /\ Cardinality(more) \in Nat
    BY <2>2, <2>3, NoMore
  <2>5. Cardinality(Unexplained') <= alarms'
    BY <1>1, <2>1, <2>3, <2>4
  <2>6. QED
    BY <1>1, <2>1, <2>5 DEF Explained
<1>18. CASE Ended
  BY <1>4, <1>18 DEF Ended
<1>19. QED
  BY <1>4, <1>6, <1>7, <1>8, <1>9, <1>10, <1>11, <1>12, <1>13, <1>14, <1>15, <1>16, <1>17, <1>18
     DEF Next

LEMMA KnownHolds ==
  ASSUME Typed, Valued, WrongOnlyWhereKnown, [Next]_vars PROVE WrongOnlyWhereKnown'
<1>1. ASSUME refuted' = refuted, wraps' = wraps PROVE WrongOnlyWhereKnown'
  <2> HIDE DEF Word
  <2>1. QED
    BY <1>1 DEF WrongOnlyWhereKnown
<1>2. CASE Test
  <2>1. pc = "test" /\ wraps' = wraps
    BY <1>2 DEF Test, build
  <2>2. CASE ~Error
    BY <1>1, <1>2, <2>1, <2>2 DEF Test, Error
  <2>3. CASE Error
    <3> DEFINE r == <<test_set[i].name, arguments>>
    <3>1. refuted' = refuted \cup {r}
      BY <1>2, <2>3 DEF Test, Error
    <3>2. r[1] \in Floats \/ (r[1] = "isLessOrEqual" /\ wraps /\ r[2][2] - r[2][1] \notin Word)
      BY <2>1, <2>3, ErrorKnown
    <3> HIDE DEF r, Word
    <3>3. QED
      BY <2>1, <3>1, <3>2 DEF WrongOnlyWhereKnown
  <2>4. QED
    BY <2>2, <2>3
<1>3. CASE ~Test
  <2>1. refuted' = refuted /\ wraps' = wraps
    BY <1>3 DEF Next, vars, build, seen, ArgOption, NameOption, RatingOption, LimitOption,
       Option, Start, Call,
       GenerateValues, SetAlarm, Score, Finish, AlarmGoesOff, Ended
  <2>2. QED
    BY <1>1, <2>1
<1>4. QED
  BY <1>2, <1>3

Inv ==
  /\ Typed /\ Counted /\ Valued /\ Reached /\ Decided /\ Earned /\ Explained
  /\ WrongOnlyWhereKnown

LEMMA InvInitially ==
  ASSUME Init PROVE Inv
<1>1. Typed
  <2>1. 0 \in Word
    BY WidthFacts
  <2> HIDE DEF Word
  <2>2. QED
    BY <2>1 DEF Init, Typed
<1>2. Counted /\ Valued /\ Reached /\ Decided /\ Earned /\ WrongOnlyWhereKnown
  BY DEF Init, Counted, Valued, Reached, Decided, Earned, WrongOnlyWhereKnown
<1>3. Explained
  <2>1. Unexplained = {} /\ failed = {} /\ alarms = 0
    BY DEF Init, Unexplained
  <2>2. QED
    BY <2>1, FS_EmptySet DEF Explained
<1>4. QED
  BY <1>1, <1>2, <1>3 DEF Inv

(* Spec keeps the invariant: for any width, test range, random words, texts*)
(* after the options and number of alarms.                                 *)
THEOREM BTestInvariant == Spec => []Inv
<1>1. Init => Inv
  BY InvInitially
<1>2. Inv /\ [Next]_vars => Inv'
  BY TypedHolds, CountedHolds, ValuedHolds, ReachedHolds, DecidedHolds, EarnedHolds,
     ExplainedHolds, KnownHolds DEF Inv
<1>3. QED
  BY <1>1, <1>2, PTL DEF Spec

(* run_tests' total is the worth of the puzzles asked for that equal their *)
(* references for every word, and alarms only take away from it.           *)
THEOREM BTestScoreIsRight == Spec => []ScoreIsRight
<1>1. Inv => ScoreIsRight
  <2>1. SUFFICES ASSUME Inv, pc = "done", ~FixedArguments
                 PROVE  /\ points <= Worth(Asked \cap right)
                        /\ alarms = 0 => points = Worth(Asked \cap right)
    BY DEF ScoreIsRight
  <2>2. i = 14 /\ points <= Sum /\ (alarms = 0 => points = Sum)
    BY <2>1 DEF Inv, Typed, Earned
  <2>3. Gained = Asked \cap right
    <3>1. ToSet(test_set) = {test_set[k] : k \in 1 .. (14 - 1)}
      BY Table DEF ToSet
    <3>2. QED
      BY <2>2, <3>1 DEF Gained, Before, Asked
  <2>4. Sum = Worth(Asked \cap right)
    BY <2>3 DEF Sum, Worth, Pairs, rating
  <2>5. QED
    BY <2>2, <2>4
<1>2. QED
  BY <1>1, BTestInvariant, PTL

(* What test_function finds wrong is a stub, or isLessOrEqual where y - x  *)
(* overflows in the build that wraps.                                      *)
THEOREM BTestWrongOnlyWhereKnown == Spec => []WrongOnlyWhereKnown
<1>1. Inv => WrongOnlyWhereKnown
  BY DEF Inv
<1>2. QED
  BY <1>1, BTestInvariant, PTL

(* The puzzles that get no points without a difference in test_function    *)
(* are no more than the alarms that went off.                              *)
THEOREM BTestFailuresExplained == Spec => []FailuresExplained
<1>1. Inv => FailuresExplained
  <2>1. SUFFICES ASSUME Inv PROVE FailuresExplained
    OBVIOUS
  <2> DEFINE shown == {r[1] : r \in refuted}
             pending == IF pc = "score" /\ terrors # 0 THEN {test_set[i].name} ELSE {}
  <2>2. IsFiniteSet(failed) /\ Cardinality(Unexplained) <= alarms /\ alarms \in Nat
    BY <2>1 DEF Inv, Explained, Counted
  <2>3. IsFiniteSet(Unexplained)
    <3>1. IsFiniteSet(failed \cup {test_set[i].name})
      BY <2>2, FS_AddElement
    <3>2. Unexplained \in SUBSET (failed \cup {test_set[i].name})
      BY DEF Unexplained
    <3>3. QED
      BY <3>1, <3>2, FS_Subset
  <2>4. failed \ shown \subseteq Unexplained
    BY DEF Unexplained
  <2> HIDE DEF shown
  <2>5. Cardinality(failed \ shown) <= Cardinality(Unexplained)
        /\ Cardinality(failed \ shown) \in Nat /\ Cardinality(Unexplained) \in Nat
    BY <2>3, <2>4, NoMore
  <2>6. Cardinality(failed \ shown) <= alarms
    BY <2>2, <2>5
  <2>7. QED
    BY <2>6 DEF FailuresExplained, shown
<1>2. QED
  BY <1>1, BTestInvariant, PTL

(* The rest of what TypeOK says.                                           *)
Bounded ==
  /\ armed \in BOOLEAN /\ options \in 0 .. MaxOptions /\ alarms \in 0 .. MaxAlarms
  /\ test_fname \in Names \cup {"all"}
  /\ global_rating \in Ratings \cup {0} /\ timeout_limit \in Limits \cup {30}
  /\ max_points \in Nat /\ failed \subseteq Names
  /\ vals \in Seq(Seq(Word)) /\ Len(vals) <= 3

LEMMA BoundedHolds ==
  ASSUME Typed, Valued, Bounded, [Next]_vars PROVE Bounded'
<1>1. CASE UNCHANGED vars
  BY <1>1 DEF Bounded, vars, command, loops, score, clock, seen
<1>2. ASSUME Option
      PROVE  options' \in 0 .. MaxOptions /\ UNCHANGED <<vals, max_points, armed, alarms, failed>>
  <2>1. MaxOptions \in Nat
    BY BTestAssumption
  <2>2. QED
    BY <1>2, <2>1 DEF Option, loops, score, clock, seen, Bounded
<1>3. ASSUME NEW k \in 1 .. 3, NEW text \in Texts, ArgOption(k, text) PROVE Bounded'
  BY <1>2, <1>3 DEF ArgOption, Bounded
<1>4. ASSUME NEW name \in Names, NameOption(name) PROVE Bounded'
  BY <1>2, <1>4 DEF NameOption, Bounded
<1>5. ASSUME NEW r \in Ratings, RatingOption(r) PROVE Bounded'
  BY <1>2, <1>5 DEF RatingOption, Bounded
<1>6. ASSUME NEW limit \in Limits, LimitOption(limit) PROVE Bounded'
  BY <1>2, <1>6 DEF LimitOption, Bounded
<1>7. CASE Start
  BY <1>7 DEF Start, command, loops, score, clock, seen, Bounded
<1>8. CASE Call
  <2>1. vals' = <<>> /\ <<>> \in Seq(Seq(Word)) /\ Len(<<>>) = 0
    BY <1>8, EmptySeq DEF Call
  <2>2. UNCHANGED <<command, max_points, clock, seen>>
    BY <1>8 DEF Call
  <2>3. QED
    BY <2>1, <2>2 DEF command, clock, seen, Bounded
<1>9. CASE GenerateValues
  <2>2. Valued' /\ pc' = "gen" /\ i' = i /\ i \in 1 .. 13
    BY <1>9, ValuedHolds DEF GenerateValues, Typed
  <2>3. vals' \in Seq(Seq(Word)) /\ Len(vals') <= test_set[i].args /\ test_set[i].args \in 0 .. 3
    BY <2>2, Entry DEF Valued
  <2>4. Len(vals') \in Nat
    BY <2>3, LenProperties
  <2>5. UNCHANGED <<command, score, clock, seen>>
    BY <1>9 DEF GenerateValues
  <2>6. QED
    BY <2>3, <2>4, <2>5 DEF command, score, clock, seen, Bounded
<1>10. CASE SetAlarm
  BY <1>10 DEF SetAlarm, command, score, seen, Bounded
<1>11. CASE Test
  BY <1>11 DEF Test, command, clock, Bounded
<1>12. CASE Score
  <2>1. i \in 1 .. 13 /\ global_rating \in Int /\ global_rating >= 0
    BY <1>12 DEF Score, Typed
  <2>2. rating(test_set[i]) \in Nat /\ test_set[i].name \in Names
    BY <2>1, Entry DEF rating
  <2>3. QED
    <3>1. max_points' \in Nat
      BY <1>12, <2>2 DEF Score, Bounded
    <3>2. failed' \subseteq Names
      BY <1>12, <2>2 DEF Score, Bounded
    <3>3. UNCHANGED <<command, clock, vals>>
      BY <1>12 DEF Score
    <3>4. QED
      BY <3>1, <3>2, <3>3 DEF command, clock, Bounded
<1>13. CASE Finish
  BY <1>13 DEF Finish, command, loops, score, clock, seen, Bounded
<1>14. CASE AlarmGoesOff
  <2>1. MaxAlarms \in Nat
    BY BTestAssumption
  <2>2. QED
    <3>1. armed' \in BOOLEAN /\ alarms' \in 0 .. MaxAlarms
      <4>1. armed' = FALSE /\ alarms < MaxAlarms /\ alarms' = alarms + 1
        BY <1>14 DEF AlarmGoesOff
      <4>2. alarms \in 0 .. MaxAlarms
        BY DEF Bounded
      <4>3. armed' \in BOOLEAN
        BY <4>1, Zenon
      <4>4. alarms' \in 0 .. MaxAlarms
        BY <2>1, <4>1, <4>2
      <4>5. QED
        BY <4>3, <4>4
    <3>2. UNCHANGED <<command, loops, max_points, seen>>
      BY <1>14 DEF AlarmGoesOff
    <3>3. QED
      BY <3>1, <3>2 DEF command, loops, seen, Bounded
<1>15. CASE Ended
  BY <1>1, <1>15 DEF Ended
<1>16. QED
  BY <1>1, <1>3, <1>4, <1>5, <1>6, <1>7, <1>8, <1>9, <1>10, <1>11, <1>12, <1>13, <1>14, <1>15 DEF Next

(* btest's state is well typed: the values after the options and those     *)
(* that gen_vals generates are words, the floats too.                      *)
THEOREM BTestTypeCorrect == Spec => []TypeOK
<1>1. Init => Bounded
  <2>1. <<>> \in Seq(Seq(Word)) /\ Len(<<>>) = 0
    BY EmptySeq
  <2>2. MaxOptions \in Nat /\ MaxAlarms \in Nat
    BY BTestAssumption
  <2>3. SUFFICES ASSUME Init PROVE Bounded
    OBVIOUS
  <2>4. options \in 0 .. MaxOptions /\ alarms \in 0 .. MaxAlarms /\ max_points \in Nat
    BY <2>2, <2>3 DEF Init
  <2>5. vals \in Seq(Seq(Word)) /\ Len(vals) <= 3
    BY <2>1, <2>3 DEF Init
  <2>6. QED
    BY <2>3, <2>4, <2>5 DEF Init, Bounded
<1>2. Inv /\ Bounded /\ [Next]_vars => Bounded'
  BY BoundedHolds DEF Inv
<1>3. Inv /\ Bounded => TypeOK
  <2>1. SUFFICES ASSUME Inv, Bounded PROVE TypeOK
    OBVIOUS
  <2>2. Len(test_set) + 1 = 14
    BY Table
  <2>3. \A k \in DOMAIN vals : vals[k] \in Seq(Word)
    BY <2>1 DEF Bounded
  <2> HIDE DEF Word
  <2>4. QED
    BY <2>1, <2>2, <2>3 DEF Inv, Typed, Counted, Bounded, TypeOK
<1>4. QED
  BY <1>1, <1>2, <1>3, BTestInvariant, PTL DEF Spec
=============================================================================
