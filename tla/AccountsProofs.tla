--------------------------- MODULE AccountsProofs ----------------------------
(***************************************************************************)
(* Proofs about Accounts, for any sizes, any lines and any width of a      *)
(* size_t: the counters of report.c say what there is, the limit holds,    *)
(* and quitting gives everything back.                                     *)
(***************************************************************************)
EXTENDS Accounts, SequenceTheorems, WellFoundedInduction, TLAPS

-----------------------------------------------------------------------------
(* Numbers: the least of a set, and sums under a modulus.                  *)
LEMMA LeastOf ==
  ASSUME NEW S, S \subseteq Nat, S # {}
  PROVE  \E m \in S : \A k \in S : m <= k
<1> DEFINE less == OpToRel(<, Nat)
<1>1. \E m \in S : \A k \in S : <<k, m>> \notin less
  BY NatLessThanWellFounded, WFMin
<1>2. ASSUME NEW k \in S, NEW m \in S, k < m PROVE <<k, m>> \in less
  BY <1>2, Zenon DEF OpToRel
<1>3. \A k \in S, m \in S : (k < m) => <<k, m>> \in less
  BY <1>2
<1> HIDE DEF less
<1>4. PICK m \in S : \A k \in S : <<k, m>> \notin less
  BY <1>1
<1>5. \A k \in S : ~(k < m)
  BY <1>3, <1>4
<1>6. QED
  BY <1>5

LEMMA ModOfMultiple ==
  ASSUME NEW M \in Nat \ {0}, NEW q \in Int, NEW r \in 0..M-1
  PROVE  (M * q + r) % M = r
  OBVIOUS

LEMMA ModRange ==
  ASSUME NEW M \in Nat \ {0}, NEW a \in Int
  PROVE  (a % M) \in 0..M-1
  OBVIOUS

LEMMA ModSmall ==
  ASSUME NEW M \in Nat \ {0}, NEW r \in 0..M-1
  PROVE  r % M = r
  OBVIOUS

LEMMA Quotient ==
  ASSUME NEW M \in Nat \ {0}, NEW a \in Int
  PROVE  \E q \in Int : a = M * q + (a % M)
<1>1. a = M * (a \div M) + (a % M) /\ a \div M \in Int
  OBVIOUS
<1>2. QED
  BY <1>1

LEMMA ModShift ==
  ASSUME NEW M \in Nat \ {0}, NEW q \in Int, NEW w \in Int
  PROVE  (M * q + w) % M = w % M
<1>1. PICK p \in Int : w = M * p + (w % M)
  BY Quotient
<1>2. (w % M) \in 0..M-1
  BY ModRange
<1> DEFINE r == w % M
<1> HIDE DEF r
<1>3. M * q + w = M * (q + p) + r /\ q + p \in Int /\ r \in 0..M-1
  BY <1>1, <1>2 DEF r
<1>4. (M * (q + p) + r) % M = r
  BY <1>3, ModOfMultiple
<1>5. QED
  BY <1>3, <1>4 DEF r

LEMMA Linear ==
  ASSUME NEW A \in Int, NEW B \in Int, NEW C \in Int, NEW a \in Int, NEW f \in Int, NEW n \in Int,
         NEW x \in Int, NEW y \in Int, NEW z \in Int, NEW x1 \in Int, NEW y1 \in Int, NEW h \in Int,
         x + a = B + x1, y + f = C + y1, x - y + z = A + h
  PROVE  x1 - y1 + (z + n) = (A - B + C) + (h + a - f + n)
  OBVIOUS

(* Counters that are advanced modulo M keep what they say of each other.   *)
ModCounts(M, a, f, n, x, y, z, h) ==
  (x - y + z) % M = h =>
    (((x + a) % M) - ((y + f) % M) + (z + n)) % M = (h + a - f + n) % M

LEMMA ModCount ==
  ASSUME NEW M \in Nat \ {0}, NEW a \in Int, NEW f \in Int, NEW n \in Int,
         NEW x \in Int, NEW y \in Int, NEW z \in Int, NEW h \in Int
  PROVE  ModCounts(M, a, f, n, x, y, z, h)
<1> SUFFICES ASSUME (x - y + z) % M = h
             PROVE  (((x + a) % M) - ((y + f) % M) + (z + n)) % M = (h + a - f + n) % M
  BY DEF ModCounts
<1> DEFINE u == x + a
           v == y + f
           t == x - y + z
           x1 == u % M
           y1 == v % M
           w == h + a - f + n
<1>1. /\ u \in Int /\ v \in Int /\ t \in Int /\ t % M = h
      /\ x1 = u % M /\ y1 = v % M /\ u = x + a /\ v = y + f /\ t = x - y + z
  OBVIOUS
<1> HIDE DEF u, v, t, x1, y1
<1>2. PICK p \in Int : u = M * p + (u % M)
  BY <1>1, Quotient, Zenon
<1>3. PICK q \in Int : v = M * q + (v % M)
  BY <1>1, Quotient, Zenon
<1>4. PICK k \in Int : t = M * k + (t % M)
  BY <1>1, Quotient, Zenon
<1>5. x1 - y1 + (z + n) = (M * k - M * p + M * q) + w
  <2>1. x1 \in Int /\ y1 \in Int /\ h \in Int
    BY <1>1, ModRange
  <2>2. x + a = M * p + x1 /\ y + f = M * q + y1 /\ x - y + z = M * k + h
    BY <1>1, <1>2, <1>3, <1>4, Zenon
  <2>3. M * p \in Int /\ M * q \in Int /\ M * k \in Int
    OBVIOUS
  <2>4. QED
    BY <2>1, <2>2, <2>3, Linear
<1>6. w \in Int
  BY <1>1, ModRange
<1> HIDE DEF w
<1>7. M * k - M * p + M * q = M * (k - p + q) /\ k - p + q \in Int
  OBVIOUS
<1>8. (M * (k - p + q) + w) % M = w % M
  BY <1>6, <1>7, ModShift
<1>9. QED
  BY <1>5, <1>7, <1>8 DEF x1, y1, u, v, w

ModSums(M, a, n, x, z, h) ==
  (x + z) % M = h => (((x + a) % M) + (z + n)) % M = (h + a + n) % M

LEMMA ModSum ==
  ASSUME NEW M \in Nat \ {0}, NEW a \in Int, NEW n \in Int, NEW x \in Int, NEW z \in Int, NEW h \in Int
  PROVE  ModSums(M, a, n, x, z, h)
<1> DEFINE x1 == (x + a) % M
<1>1. 0 \in Int
  OBVIOUS
<1>2. ModCounts(M, a, 0, n, x, 0, z, h)
  BY <1>1, ModCount, Zenon
<1>3. x - 0 + z = x + z /\ h + a - 0 + n = h + a + n /\ (0 + 0) % M = 0
  OBVIOUS
<1>4. (x + z) % M = h => (x1 - 0 + (z + n)) % M = (h + a + n) % M
  <2> HIDE DEF x1
  <2>1. (x - 0 + z) % M = h => (x1 - ((0 + 0) % M) + (z + n)) % M = (h + a - 0 + n) % M
    BY <1>2, Zenon DEF ModCounts, x1
  <2>2. QED
    BY <1>3, <2>1, Zenon
<1>5. x1 \in Int
  BY ModRange
<1> HIDE DEF x1
<1>6. x1 - 0 + (z + n) = x1 + (z + n)
  BY <1>5
<1>7. QED
  BY <1>4, <1>6, Zenon DEF x1, ModSums

ModDifferences(M, a, f, x, y, h) ==
  (x - y) % M = h => (((x + a) % M) - ((y + f) % M)) % M = (h + a - f) % M

LEMMA ModDifference ==
  ASSUME NEW M \in Nat \ {0}, NEW a \in Int, NEW f \in Int, NEW x \in Int, NEW y \in Int, NEW h \in Int
  PROVE  ModDifferences(M, a, f, x, y, h)
<1> DEFINE x1 == (x + a) % M
           y1 == (y + f) % M
<1>1. 0 \in Int
  OBVIOUS
<1>2. ModCounts(M, a, f, 0, x, y, 0, h)
  BY <1>1, ModCount, Zenon
<1>3. x - y + 0 = x - y /\ h + a - f + 0 = h + a - f
  OBVIOUS
<1>4. (x - y) % M = h => (x1 - y1 + (0 + 0)) % M = (h + a - f) % M
  BY <1>2, <1>3, Zenon DEF ModCounts
<1>5. x1 \in Int /\ y1 \in Int
  BY ModRange
<1> HIDE DEF x1, y1
<1>6. x1 - y1 + (0 + 0) = x1 - y1
  BY <1>5
<1>7. QED
  BY <1>4, <1>6, Zenon DEF x1, y1, ModDifferences

-----------------------------------------------------------------------------
(* Sequences: the length of a part, and one element taken out.             *)
LEMMA SubSeqIs ==
  ASSUME NEW S, NEW s, NEW m \in Int, NEW n \in Int,
         \A i \in m..n : s[i] \in S, m <= n + 1
  PROVE  /\ SubSeq(s, m, n) \in Seq(S) /\ Len(SubSeq(s, m, n)) = n - m + 1
         /\ \A i \in 1..n-m+1 : SubSeq(s, m, n)[i] = s[m+i-1]
<1> DEFINE b == SubSeq(s, m, n)
           l == Len(b)
<1>1. b \in Seq(S) /\ \A i \in 1..n-m+1 : b[i] = s[m+i-1]
  BY SubSeqProperties
<1>2. l = IF m <= n THEN n - m + 1 ELSE 0
  BY SubSeqProperties
<1> HIDE DEF b, l
<1>3. l = n - m + 1
  BY <1>2
<1>4. QED
  BY <1>1, <1>3 DEF b, l

LEMMA RemoveSeq ==
  ASSUME NEW S, NEW s \in Seq(S), NEW i \in 1..Len(s)
  PROVE  LET a == SubSeq(s, 1, i - 1)
             b == SubSeq(s, i + 1, Len(s))
         IN  /\ a \o b \in Seq(S) /\ Len(a \o b) = Len(s) - 1
             /\ \A k \in 1..Len(s)-1 : (k < i) => (a \o b)[k] = s[k]
             /\ \A k \in 1..Len(s)-1 : (k >= i) => (a \o b)[k] = s[k+1]
<1>1. Len(s) \in Nat /\ s \in [1..Len(s) -> S]
  BY LenProperties
<1> DEFINE a == SubSeq(s, 1, i - 1)
           b == SubSeq(s, i + 1, Len(s))
<1>2. a \in Seq(S) /\ Len(a) = i - 1 /\ \A k \in 1..i-1 : a[k] = s[k]
  <2>1. 1..0 = {} /\ 1 \in Int /\ i - 1 \in Int /\ \A j \in 1..i-1 : j \in 1..Len(s)
    BY <1>1
  <2>2. \A j \in 1..i-1 : s[j] \in S
    BY <1>1, <2>1
  <2>3. QED
    BY <2>1, <2>2, SubSeqProperties
<1>3. b \in Seq(S) /\ Len(b) = Len(s) - i /\ \A k \in 1..Len(s)-i : b[k] = s[k+i]
  <2>1. i + 1 \in Int /\ Len(s) \in Int /\ i + 1 <= Len(s) + 1 /\ \A j \in i+1..Len(s) : s[j] \in S
    BY <1>1
  <2> DEFINE l == Len(b)
  <2>2. /\ b \in Seq(S) /\ l = Len(s) - (i + 1) + 1
        /\ \A k \in 1..Len(s) - (i + 1) + 1 : b[k] = s[(i + 1) + k - 1]
    BY <2>1, SubSeqIs
  <2> HIDE DEF b, l
  <2>3. ASSUME NEW k \in 1..Len(s)-i PROVE b[k] = s[k+i]
    <3>1. (i + 1) + k - 1 = k + i /\ k \in 1..Len(s) - (i + 1) + 1
      BY <1>1
    <3>2. QED
      BY <2>2, <3>1
  <2>4. l = Len(s) - i
    BY <1>1, <2>2
  <2>5. QED
    BY <2>2, <2>3, <2>4 DEF l
<1> HIDE DEF a, b
<1>4. /\ a \o b \in Seq(S) /\ Len(a \o b) = Len(s) - 1
      /\ \A k \in 1..Len(s)-1 : (a \o b)[k] = IF k <= Len(a) THEN a[k] ELSE b[k - Len(a)]
  <2>1. Len(a) + Len(b) = Len(s) - 1
    BY <1>1, <1>2, <1>3
  <2>2. a \in Seq(S) /\ b \in Seq(S)
    BY <1>2, <1>3
  <2>3. /\ a \o b \in Seq(S) /\ Len(a \o b) = Len(a) + Len(b)
        /\ \A k \in 1..Len(a) + Len(b) :
             (a \o b)[k] = IF k <= Len(a) THEN a[k] ELSE b[k - Len(a)]
    BY <2>2, ConcatProperties, SMTT(30)
  <2>4. QED
    BY <2>1, <2>3
<1>5. ASSUME NEW k \in 1..Len(s)-1, k < i PROVE (a \o b)[k] = s[k]
  BY <1>1, <1>2, <1>4, <1>5
<1>6. ASSUME NEW k \in 1..Len(s)-1, k >= i PROVE (a \o b)[k] = s[k+1]
  <2>1. k - (i - 1) \in 1..Len(s)-i /\ ~(k <= i - 1) /\ (k - (i - 1)) + i = k + 1
    BY <1>1, <1>6
  <2>2. QED
    BY <1>2, <1>3, <1>4, <2>1
<1>7. QED
  BY <1>4, <1>5, <1>6 DEF a, b

-----------------------------------------------------------------------------
(* Totals: f has the sums of the beginnings of e.                          *)
Sums(n, e, f) ==
  f \in [0..n -> Int] /\ f[0] = 0 /\ \A k \in 1..n : f[k] = f[k-1] + e[k]

LEMMA SumsExist ==
  ASSUME NEW n \in Nat, NEW e \in [1..n -> Int]
  PROVE  \E f \in [0..n -> Int] : Sums(n, e, f)
<1> DEFINE Upto(m) == \E f \in [0..m -> Int] : f[0] = 0 /\ \A k \in 1..m : f[k] = f[k-1] + e[k]
           Bad == {m \in 0..n : ~Upto(m)}
<1>1. Upto(0)
  <2> DEFINE zero == [k \in 0..0 |-> 0]
  <2>1. zero \in [0..0 -> Int] /\ zero[0] = 0 /\ 1..0 = {}
    OBVIOUS
  <2> HIDE DEF zero
  <2>2. QED
    BY <2>1
<1>2. ASSUME NEW m \in 1..n, Upto(m-1) PROVE Upto(m)
  <2>1. PICK f \in [0..m-1 -> Int] : f[0] = 0 /\ \A k \in 1..m-1 : f[k] = f[k-1] + e[k]
    BY <1>2
  <2> DEFINE g == [k \in 0..m |-> IF k = m THEN f[m-1] + e[m] ELSE f[k]]
  <2>2. g \in [0..m -> Int]
    BY <2>1
  <2>3. g[0] = 0 /\ \A k \in 1..m : g[k] = g[k-1] + e[k]
    BY <2>1
  <2>4. QED
    BY <2>2, <2>3
<1> HIDE DEF Upto
<1>3. Bad = {}
  <2>1. SUFFICES ASSUME Bad # {} PROVE FALSE
    OBVIOUS
  <2>2. PICK m \in Bad : \A k \in Bad : m <= k
    <3>1. Bad \subseteq Nat
      OBVIOUS
    <3> HIDE DEF Bad
    <3>2. QED
      BY <2>1, <3>1, LeastOf
  <2>3. m \in 1..n /\ m - 1 \in 0..n /\ m - 1 \notin Bad
    BY <1>1, <2>2
  <2>4. QED
    BY <1>2, <2>2, <2>3
<1>4. Upto(n)
  BY <1>3
<1>5. QED
  BY <1>4 DEF Upto, Sums

LEMMA SumsAreNat ==
  ASSUME NEW n \in Nat, NEW e \in [1..n -> Nat], NEW f \in [0..n -> Int], Sums(n, e, f)
  PROVE  f[n] \in Nat
<1> DEFINE Bad == {m \in 0..n : f[m] \notin Nat}
<1>1. Bad = {}
  <2>1. SUFFICES ASSUME Bad # {} PROVE FALSE
    OBVIOUS
  <2>2. PICK m \in Bad : \A k \in Bad : m <= k
    <3>1. Bad \subseteq Nat
      OBVIOUS
    <3> HIDE DEF Bad
    <3>2. QED
      BY <2>1, <3>1, LeastOf
  <2>3. m \in 1..n /\ m - 1 \in 0..n /\ m - 1 \notin Bad
    BY <2>2 DEF Sums
  <2>4. f[m-1] \in Nat /\ f[m] \notin Nat /\ e[m] \in Nat
    BY <2>2, <2>3
  <2>5. f[m] = f[m-1] + e[m]
    BY <2>3 DEF Sums
  <2>6. QED
    BY <2>4, <2>5
<1>2. QED
  BY <1>1

LEMMA SumsMore ==
  ASSUME NEW n \in Nat, NEW d \in [1..n -> Int], NEW e \in [1..n+1 -> Int], 
         \A k \in 1..n : e[k] = d[k],
         NEW f \in [0..n -> Int], Sums(n, d, f)
  PROVE  \E g \in [0..n+1 -> Int] : Sums(n+1, e, g) /\ g[n+1] = f[n] + e[n+1]
<1> DEFINE g == [k \in 0..n+1 |-> IF k = n+1 THEN f[n] + e[n+1] ELSE f[k]]
<1>1. g \in [0..n+1 -> Int] /\ g[n+1] = f[n] + e[n+1] /\ \A k \in 0..n : g[k] = f[k]
  OBVIOUS
<1> HIDE DEF g
<1>2. ASSUME NEW k \in 1..n+1 PROVE g[k] = g[k-1] + e[k]
  <2>1. CASE k \in 1..n
    BY <1>1, <2>1 DEF Sums
  <2>2. CASE k = n + 1
    BY <1>1, <2>2
  <2>3. QED
    BY <2>1, <2>2
<1>3. g[0] = 0
  BY <1>1 DEF Sums
<1>4. QED
  BY <1>1, <1>2, <1>3 DEF Sums

LEMMA SumsWithout ==
  ASSUME NEW n \in Nat, NEW i \in 1..n, NEW e \in [1..n -> Int], NEW d \in [1..n-1 -> Int],
         \A k \in 1..n-1 : (k < i) => d[k] = e[k],
         \A k \in 1..n-1 : (k >= i) => d[k] = e[k+1],
         NEW f \in [0..n -> Int], Sums(n, e, f)
  PROVE  \E g \in [0..n-1 -> Int] : Sums(n-1, d, g) /\ g[n-1] = f[n] - e[i]
<1> DEFINE g == [k \in 0..n-1 |-> IF k < i THEN f[k] ELSE f[k+1] - e[i]]
<1>1. /\ g \in [0..n-1 -> Int]
      /\ \A k \in 0..n-1 : (k < i) => g[k] = f[k]
      /\ \A k \in 0..n-1 : (k >= i) => g[k] = f[k+1] - e[i]
  <2>1. \A k \in 0..n-1 : f[k] \in Int /\ f[k+1] - e[i] \in Int
    OBVIOUS
  <2>2. g \in [0..n-1 -> Int]
    BY <2>1
  <2>3. \A k \in 0..n-1 : g[k] = IF k < i THEN f[k] ELSE f[k+1] - e[i]
    OBVIOUS
  <2> HIDE DEF g
  <2>4. \A k \in 0..n-1 : (k >= i) => ~(k < i)
    OBVIOUS
  <2>5. QED
    BY <2>2, <2>3, <2>4
<1> HIDE DEF g
<1>2. ASSUME NEW k \in 1..n-1 PROVE g[k] = g[k-1] + d[k]
  <2>1. /\ k \in 1..n /\ k + 1 \in 1..n /\ k \in 0..n-1 /\ k-1 \in 0..n-1
        /\ (k + 1) - 1 = k /\ (k - 1) + 1 = k
    OBVIOUS
  <2>2. f[k] = f[k-1] + e[k] /\ f[k+1] = f[k] + e[k+1]
    BY <2>1 DEF Sums
  <2>3. {f[k-1], f[k], f[k+1], e[k], e[k+1], e[i]} \subseteq Int
    BY <2>1
  <2>4. CASE k < i
    BY <1>1, <2>1, <2>2, <2>4
  <2>5. CASE k = i
    <3>1. g[k] = f[k+1] - e[i] /\ g[k-1] = f[k-1] /\ d[k] = e[k+1]
      BY <1>1, <2>1, <2>5
    <3>2. f[k] = f[k-1] + e[i] /\ f[k+1] = f[k] + e[k+1]
      BY <2>2, <2>5
    <3>3. {f[k-1], f[k], f[k+1], e[k+1], e[i]} \subseteq Int
      BY <2>3
    <3>4. f[k+1] - e[i] = f[k-1] + e[k+1]
      <4> DEFINE u == f[k-1]
                 v == f[k]
                 w == f[k+1]
                 x == e[i]
                 y == e[k+1]
      <4>1. v = u + x /\ w = v + y
        BY <3>2
      <4>2. u \in Int /\ v \in Int /\ w \in Int /\ x \in Int /\ y \in Int
        BY <3>3
      <4> HIDE DEF u, v, w, x, y
      <4>3. w - x = u + y
        BY <4>1, <4>2
      <4>4. QED
        BY <4>3 DEF u, v, w, x, y
    <3>5. QED
      BY <3>1, <3>4
  <2>6. CASE k > i
    <3>1. g[k] = f[k+1] - e[i] /\ g[k-1] = f[k] - e[i] /\ d[k] = e[k+1]
      BY <1>1, <2>1, <2>6
    <3>2. f[k+1] = f[k] + e[k+1] /\ f[k] \in Int /\ e[k+1] \in Int /\ e[i] \in Int
      BY <2>2, <2>3
    <3>3. QED
      BY <3>1, <3>2
  <2>7. QED
    BY <2>4, <2>5, <2>6
<1>3. g[0] = 0 /\ g[n-1] = f[n] - e[i]
  <2>2. CASE n - 1 < i
    BY <1>1, <2>2 DEF Sums
  <2>3. CASE n - 1 >= i
    BY <1>1, <2>3 DEF Sums
  <2>4. QED
    BY <2>2, <2>3
<1>4. QED
  BY <1>1, <1>2, <1>3 DEF Sums

LEMMA SumsExcept ==
  ASSUME NEW n \in Nat, NEW i \in 1..n, NEW e \in [1..n -> Int], NEW d \in [1..n -> Int],
         \A k \in 1..n : k # i => d[k] = e[k],
         NEW f \in [0..n -> Int], Sums(n, e, f)
  PROVE  \E g \in [0..n -> Int] : Sums(n, d, g) /\ g[n] = f[n] - e[i] + d[i]
<1> DEFINE g == [k \in 0..n |-> IF k < i THEN f[k] ELSE f[k] - e[i] + d[i]]
<1>1. /\ g \in [0..n -> Int]
      /\ \A k \in 0..n : (k < i) => g[k] = f[k]
      /\ \A k \in 0..n : (k >= i) => g[k] = f[k] - e[i] + d[i]
  <2>1. \A k \in 0..n : f[k] \in Int /\ f[k] - e[i] + d[i] \in Int
    OBVIOUS
  <2>2. g \in [0..n -> Int]
    BY <2>1
  <2>3. \A k \in 0..n : g[k] = IF k < i THEN f[k] ELSE f[k] - e[i] + d[i]
    OBVIOUS
  <2> HIDE DEF g
  <2>4. \A k \in 0..n : (k >= i) => ~(k < i)
    OBVIOUS
  <2>5. QED
    BY <2>2, <2>3, <2>4
<1> HIDE DEF g
<1>2. ASSUME NEW k \in 1..n PROVE g[k] = g[k-1] + d[k]
  <2>2. f[k] = f[k-1] + e[k]
    BY DEF Sums
  <2>4. CASE k < i
    BY <1>1, <2>2, <2>4
  <2>5. CASE k = i
    <3>1. g[k] = f[k] - e[i] + d[i] /\ g[k-1] = f[k-1] /\ {f[k-1], e[i], d[i]} \subseteq Int
      BY <1>1, <2>5
    <3>2. QED
      BY <2>2, <2>5, <3>1
  <2>6. CASE k > i
    <3>1. /\ g[k] = f[k] - e[i] + d[i] /\ g[k-1] = f[k-1] - e[i] + d[i] /\ d[k] = e[k]
      <4>1. k \in 0..n /\ k-1 \in 0..n /\ k >= i /\ k-1 >= i /\ k # i
        BY <2>6
      <4>2. QED
        BY <1>1, <4>1
    <3>2. {f[k-1], e[k], e[i], d[i]} \subseteq Int
      OBVIOUS
    <3>3. QED
      BY <2>2, <3>1, <3>2
  <2>7. QED
    BY <2>4, <2>5, <2>6
<1>3. g[0] = 0 /\ g[n] = f[n] - e[i] + d[i]
  BY <1>1 DEF Sums
<1>4. QED
  BY <1>1, <1>2, <1>3 DEF Sums

LEMMA TotalIs ==
  ASSUME NEW s \in Seq(Nat), NEW f \in [0..Len(s) -> Int], Sums(Len(s), s, f)
  PROVE  Total(s) = f[Len(s)]
<1> DEFINE Sum(g) == [k \in 0..Len(s) |-> IF k = 0 THEN 0 ELSE g[k-1] + s[k]]
           sum == CHOOSE g : g = Sum(g)
           Bad == {n \in 0..Len(s) : sum[n] # f[n]}
<1>1. Len(s) \in Nat /\ \A k \in 1..Len(s) : s[k] \in Nat
  BY LenProperties, ElementOfSeq
<1>2. f = Sum(f)
  BY <1>1 DEF Sums
<1>3. sum = Sum(sum)
  BY <1>2
<1>4. Total(s) = sum[Len(s)]
  BY DEF Total
<1> HIDE DEF sum
<1>5. sum[0] = 0 /\ \A k \in 1..Len(s) : sum[k] = sum[k-1] + s[k]
  BY <1>1, <1>3
<1>6. Bad = {}
  <2>1. SUFFICES ASSUME Bad # {} PROVE FALSE
    OBVIOUS
  <2>2. PICK n \in Bad : \A k \in Bad : n <= k
    <3>1. Bad \subseteq Nat
      OBVIOUS
    <3> HIDE DEF Bad
    <3>2. QED
      BY <2>1, <3>1, LeastOf
  <2>3. n \in 1..Len(s) /\ n - 1 \in 0..Len(s) /\ n - 1 \notin Bad
    BY <1>1, <1>5, <2>2 DEF Sums
  <2>4. sum[n-1] = f[n-1] /\ sum[n] # f[n]
    BY <2>2, <2>3
  <2>5. sum[n] = sum[n-1] + s[n] /\ f[n] = f[n-1] + s[n]
    BY <1>5, <2>3 DEF Sums
  <2>6. QED
    BY <2>4, <2>5
<1>7. QED
  BY <1>1, <1>4, <1>6

LEMMA TotalSums ==
  ASSUME NEW s \in Seq(Nat)
  PROVE  /\ Len(s) \in Nat /\ s \in [1..Len(s) -> Nat]
         /\ \E f \in [0..Len(s) -> Int] : Sums(Len(s), s, f) /\ Total(s) = f[Len(s)]
<1>1. Len(s) \in Nat /\ s \in [1..Len(s) -> Nat] /\ s \in [1..Len(s) -> Int]
  BY LenProperties
<1>2. PICK f \in [0..Len(s) -> Int] : Sums(Len(s), s, f)
  BY <1>1, SumsExist
<1>3. QED
  BY <1>1, <1>2, TotalIs

LEMMA TotalNat == ASSUME NEW s \in Seq(Nat) PROVE Total(s) \in Nat
  BY TotalSums, SumsAreNat

LEMMA TotalEmpty == Total(<<>>) = 0
<1>1. <<>> \in Seq(Nat) /\ Len(<<>>) = 0
  BY EmptySeq
<1>2. QED
  BY <1>1, TotalSums DEF Sums

LEMMA TotalAppend ==
  ASSUME NEW s \in Seq(Nat), NEW x \in Nat
  PROVE  /\ Append(s, x) \in Seq(Nat) /\ Len(Append(s, x)) = Len(s) + 1
         /\ Total(Append(s, x)) = Total(s) + x
<1> DEFINE t == Append(s, x)
           n == Len(s)
<1>1. t \in Seq(Nat) /\ Len(t) = n + 1 /\ t[n+1] = x /\ \A k \in 1..n : t[k] = s[k]
  BY AppendProperties
<1>2. n \in Nat /\ s \in [1..n -> Int] /\ t \in [1..n+1 -> Int]
  <2>1. s \in [1..n -> Nat] /\ t \in [1..n+1 -> Nat]
    BY <1>1, LenProperties
  <2>2. QED
    BY <2>1, LenProperties
<1> HIDE DEF t, n
<1>3. PICK f \in [0..n -> Int] : Sums(n, s, f) /\ Total(s) = f[n]
  BY TotalSums DEF n
<1>4. PICK g \in [0..n+1 -> Int] : Sums(n+1, t, g) /\ g[n+1] = f[n] + t[n+1]
  BY <1>1, <1>2, <1>3, SumsMore
<1>5. Total(t) = g[n+1]
  BY <1>1, <1>4, TotalIs
<1>6. QED
  BY <1>1, <1>3, <1>4, <1>5 DEF t, n

LEMMA TotalRemoveAt ==
  ASSUME NEW S \in SUBSET Nat, NEW s \in Seq(S), NEW i \in 1..Len(s)
  PROVE  /\ RemoveAt(s, i) \in Seq(S) /\ Len(RemoveAt(s, i)) = Len(s) - 1
         /\ Total(RemoveAt(s, i)) = Total(s) - s[i]
<1> DEFINE t == RemoveAt(s, i)
           n == Len(s)
<1>1. /\ t \in Seq(S) /\ Len(t) = n - 1
      /\ \A k \in 1..n-1 : (k < i) => t[k] = s[k]
      /\ \A k \in 1..n-1 : (k >= i) => t[k] = s[k+1]
  BY RemoveSeq DEF RemoveAt
<1>2. s \in Seq(Nat) /\ t \in Seq(Nat) /\ n \in Nat /\ i \in 1..n
  BY <1>1, SeqMonotonic, LenProperties
<1>3. s \in [1..n -> Int] /\ t \in [1..n-1 -> Int]
  <2>1. s \in [1..n -> Nat] /\ t \in [1..n-1 -> Nat]
    BY <1>1, <1>2, LenProperties
  <2>2. QED
    BY <2>1
<1> HIDE DEF t, n
<1>4. PICK f \in [0..n -> Int] : Sums(n, s, f) /\ Total(s) = f[n]
  BY <1>2, TotalSums DEF n
<1>5. PICK g \in [0..n-1 -> Int] : Sums(n-1, t, g) /\ g[n-1] = f[n] - s[i]
  BY <1>1, <1>2, <1>3, <1>4, SumsWithout
<1>6. Total(t) = g[n-1]
  BY <1>1, <1>2, <1>5, TotalIs
<1>7. QED
  BY <1>1, <1>4, <1>5, <1>6 DEF t, n

LEMMA TotalTail ==
  ASSUME NEW s \in Seq(Nat), s # <<>>
  PROVE  /\ Tail(s) \in Seq(Nat) /\ Len(Tail(s)) = Len(s) - 1
         /\ Head(s) \in Nat /\ Total(Tail(s)) = Total(s) - Head(s)
<1> DEFINE t == Tail(s)
           n == Len(s)
<1>1. /\ Head(s) \in Nat /\ Head(s) = s[1] /\ t \in Seq(Nat) /\ Len(t) = n - 1
      /\ \A k \in 1..n-1 : t[k] = s[k+1]
  BY HeadTailProperties
<1>2. n \in Nat /\ 1 \in 1..n
  BY EmptySeq, LenProperties
<1>3. s \in [1..n -> Int] /\ t \in [1..n-1 -> Int]
  <2>1. s \in [1..n -> Nat] /\ t \in [1..n-1 -> Nat]
    BY <1>1, <1>2, LenProperties
  <2>2. QED
    BY <2>1
<1> HIDE DEF t, n
<1>4. PICK f \in [0..n -> Int] : Sums(n, s, f) /\ Total(s) = f[n]
  BY <1>2, TotalSums DEF n
<1>5. PICK g \in [0..n-1 -> Int] : Sums(n-1, t, g) /\ g[n-1] = f[n] - s[1]
  <2>1. \A k \in 1..n-1 : ~(k < 1)
    OBVIOUS
  <2>2. QED
    BY <1>1, <1>2, <1>3, <1>4, <2>1, SumsWithout
<1>6. Total(t) = g[n-1]
  BY <1>1, <1>2, <1>5, TotalIs
<1>7. QED
  BY <1>1, <1>4, <1>5, <1>6 DEF t, n

LEMMA TotalExcept ==
  ASSUME NEW S \in SUBSET Nat, NEW s \in Seq(S), NEW i \in 1..Len(s), NEW x \in S
  PROVE  /\ [s EXCEPT ![i] = x] \in Seq(S) /\ Len([s EXCEPT ![i] = x]) = Len(s)
         /\ Total([s EXCEPT ![i] = x]) = Total(s) - s[i] + x
<1> DEFINE t == [s EXCEPT ![i] = x]
           n == Len(s)
<1>1. t \in Seq(S) /\ Len(t) = n /\ t[i] = x /\ \A k \in 1..n : k # i => t[k] = s[k]
  BY ExceptSeq
<1>2. s \in Seq(Nat) /\ t \in Seq(Nat) /\ n \in Nat /\ i \in 1..n
  BY <1>1, SeqMonotonic, LenProperties
<1>3. s \in [1..n -> Int] /\ t \in [1..n -> Int]
  <2>1. s \in [1..n -> Nat] /\ t \in [1..n -> Nat]
    BY <1>1, <1>2, LenProperties
  <2>2. QED
    BY <2>1
<1> HIDE DEF t, n
<1>4. PICK f \in [0..n -> Int] : Sums(n, s, f) /\ Total(s) = f[n]
  BY <1>2, TotalSums DEF n
<1>5. PICK g \in [0..n -> Int] : Sums(n, t, g) /\ g[n] = f[n] - s[i] + t[i]
  <2>1. n \in Nat /\ i \in 1..n /\ \A k \in 1..n : k # i => t[k] = s[k]
    BY <1>1, <1>2
  <2>2. QED
    BY <1>3, <1>4, <2>1, SumsExcept
<1>6. Total(t) = g[n]
  BY <1>1, <1>2, <1>5, TotalIs
<1>7. QED
  BY <1>1, <1>4, <1>5, <1>6 DEF t, n

-----------------------------------------------------------------------------
(* The inductive invariant.                                                *)
Held == ConsoleBytes + Total(blocks)
HeldBlocks == ConsoleBlocks + Len(blocks)

(* What the frees rely on at each place, for they compute sizes anew.      *)
Shape ==
  /\ line.length \in Nat
  /\ argv # None => argv = argc
  /\ argv = None => saved = <<>>
  /\ pc \in {"init", "next", "end"} => buf = None /\ argv = None
  /\ pc = "init" => buf_stack = 0
  /\ pc = "parse" => buf \in {None, line.length + 1} /\ (buf = None => argv = None) /\ Len(saved) <= argc
  /\ pc \in {"execute", "release"} => buf = None /\ argv # None
  /\ pc \in {"push", "quit"} => buf = None
  /\ pc = "push" => buf_stack < MaxFiles

Quitting ==
  (quit_flag /\ err_cnt < ErrorLimit) =>
    cmd_list = 0 /\ param_list = 0 /\ buf_stack = 0 /\ pc \in {"release", "next", "end"}

Errors == err_cnt <= lines /\ ((pc \in {"parse", "execute"} \/ (pc = "quit" /\ argv # None)) => err_cnt < lines)

IInv ==
  TypeOK /\ Addressable /\ Balanced /\ Shape /\ Quitting /\ Errors

CountersOK ==
  \A n \in {allocate_cnt, allocate_bytes, free_cnt, free_bytes, peak_bytes,
            last_peak_bytes, current_bytes} : n \in 0..SizeMod - 1

(* What is counted, step by step: a blocks and da bytes more, f blocks and *)
(* df bytes back, of which dn blocks and dz bytes were not there.          *)
Counting(a, f, da, df, dn, dz) ==
  /\ Held' = Held + (da - df) + dz /\ HeldBlocks' = HeldBlocks + a - f + dn
  /\ Held' \in 0..SizeMod - 1 /\ HeldBlocks' \in 0..SizeMod - 1
  /\ allocate_cnt' = (allocate_cnt + a) % SizeMod
  /\ free_cnt' = (free_cnt + f) % SizeMod
  /\ allocate_bytes' = (allocate_bytes + da) % SizeMod
  /\ free_bytes' = (free_bytes + df) % SizeMod
  /\ current_bytes' = (current_bytes + (da - df)) % SizeMod
  /\ nulls' = nulls + dn /\ null_bytes' = null_bytes + dz

Counts ==
  /\ (current_bytes + null_bytes) % SizeMod = Held
  /\ (allocate_bytes - free_bytes) % SizeMod = current_bytes
  /\ (allocate_cnt - free_cnt + nulls) % SizeMod = HeldBlocks
  /\ {allocate_cnt, allocate_bytes, free_cnt, free_bytes, current_bytes} \subseteq 0..SizeMod - 1

LEMMA Counted ==
  ASSUME TypeOK, Balanced, NEW a \in Int, NEW f \in Int, NEW da \in Int, NEW df \in Int,
         NEW dn \in Int, NEW dz \in Int, Counting(a, f, da, df, dn, dz)
  PROVE  Counts'
<1>1. /\ Held' = Held + (da - df) + dz /\ HeldBlocks' = HeldBlocks + a - f + dn
      /\ Held' \in 0..SizeMod - 1 /\ HeldBlocks' \in 0..SizeMod - 1
      /\ allocate_cnt' = (allocate_cnt + a) % SizeMod
      /\ free_cnt' = (free_cnt + f) % SizeMod
      /\ allocate_bytes' = (allocate_bytes + da) % SizeMod
      /\ free_bytes' = (free_bytes + df) % SizeMod
      /\ current_bytes' = (current_bytes + (da - df)) % SizeMod
      /\ nulls' = nulls + dn /\ null_bytes' = null_bytes + dz
  BY Zenon DEF Counting
<1>2. SizeMod \in Nat \ {0}
  BY ReportAssumption
<1>3. /\ allocate_cnt \in Int /\ allocate_bytes \in Int /\ free_cnt \in Int /\ free_bytes \in Int
      /\ current_bytes \in Int /\ nulls \in Int /\ null_bytes \in Int
  BY <1>2 DEF TypeOK
<1>4. /\ (current_bytes + null_bytes) % SizeMod = Held
      /\ (allocate_bytes - free_bytes) % SizeMod = current_bytes
      /\ (allocate_cnt - free_cnt + nulls) % SizeMod = HeldBlocks
  BY Zenon DEF Balanced, Held, HeldBlocks
<1>5. Held \in Int /\ HeldBlocks \in Int /\ da - df \in Int
  <2>1. (current_bytes + null_bytes) % SizeMod \in Int
    BY <1>2, <1>3, ModRange
  <2>2. (allocate_cnt - free_cnt + nulls) % SizeMod \in Int
    BY <1>2, <1>3, ModRange
  <2>3. QED
    BY <1>4, <2>1, <2>2
<1>6. (current_bytes' + null_bytes') % SizeMod = Held'
  <2>1. (((current_bytes + (da - df)) % SizeMod) + (null_bytes + dz)) % SizeMod
          = (Held + (da - df) + dz) % SizeMod
    <3>1. ModSums(SizeMod, da - df, dz, current_bytes, null_bytes, Held)
      BY <1>2, <1>3, <1>5, ModSum, Zenon
    <3>2. QED
      BY <1>4, <3>1, Zenon DEF ModSums
  <2>2. (Held + (da - df) + dz) % SizeMod = Held + (da - df) + dz
    BY <1>1, <1>2, ModSmall, Zenon
  <2>3. QED
    BY <1>1, <2>1, <2>2, Zenon
<1>7. (allocate_bytes' - free_bytes') % SizeMod = current_bytes'
  <2>1. (((allocate_bytes + da) % SizeMod) - ((free_bytes + df) % SizeMod)) % SizeMod
          = (current_bytes + da - df) % SizeMod
    <3>1. ModDifferences(SizeMod, da, df, allocate_bytes, free_bytes, current_bytes)
      BY <1>2, <1>3, ModDifference, Zenon
    <3>2. QED
      BY <1>4, <3>1, Zenon DEF ModDifferences
  <2>2. current_bytes + da - df = current_bytes + (da - df)
    BY <1>3
  <2>3. QED
    BY <1>1, <2>1, <2>2, Zenon
<1>8. (allocate_cnt' - free_cnt' + nulls') % SizeMod = HeldBlocks'
  <2>1. (((allocate_cnt + a) % SizeMod) - ((free_cnt + f) % SizeMod) + (nulls + dn)) % SizeMod
          = (HeldBlocks + a - f + dn) % SizeMod
    <3>1. ModCounts(SizeMod, a, f, dn, allocate_cnt, free_cnt, nulls, HeldBlocks)
      BY <1>2, <1>3, <1>5, ModCount, Zenon
    <3>2. QED
      BY <1>4, <3>1, Zenon DEF ModCounts
  <2>2. (HeldBlocks + a - f + dn) % SizeMod = HeldBlocks + a - f + dn
    BY <1>1, <1>2, ModSmall, Zenon
  <2>3. QED
    BY <1>1, <2>1, <2>2, Zenon
<1>9. {allocate_cnt', allocate_bytes', free_cnt', free_bytes', current_bytes'} \subseteq 0..SizeMod - 1
  BY <1>1, <1>2, <1>3, <1>5, ModRange
<1>10. QED
  BY <1>6, <1>7, <1>8, <1>9, Zenon DEF Counts

LimitStep ==
  (mblimit > 0 /\ null_bytes' = 0 /\ current_bytes' > current_bytes) =>
    (current_bytes' <= mblimit \/ verblevel < 0)

LEMMA HeldNow ==
  ASSUME TypeOK, Addressable, Balanced, Held \in Nat, HeldBlocks \in Nat
  PROVE  /\ SizeMod \in Nat \ {0} /\ Held < SizeMod /\ HeldBlocks < SizeMod
         /\ {allocate_cnt, allocate_bytes, free_cnt, free_bytes, peak_bytes,
             last_peak_bytes, current_bytes} \subseteq 0..SizeMod - 1
         /\ nulls \in Nat /\ null_bytes \in Nat
         /\ (null_bytes = 0 => current_bytes = Held)
         /\ mblimit \in Int /\ verblevel \in Int
<1>1. SizeMod \in Nat \ {0} /\ Held < SizeMod /\ HeldBlocks < SizeMod
  BY ReportAssumption DEF Addressable, Held, HeldBlocks
<1>2. /\ {allocate_cnt, allocate_bytes, free_cnt, free_bytes, peak_bytes,
          last_peak_bytes, current_bytes} \subseteq 0..SizeMod - 1
      /\ nulls \in Nat /\ null_bytes \in Nat
  BY DEF TypeOK
<1>3. ASSUME null_bytes = 0 PROVE current_bytes = Held
  <2>1. current_bytes + null_bytes = current_bytes /\ current_bytes \in 0..SizeMod - 1
    BY <1>1, <1>2, <1>3
  <2>2. current_bytes % SizeMod = Held
    BY <2>1, Zenon DEF Balanced, Held
  <2>3. QED
    BY <1>1, <2>1, <2>2, ModSmall
<1>4. mblimit \in Int /\ verblevel \in Int
  BY <1>1, ReportAssumption DEF TypeOK
<1>5. QED
  BY <1>1, <1>2, <1>3, <1>4

(* A block more.                                                           *)
LEMMA Mallocs ==
  ASSUME TypeOK, Addressable, Balanced, Held \in Nat, HeldBlocks \in Nat, NEW bytes \in Nat,
         malloc_or_fail(bytes), UNCHANGED <<nulls, null_bytes>>,
         Held' = Held + bytes, HeldBlocks' = HeldBlocks + 1, Addressable'
  PROVE  CountersOK' /\ Balanced' /\ LimitStep
<1> DEFINE new == (current_bytes + bytes) % SizeMod
<1>1. /\ allocate_cnt' = (allocate_cnt + 1) % SizeMod
      /\ allocate_bytes' = (allocate_bytes + bytes) % SizeMod /\ current_bytes' = new
      /\ peak_bytes' = Larger(peak_bytes, new) /\ last_peak_bytes' = Larger(last_peak_bytes, new)
      /\ free_cnt' = free_cnt /\ free_bytes' = free_bytes
      /\ ~(check_exceed(bytes) /\ verblevel >= 0)
      /\ nulls' = nulls /\ null_bytes' = null_bytes
  BY DEF malloc_or_fail, CountAllocated
<1>2. /\ SizeMod \in Nat \ {0} /\ Held < SizeMod /\ HeldBlocks < SizeMod
      /\ {allocate_cnt, allocate_bytes, free_cnt, free_bytes, peak_bytes,
          last_peak_bytes, current_bytes} \subseteq 0..SizeMod - 1
      /\ nulls \in Nat /\ null_bytes \in Nat
      /\ (null_bytes = 0 => current_bytes = Held)
      /\ mblimit \in Int /\ verblevel \in Int
  BY HeldNow
<1>3. /\ bytes - 0 = bytes /\ Held + bytes + 0 = Held' /\ HeldBlocks + 1 - 0 + 0 = HeldBlocks'
      /\ nulls + 0 = nulls /\ null_bytes + 0 = null_bytes
      /\ free_cnt + 0 = free_cnt /\ free_bytes + 0 = free_bytes
  BY <1>2
<1>4. free_cnt % SizeMod = free_cnt /\ free_bytes % SizeMod = free_bytes
  BY <1>2, ModSmall
<1>5. Held' \in 0..SizeMod - 1 /\ HeldBlocks' \in 0..SizeMod - 1
  <2>1. Held' < SizeMod /\ HeldBlocks' < SizeMod
    BY DEF Addressable, Held, HeldBlocks
  <2>2. QED
    BY <1>2, <2>1
<1>6. Counts'
  <2>1. Counting(1, 0, bytes, 0, 0, 0)
    BY <1>1, <1>3, <1>4, <1>5 DEF Counting
  <2>2. 0 \in Int /\ 1 \in Int /\ bytes \in Int
    OBVIOUS
  <2>3. QED
    BY <2>1, <2>2, Counted, Zenon
<1>7. new \in 0..SizeMod - 1
  BY <1>2, ModRange
<1> HIDE DEF new
<1>8. CountersOK'
  BY <1>1, <1>2, <1>6, <1>7 DEF Counts, CountersOK, Larger
<1>9. null_bytes' = 0 => current_bytes' <= last_peak_bytes' /\ last_peak_bytes' <= peak_bytes'
  <2>1. null_bytes = 0 => last_peak_bytes <= peak_bytes
    BY DEF Balanced
  <2>2. {peak_bytes, last_peak_bytes, new} \subseteq Int
    BY <1>2, <1>7
  <2>3. /\ current_bytes' = new /\ null_bytes' = null_bytes
        /\ peak_bytes' = IF peak_bytes < new THEN new ELSE peak_bytes
        /\ last_peak_bytes' = IF last_peak_bytes < new THEN new ELSE last_peak_bytes
    BY <1>1 DEF Larger
  <2>4. QED
    BY <2>1, <2>2, <2>3
<1>10. Balanced'
  BY <1>6, <1>9, Zenon DEF Counts, Balanced, Held, HeldBlocks
<1>11. LimitStep
  BY <1>1, <1>2, <1>7 DEF LimitStep, check_exceed, new
<1>12. QED
  BY <1>8, <1>10, <1>11

(* A block given back: one that was there (n = 0), or a null pointer that  *)
(* is counted as a block of its own (n = 1).                               *)
LEMMA Frees ==
  ASSUME TypeOK, Addressable, Balanced, Held \in Nat, HeldBlocks \in Nat, NEW bytes \in Nat,
         NEW n \in {0, 1}, CountFreed(bytes),
         nulls' = nulls + n, null_bytes' = null_bytes + n * bytes,
         Held' = Held - bytes + n * bytes, HeldBlocks' = HeldBlocks - 1 + n,
         Held' \in Nat, HeldBlocks' \in Nat
  PROVE  CountersOK' /\ Balanced' /\ Addressable' /\ LimitStep
<1>1. /\ allocate_cnt' = allocate_cnt /\ allocate_bytes' = allocate_bytes
      /\ peak_bytes' = peak_bytes /\ last_peak_bytes' = last_peak_bytes
      /\ free_cnt' = (free_cnt + 1) % SizeMod
      /\ free_bytes' = (free_bytes + bytes) % SizeMod
      /\ current_bytes' = (current_bytes - bytes) % SizeMod
      /\ nulls' = nulls + n /\ null_bytes' = null_bytes + n * bytes
  BY DEF CountFreed
<1>2. /\ SizeMod \in Nat \ {0} /\ Held < SizeMod /\ HeldBlocks < SizeMod
      /\ {allocate_cnt, allocate_bytes, free_cnt, free_bytes, peak_bytes,
          last_peak_bytes, current_bytes} \subseteq 0..SizeMod - 1
      /\ nulls \in Nat /\ null_bytes \in Nat
      /\ (null_bytes = 0 => current_bytes = Held)
      /\ mblimit \in Int /\ verblevel \in Int
  BY HeldNow
<1>3. /\ n * bytes \in Nat /\ n * bytes <= bytes
      /\ Held' \in 0..SizeMod - 1 /\ HeldBlocks' \in 0..SizeMod - 1 /\ Held' <= Held
  <2>1. n * bytes \in Nat /\ n * bytes <= bytes
    <3>1. CASE n = 0
      BY <3>1
    <3>2. CASE n = 1
      BY <3>2
    <3>3. QED
      BY <3>1, <3>2
  <2> DEFINE z == n * bytes
  <2>2. z \in Nat /\ z <= bytes /\ Held' = Held - bytes + z
    BY <2>1
  <2> HIDE DEF z
  <2>3. Held' <= Held /\ HeldBlocks' <= HeldBlocks
    BY <2>2
  <2>4. QED
    BY <1>2, <2>1, <2>3
<1> DEFINE z == n * bytes
<1>4. Counts'
  <2>1. z \in Nat /\ Held' = Held - bytes + z /\ null_bytes' = null_bytes + z
    BY <1>3
  <2> HIDE DEF z
  <2>2. /\ Held' = Held + (0 - bytes) + z /\ HeldBlocks' = HeldBlocks + 0 - 1 + n
        /\ current_bytes - bytes = current_bytes + (0 - bytes)
        /\ allocate_cnt + 0 = allocate_cnt /\ allocate_bytes + 0 = allocate_bytes
    BY <1>2, <2>1
  <2>3. allocate_cnt % SizeMod = allocate_cnt /\ allocate_bytes % SizeMod = allocate_bytes
    BY <1>2, ModSmall
  <2>4. Counting(0, 1, 0, bytes, n, z)
    BY <1>1, <1>3, <2>1, <2>2, <2>3, Zenon DEF Counting
  <2>5. 0 \in Int /\ 1 \in Int /\ bytes \in Int /\ n \in Int /\ z \in Int
    BY <2>1
  <2>6. QED
    BY <2>4, <2>5, Counted, Zenon
<1>5. CountersOK'
  BY <1>1, <1>2, <1>4 DEF Counts, CountersOK
<1>6. null_bytes' = 0 => current_bytes' = Held' /\ current_bytes' <= current_bytes
  <2>1. SUFFICES ASSUME null_bytes' = 0
                 PROVE  current_bytes' = Held' /\ current_bytes' <= current_bytes
    OBVIOUS
  <2>2. null_bytes = 0
    BY <1>1, <1>2, <1>3, <2>1
  <2>3. current_bytes' \in 0..SizeMod - 1 /\ (current_bytes' + null_bytes') % SizeMod = Held'
    BY <1>4, Zenon DEF Counts
  <2>4. current_bytes' + null_bytes' = current_bytes'
    BY <2>1, <2>3
  <2>5. current_bytes' = Held'
    BY <1>2, <2>3, <2>4, ModSmall
  <2>6. QED
    BY <1>2, <1>3, <2>2, <2>5
<1>7. null_bytes' = 0 => current_bytes' <= last_peak_bytes' /\ last_peak_bytes' <= peak_bytes'
  <2>1. null_bytes' = 0 => null_bytes = 0
    BY <1>1, <1>2, <1>3
  <2>2. null_bytes = 0 => current_bytes <= last_peak_bytes /\ last_peak_bytes <= peak_bytes
    BY DEF Balanced
  <2>3. {current_bytes, current_bytes', last_peak_bytes, peak_bytes} \subseteq Int
    BY <1>2, <1>4 DEF Counts
  <2>4. QED
    BY <1>1, <1>6, <2>1, <2>2, <2>3
<1>8. Balanced'
  BY <1>4, <1>7, Zenon DEF Counts, Balanced, Held, HeldBlocks
<1>9. LimitStep
  <2>1. {current_bytes, current_bytes'} \subseteq Int
    BY <1>2, <1>4 DEF Counts
  <2>2. QED
    BY <1>6, <2>1 DEF LimitStep
<1>10. Addressable'
  <2>1. Held' < SizeMod /\ HeldBlocks' < SizeMod
    BY <1>2, <1>3
  <2>2. QED
    BY <2>1 DEF Addressable, Held, HeldBlocks
<1>11. QED
  BY <1>5, <1>8, <1>9, <1>10

(* A block of another size: one that was there (n = 0), or a null pointer  *)
(* that becomes a block (n = 1).                                           *)
LEMMA Resizes ==
  ASSUME TypeOK, Addressable, Balanced, Held \in Nat, HeldBlocks \in Nat,
         NEW old \in Nat, NEW new \in Nat, NEW n \in {0, 1}, realloc_or_fail(old, new),
         nulls' = nulls + n, null_bytes' = null_bytes,
         Held' = Held + (new - old), HeldBlocks' = HeldBlocks + n,
         Held' \in Nat, HeldBlocks' \in Nat, Addressable'
  PROVE  CountersOK' /\ Balanced' /\ LimitStep
<1> DEFINE now == (current_bytes + (new - old)) % SizeMod
<1>1. /\ allocate_cnt' = (allocate_cnt + 1) % SizeMod
      /\ allocate_bytes' = (allocate_bytes + new) % SizeMod /\ current_bytes' = now
      /\ peak_bytes' = Larger(peak_bytes, now) /\ last_peak_bytes' = Larger(last_peak_bytes, now)
      /\ free_cnt' = (free_cnt + 1) % SizeMod
      /\ free_bytes' = (free_bytes + old) % SizeMod
      /\ new > old => ~(check_exceed(new - old) /\ verblevel >= 0)
      /\ nulls' = nulls + n /\ null_bytes' = null_bytes
  BY DEF realloc_or_fail, CountAllocated
<1>2. /\ SizeMod \in Nat \ {0} /\ Held < SizeMod /\ HeldBlocks < SizeMod
      /\ {allocate_cnt, allocate_bytes, free_cnt, free_bytes, peak_bytes,
          last_peak_bytes, current_bytes} \subseteq 0..SizeMod - 1
      /\ nulls \in Nat /\ null_bytes \in Nat
      /\ (null_bytes = 0 => current_bytes = Held)
      /\ mblimit \in Int /\ verblevel \in Int
  BY HeldNow
<1>3. Held' \in 0..SizeMod - 1 /\ HeldBlocks' \in 0..SizeMod - 1
  <2>1. Held' < SizeMod /\ HeldBlocks' < SizeMod
    BY DEF Addressable, Held, HeldBlocks
  <2>2. QED
    BY <1>2, <2>1
<1>4. Counts'
  <2>1. /\ Held' = Held + (new - old) + 0 /\ HeldBlocks' = HeldBlocks + 1 - 1 + n
        /\ null_bytes + 0 = null_bytes
    BY <1>2
  <2>2. Counting(1, 1, new, old, n, 0)
    BY <1>1, <1>3, <2>1, Zenon DEF Counting
  <2>3. 0 \in Int /\ 1 \in Int /\ new \in Int /\ old \in Int /\ n \in Int
    OBVIOUS
  <2>4. QED
    BY <2>2, <2>3, Counted, Zenon
<1>5. now \in 0..SizeMod - 1
  <2>1. current_bytes + (new - old) \in Int
    BY <1>2
  <2>2. QED
    BY <1>2, <2>1, ModRange, Zenon
<1>6. new > old => (check_exceed(new - old) <=> mblimit > 0 /\ now > mblimit)
  <2>1. (new - old) + current_bytes = current_bytes + (new - old)
    BY <1>2
  <2>2. QED
    BY <2>1, Zenon DEF check_exceed
<1> HIDE DEF now
<1>7. CountersOK'
  BY <1>1, <1>2, <1>4, <1>5 DEF Counts, CountersOK, Larger
<1>8. null_bytes' = 0 => current_bytes' <= last_peak_bytes' /\ last_peak_bytes' <= peak_bytes'
  <2>1. null_bytes = 0 => last_peak_bytes <= peak_bytes
    BY DEF Balanced
  <2>2. {peak_bytes, last_peak_bytes, now} \subseteq Int
    BY <1>2, <1>5
  <2>3. /\ current_bytes' = now /\ null_bytes' = null_bytes
        /\ peak_bytes' = IF peak_bytes < now THEN now ELSE peak_bytes
        /\ last_peak_bytes' = IF last_peak_bytes < now THEN now ELSE last_peak_bytes
    BY <1>1 DEF Larger
  <2>4. QED
    BY <2>1, <2>2, <2>3
<1>9. Balanced'
  BY <1>4, <1>8, Zenon DEF Counts, Balanced, Held, HeldBlocks
<1>10. LimitStep
  <2>1. SUFFICES ASSUME mblimit > 0, null_bytes' = 0, current_bytes' > current_bytes
                 PROVE  current_bytes' <= mblimit \/ verblevel < 0
    BY DEF LimitStep
  <2>2. null_bytes = 0 /\ current_bytes = Held
    BY <1>1, <1>2, <2>1
  <2>3. current_bytes' \in 0..SizeMod - 1 /\ (current_bytes' + null_bytes') % SizeMod = Held'
    BY <1>4, Zenon DEF Counts
  <2>4. current_bytes' + null_bytes' = current_bytes'
    <3>1. current_bytes' \in Int
      BY <1>1, <1>5
    <3>2. \A x \in Int : x + 0 = x
      OBVIOUS
    <3>3. QED
      BY <2>1, <3>1, <3>2, Zenon
  <2>5. current_bytes' = Held'
    BY <1>2, <2>3, <2>4, ModSmall, Zenon
  <2>6. new > old
    BY <1>2, <2>1, <2>2, <2>5
  <2>7. ~(mblimit > 0 /\ now > mblimit /\ verblevel >= 0)
    BY <1>1, <1>6, <2>6
  <2>8. QED
    BY <1>1, <1>2, <1>5, <2>1, <2>7
<1>11. QED
  BY <1>7, <1>9, <1>10

-----------------------------------------------------------------------------
(* What the frees rely on is kept by every step.                           *)
LEMMA ShapeKept ==
  ASSUME TypeOK, Shape, Next
  PROVE  Shape'
<1>1. CASE add_cmd
  BY <1>1, AccountsAssumption DEF add_cmd, Shape, TypeOK, None, console, lists, parsed, other,
     At, Goto, argc
<1>2. CASE add_param
  BY <1>2, AccountsAssumption DEF add_param, Shape, TypeOK, None, console, lists, parsed, other,
     At, Goto, argc
<1>3. CASE GivesUp
  BY <1>3, AccountsAssumption DEF GivesUp, Shape, TypeOK, None, console, lists, parsed, other,
     At, Goto, argc, StopsAt, Refused, report_event, fail_fun
<1>4. CASE run_console
  <2>1. /\ pc = "init" /\ pc' \in {"push", "end"}
        /\ line' = line /\ argv' = argv /\ buf' = buf /\ saved' = saved /\ buf_stack' = buf_stack
    BY <1>4 DEF run_console, At, Goto, console, lists, parsed
  <2>2. MaxFiles > 0
    BY AccountsAssumption
  <2>3. QED
    BY <2>1, <2>2 DEF Shape, argc
<1>5. CASE push_file
  BY <1>5, AccountsAssumption DEF push_file, Shape, TypeOK, None, console, lists, parsed, other,
     At, Goto, argc
<1>6. CASE \E l \in Lines : readline(l)
  <2>1. PICK l \in Lines : readline(l)
    BY <1>6
  <2>2. /\ pc = "next" /\ pc' = "parse" /\ line' = l
        /\ argv' = argv /\ buf' = buf /\ saved' = saved
    BY <2>1 DEF readline, Running, At, Goto, parsed
  <2>3. l.length \in Nat /\ l.words \in Seq(Nat) /\ Len(l.words) \in Nat /\ Len(<<>>) = 0
    BY AccountsAssumption, EmptySeq, LenProperties
  <2>4. saved = <<>> /\ argv = None /\ buf = None
    BY <2>2 DEF Shape
  <2>5. QED
    BY <2>2, <2>3, <2>4 DEF Shape, argc
<1>7. CASE EndOfFile
  BY <1>7, AccountsAssumption DEF EndOfFile, Shape, TypeOK, None, console, lists, parsed, other,
     At, Goto, argc, Running, pop_file
<1>8. CASE Return
  BY <1>8, AccountsAssumption DEF Return, Shape, TypeOK, None, console, lists, parsed, other,
     At, Goto, argc
<1>9. CASE parse_args
  <2>1. /\ pc = "parse" /\ pc' = "parse" /\ line' = line /\ buf_stack' = buf_stack
        /\ (argv = None \/ Len(saved) < argc)
    BY <1>9 DEF parse_args, Parsing, At, console, lists
  <2>2. Len(saved) \in Nat /\ argc \in Nat /\ saved \in Seq(Nat) /\ Len(<<>>) = 0 /\ argc' = argc
    BY <2>1, LenProperties, EmptySeq DEF TypeOK, argc
  <2>3. CASE buf = None
    <3>1. buf' = line.length + 1 /\ argv' = argv /\ saved' = saved
      BY <1>9, <2>3 DEF parse_args, Wanted
    <3>2. QED
      BY <2>1, <2>2, <2>3, <3>1 DEF Shape
  <2>4. CASE buf # None /\ argv = None
    <3>1. buf' = buf /\ argv' = argc /\ saved' = saved
      BY <1>9, <2>4 DEF parse_args
    <3>2. QED
      BY <2>1, <2>2, <2>4, <3>1 DEF Shape, None
  <2>5. CASE buf # None /\ argv # None
    <3>1. buf' = buf /\ argv' = argv /\ saved' = Append(saved, line.words[Len(saved) + 1])
      BY <1>9, <2>5 DEF parse_args
    <3>2. Len(saved') = Len(saved) + 1
      BY <2>2, <3>1
    <3>3. QED
      BY <2>1, <2>2, <2>5, <3>1, <3>2 DEF Shape
  <2>6. QED
    BY <2>3, <2>4, <2>5
<1>10. CASE parse_fails
  BY <1>10, AccountsAssumption DEF parse_fails, Shape, TypeOK, None, console, lists, parsed,
     other, At, Goto, argc, Parsing
<1>11. CASE parsed_args
  BY <1>11, AccountsAssumption DEF parsed_args, Shape, TypeOK, None, console, lists, parsed,
     other, At, Goto, argc
<1>12. CASE interpret_cmd
  BY <1>12, AccountsAssumption DEF interpret_cmd, Shape, TypeOK, None, console, lists, parsed,
     other, At, Goto, argc, argc
<1>13. CASE Nothing
  BY <1>13, AccountsAssumption DEF Nothing, Shape, TypeOK, None, console, lists, parsed, other,
     At, Goto, argc, Executing, Returns
<1>14. CASE Unknown
  BY <1>14, AccountsAssumption DEF Unknown, Shape, TypeOK, None, console, lists, parsed, other,
     At, Goto, argc, Executing, Returns
<1>15. CASE do_option_cmd
  BY <1>15, AccountsAssumption DEF do_option_cmd, Shape, TypeOK, None, console, lists, parsed,
     other, At, Goto, argc, Executing, Returns, set_verblevel
<1>16. CASE do_log_cmd
  BY <1>16, AccountsAssumption DEF do_log_cmd, Shape, TypeOK, None, console, lists, parsed,
     other, At, Goto, argc, Executing, Returns
<1>17. CASE do_source_cmd
  BY <1>17, AccountsAssumption DEF do_source_cmd, Shape, TypeOK, None, console, lists, parsed,
     other, At, Goto, argc, Executing, Returns
<1>18. CASE queue_cmd
  BY <1>18, AccountsAssumption DEF queue_cmd, Shape, TypeOK, None, console, lists, parsed,
     other, At, Goto, argc, Executing, Returns
<1>19. CASE Quits
  BY <1>19, AccountsAssumption DEF Quits, Shape, TypeOK, None, console, lists, parsed, other,
     At, Goto, argc, Executing, Returns
<1>20. CASE do_quit_cmd
  BY <1>20, AccountsAssumption DEF do_quit_cmd, Shape, TypeOK, None, console, lists, parsed,
     other, At, Goto, argc, pop_file
<1>21. CASE \E n \in BlockSizes : Take(n)
  BY <1>21, AccountsAssumption DEF Take, Shape, TypeOK, None, console, lists, parsed, other, At,
     Goto, argc, Calling, Running
<1>22. CASE \E n \in BlockSizes : ResizeNull(n)
  BY <1>22, AccountsAssumption DEF ResizeNull, Shape, TypeOK, None, console, lists, parsed,
     other, At, Goto, argc, Calling, Running
<1>23. CASE \E n \in BlockSizes : GiveBackNull(n)
  BY <1>23, AccountsAssumption DEF GiveBackNull, Shape, TypeOK, None, console, lists, parsed,
     other, At, Goto, argc, Calling, Running
<1>24. CASE \E k \in DOMAIN blocks : GiveBack(k)
  BY <1>24, AccountsAssumption DEF GiveBack, Shape, TypeOK, None, console, lists, parsed, other,
     At, Goto, argc, Calling, Running
<1>25. CASE \E k \in DOMAIN blocks : \E n \in BlockSizes : Resize(k, n)
  BY <1>25, AccountsAssumption DEF Resize, Shape, TypeOK, None, console, lists, parsed, other,
     At, Goto, argc, Calling, Running
<1>26. CASE ForgetPeak
  BY <1>26, AccountsAssumption DEF ForgetPeak, Shape, TypeOK, None, console, lists, parsed,
     other, At, Goto, argc, Calling, Running
<1>27. CASE Ended
  BY <1>27 DEF Ended, vars, console, lists, parsed, Shape, argc
<1>28. CASE Prints
  BY <1>28 DEF Prints, Shape, console, lists, parsed, argc
<1>29. QED
  BY <1>1, <1>2, <1>3, <1>4, <1>5, <1>6, <1>7, <1>8, <1>9, <1>10, <1>11, <1>12, <1>13, <1>14,
     <1>15, <1>16, <1>17, <1>18, <1>19, <1>20, <1>21, <1>22, <1>23, <1>24, <1>25, <1>26, <1>27, <1>28 DEF Next

(* A program does not quit below the limit of its errors but by the        *)
(* command, which has then given back what it has.                         *)
LEMMA ReturnsCounts ==
  ASSUME TypeOK, NEW ok \in BOOLEAN, Returns(ok)
  PROVE  /\ err_cnt \in Nat /\ ErrorLimit \in Nat
         /\ err_cnt' \in {err_cnt, err_cnt + 1}
         /\ (quit_flag' => quit_flag \/ ~(err_cnt' < ErrorLimit))
<1>1. err_cnt \in Nat /\ ErrorLimit \in Nat
  BY AccountsAssumption DEF TypeOK
<1>2. err_cnt' \in {err_cnt, err_cnt + 1}
  BY DEF Returns
<1>3. ASSUME quit_flag', ~quit_flag PROVE ~(err_cnt' < ErrorLimit)
  <2>1. err_cnt' >= ErrorLimit
    BY <1>3, Zenon DEF Returns
  <2>2. err_cnt' \in Int
    BY <1>1, <1>2
  <2>3. QED
    BY <1>1, <2>1, <2>2
<1>4. QED
  BY <1>1, <1>2, <1>3

LEMMA QuittingKept ==
  ASSUME TypeOK, Shape, Quitting, Next
  PROVE  Quitting'
<1>1. CASE add_cmd
  BY <1>1, AccountsAssumption DEF add_cmd, Quitting, TypeOK, console, lists, parsed, other, At,
     Goto
<1>2. CASE add_param
  BY <1>2, AccountsAssumption DEF add_param, Quitting, TypeOK, console, lists, parsed, other,
     At, Goto
<1>3. CASE GivesUp
  BY <1>3, AccountsAssumption DEF GivesUp, Quitting, TypeOK, console, lists, parsed, other, At,
     Goto, StopsAt, Refused, report_event, fail_fun
<1>4. CASE run_console
  BY <1>4, AccountsAssumption DEF run_console, Quitting, TypeOK, console, lists, parsed, other,
     At, Goto, Added, report
<1>5. CASE push_file
  BY <1>5, AccountsAssumption DEF push_file, Quitting, TypeOK, console, lists, parsed, other,
     At, Goto
<1>6. CASE \E l \in Lines : readline(l)
  BY <1>6, AccountsAssumption DEF readline, Quitting, TypeOK, console, lists, parsed, other, At,
     Goto, Running, pop_file
<1>7. CASE EndOfFile
  BY <1>7, AccountsAssumption DEF EndOfFile, Quitting, TypeOK, console, lists, parsed, other,
     At, Goto, Running, pop_file
<1>8. CASE Return
  BY <1>8, AccountsAssumption DEF Return, Quitting, TypeOK, console, lists, parsed, other, At,
     Goto
<1>9. CASE parse_args
  BY <1>9, AccountsAssumption DEF parse_args, Quitting, TypeOK, console, lists, parsed, other,
     At, Goto, Parsing, Wanted
<1>10. CASE parse_fails
  BY <1>10, AccountsAssumption DEF parse_fails, Quitting, TypeOK, console, lists, parsed, other,
     At, Goto, Parsing
<1>11. CASE parsed_args
  BY <1>11, AccountsAssumption DEF parsed_args, Quitting, TypeOK, console, lists, parsed, other,
     At, Goto
<1>12. CASE interpret_cmd
  BY <1>12, AccountsAssumption DEF interpret_cmd, Quitting, TypeOK, console, lists, parsed,
     other, At, Goto, argc
<1>13. CASE Nothing
  <2>1. pc = "execute" /\ \E ok \in BOOLEAN : Returns(ok)
    BY <1>13 DEF Nothing, Executing, At
  <2>2. PICK ok \in BOOLEAN : Returns(ok)
    BY <2>1
  <2>3. /\ err_cnt \in Nat /\ ErrorLimit \in Nat /\ err_cnt' \in {err_cnt, err_cnt + 1}
        /\ (quit_flag' => quit_flag \/ ~(err_cnt' < ErrorLimit))
    BY <2>2, ReturnsCounts
  <2>4. QED
    BY <2>1, <2>3 DEF Quitting
<1>14. CASE Unknown
  <2>1. pc = "execute" /\ \E ok \in BOOLEAN : Returns(ok)
    BY <1>14 DEF Unknown, Executing, At
  <2>2. PICK ok \in BOOLEAN : Returns(ok)
    BY <2>1
  <2>3. /\ err_cnt \in Nat /\ ErrorLimit \in Nat /\ err_cnt' \in {err_cnt, err_cnt + 1}
        /\ (quit_flag' => quit_flag \/ ~(err_cnt' < ErrorLimit))
    BY <2>2, ReturnsCounts
  <2>4. QED
    BY <2>1, <2>3 DEF Quitting
<1>15. CASE do_option_cmd
  <2>1. pc = "execute" /\ \E ok \in BOOLEAN : Returns(ok)
    BY <1>15 DEF do_option_cmd, Executing, At
  <2>2. PICK ok \in BOOLEAN : Returns(ok)
    BY <2>1
  <2>3. /\ err_cnt \in Nat /\ ErrorLimit \in Nat /\ err_cnt' \in {err_cnt, err_cnt + 1}
        /\ (quit_flag' => quit_flag \/ ~(err_cnt' < ErrorLimit))
    BY <2>2, ReturnsCounts
  <2>4. QED
    BY <2>1, <2>3 DEF Quitting
<1>16. CASE do_log_cmd
  <2>1. pc = "execute" /\ \E ok \in BOOLEAN : Returns(ok)
    BY <1>16 DEF do_log_cmd, Executing, At
  <2>2. PICK ok \in BOOLEAN : Returns(ok)
    BY <2>1
  <2>3. /\ err_cnt \in Nat /\ ErrorLimit \in Nat /\ err_cnt' \in {err_cnt, err_cnt + 1}
        /\ (quit_flag' => quit_flag \/ ~(err_cnt' < ErrorLimit))
    BY <2>2, ReturnsCounts
  <2>4. QED
    BY <2>1, <2>3 DEF Quitting
<1>17. CASE do_source_cmd
  <2>1. pc = "execute" /\ \E ok \in BOOLEAN : Returns(ok)
    BY <1>17 DEF do_source_cmd, Executing, At
  <2>2. PICK ok \in BOOLEAN : Returns(ok)
    BY <2>1
  <2>3. /\ err_cnt \in Nat /\ ErrorLimit \in Nat /\ err_cnt' \in {err_cnt, err_cnt + 1}
        /\ (quit_flag' => quit_flag \/ ~(err_cnt' < ErrorLimit))
    BY <2>2, ReturnsCounts
  <2>4. QED
    BY <2>1, <2>3 DEF Quitting
<1>18. CASE queue_cmd
  <2>1. pc = "execute" /\ \E ok \in BOOLEAN : Returns(ok)
    BY <1>18 DEF queue_cmd, Executing, At
  <2>2. PICK ok \in BOOLEAN : Returns(ok)
    BY <2>1
  <2>3. /\ err_cnt \in Nat /\ ErrorLimit \in Nat /\ err_cnt' \in {err_cnt, err_cnt + 1}
        /\ (quit_flag' => quit_flag \/ ~(err_cnt' < ErrorLimit))
    BY <2>2, ReturnsCounts
  <2>4. QED
    BY <2>1, <2>3 DEF Quitting
<1>19. CASE Quits
  BY <1>19 DEF Quits, Quitting, At, Executing
<1>20. CASE do_quit_cmd
  BY <1>20, AccountsAssumption DEF do_quit_cmd, Quitting, TypeOK, console, lists, parsed, other,
     At, Goto, pop_file
<1>21. CASE \E n \in BlockSizes : Take(n)
  BY <1>21, AccountsAssumption DEF Take, Quitting, TypeOK, console, lists, parsed, other, At,
     Goto, Calling, Running
<1>22. CASE \E n \in BlockSizes : ResizeNull(n)
  BY <1>22, AccountsAssumption DEF ResizeNull, Quitting, TypeOK, console, lists, parsed, other,
     At, Goto, Calling, Running
<1>23. CASE \E n \in BlockSizes : GiveBackNull(n)
  BY <1>23, AccountsAssumption DEF GiveBackNull, Quitting, TypeOK, console, lists, parsed,
     other, At, Goto, Calling, Running
<1>24. CASE \E k \in DOMAIN blocks : GiveBack(k)
  BY <1>24, AccountsAssumption DEF GiveBack, Quitting, TypeOK, console, lists, parsed, other,
     At, Goto, Calling, Running
<1>25. CASE \E k \in DOMAIN blocks : \E n \in BlockSizes : Resize(k, n)
  BY <1>25, AccountsAssumption DEF Resize, Quitting, TypeOK, console, lists, parsed, other, At,
     Goto, Calling, Running
<1>26. CASE ForgetPeak
  BY <1>26, AccountsAssumption DEF ForgetPeak, Quitting, TypeOK, console, lists, parsed, other,
     At, Goto, Calling, Running
<1>27. CASE Ended
  BY <1>27 DEF Ended, vars, console, lists, Quitting
<1>28. CASE Prints
  BY <1>28 DEF Prints, Quitting, console, lists
<1>29. QED
  BY <1>1, <1>2, <1>3, <1>4, <1>5, <1>6, <1>7, <1>8, <1>9, <1>10, <1>11, <1>12, <1>13, <1>14,
     <1>15, <1>16, <1>17, <1>18, <1>19, <1>20, <1>21, <1>22, <1>23, <1>24, <1>25, <1>26, <1>27, <1>28 DEF Next

LEMMA ErrorsKept ==
  ASSUME TypeOK, Shape, Errors, Next
  PROVE  Errors'
<1>1. CASE add_cmd
  BY <1>1, AccountsAssumption DEF add_cmd, Errors, TypeOK, console, At, Goto
<1>2. CASE add_param
  BY <1>2, AccountsAssumption DEF add_param, Errors, TypeOK, console, At, Goto
<1>3. CASE GivesUp
  BY <1>3, AccountsAssumption DEF GivesUp, Errors, TypeOK, console, At, Goto, StopsAt, Refused,
     report_event, fail_fun
<1>4. CASE run_console
  BY <1>4, AccountsAssumption DEF run_console, Errors, TypeOK, console, At, Goto, Added, report
<1>5. CASE push_file
  BY <1>5, AccountsAssumption DEF push_file, Errors, TypeOK, console, At, Goto
<1>6. CASE \E l \in Lines : readline(l)
  <2>1. lines' = lines + 1 /\ err_cnt' = err_cnt
    BY <1>6 DEF readline
  <2>2. lines \in Nat /\ err_cnt \in Nat
    BY AccountsAssumption DEF TypeOK
  <2>3. pc' = "parse"
    BY <1>6 DEF readline, Goto
  <2>4. QED
    BY <2>1, <2>2, <2>3 DEF Errors
<1>7. CASE EndOfFile
  BY <1>7, AccountsAssumption DEF EndOfFile, Errors, TypeOK, console, At, Goto, Running,
     pop_file
<1>8. CASE Return
  <2>1. pc = "next" /\ pc' \in {"quit", "end"} /\ UNCHANGED <<err_cnt, lines, argv>>
    BY <1>8 DEF Return, At, Goto, console, parsed
  <2>2. QED
    BY <2>1 DEF Shape, Errors
<1>9. CASE parse_args
  BY <1>9, AccountsAssumption DEF parse_args, Errors, TypeOK, console, At, Goto, Parsing, Wanted
<1>10. CASE parse_fails
  BY <1>10, AccountsAssumption DEF parse_fails, Errors, TypeOK, console, At, Goto, Parsing
<1>11. CASE parsed_args
  BY <1>11, AccountsAssumption DEF parsed_args, Errors, TypeOK, console, At, Goto
<1>12. CASE interpret_cmd
  BY <1>12, AccountsAssumption DEF interpret_cmd, Errors, TypeOK, console, At, Goto, argc
<1>13. CASE Nothing
  <2>1. pc = "execute" /\ \E ok \in BOOLEAN : Returns(ok)
    BY <1>13 DEF Nothing, Executing, At
  <2>2. PICK ok \in BOOLEAN : Returns(ok)
    BY <2>1
  <2>3. /\ err_cnt \in Nat /\ ErrorLimit \in Nat /\ err_cnt' \in {err_cnt, err_cnt + 1}
        /\ (quit_flag' => quit_flag \/ ~(err_cnt' < ErrorLimit))
    BY <2>2, ReturnsCounts
  <2>4. pc' \in {"release", "push"} /\ lines' = lines
    BY <1>13 DEF Nothing, Executing, Goto
  <2>5. lines \in Int
    BY AccountsAssumption DEF TypeOK
  <2>6. QED
    BY <2>1, <2>3, <2>4, <2>5 DEF Errors
<1>14. CASE Unknown
  <2>1. pc = "execute" /\ \E ok \in BOOLEAN : Returns(ok)
    BY <1>14 DEF Unknown, Executing, At
  <2>2. PICK ok \in BOOLEAN : Returns(ok)
    BY <2>1
  <2>3. /\ err_cnt \in Nat /\ ErrorLimit \in Nat /\ err_cnt' \in {err_cnt, err_cnt + 1}
        /\ (quit_flag' => quit_flag \/ ~(err_cnt' < ErrorLimit))
    BY <2>2, ReturnsCounts
  <2>4. pc' \in {"release", "push"} /\ lines' = lines
    BY <1>14 DEF Unknown, Executing, Goto
  <2>5. lines \in Int
    BY AccountsAssumption DEF TypeOK
  <2>6. QED
    BY <2>1, <2>3, <2>4, <2>5 DEF Errors
<1>15. CASE do_option_cmd
  <2>1. pc = "execute" /\ \E ok \in BOOLEAN : Returns(ok)
    BY <1>15 DEF do_option_cmd, Executing, At
  <2>2. PICK ok \in BOOLEAN : Returns(ok)
    BY <2>1
  <2>3. /\ err_cnt \in Nat /\ ErrorLimit \in Nat /\ err_cnt' \in {err_cnt, err_cnt + 1}
        /\ (quit_flag' => quit_flag \/ ~(err_cnt' < ErrorLimit))
    BY <2>2, ReturnsCounts
  <2>4. pc' \in {"release", "push"} /\ lines' = lines
    BY <1>15 DEF do_option_cmd, Executing, Goto
  <2>5. lines \in Int
    BY AccountsAssumption DEF TypeOK
  <2>6. QED
    BY <2>1, <2>3, <2>4, <2>5 DEF Errors
<1>16. CASE do_log_cmd
  <2>1. pc = "execute" /\ \E ok \in BOOLEAN : Returns(ok)
    BY <1>16 DEF do_log_cmd, Executing, At
  <2>2. PICK ok \in BOOLEAN : Returns(ok)
    BY <2>1
  <2>3. /\ err_cnt \in Nat /\ ErrorLimit \in Nat /\ err_cnt' \in {err_cnt, err_cnt + 1}
        /\ (quit_flag' => quit_flag \/ ~(err_cnt' < ErrorLimit))
    BY <2>2, ReturnsCounts
  <2>4. pc' \in {"release", "push"} /\ lines' = lines
    BY <1>16 DEF do_log_cmd, Executing, Goto
  <2>5. lines \in Int
    BY AccountsAssumption DEF TypeOK
  <2>6. QED
    BY <2>1, <2>3, <2>4, <2>5 DEF Errors
<1>17. CASE do_source_cmd
  <2>1. pc = "execute" /\ \E ok \in BOOLEAN : Returns(ok)
    BY <1>17 DEF do_source_cmd, Executing, At
  <2>2. PICK ok \in BOOLEAN : Returns(ok)
    BY <2>1
  <2>3. /\ err_cnt \in Nat /\ ErrorLimit \in Nat /\ err_cnt' \in {err_cnt, err_cnt + 1}
        /\ (quit_flag' => quit_flag \/ ~(err_cnt' < ErrorLimit))
    BY <2>2, ReturnsCounts
  <2>4. pc' \in {"release", "push"} /\ lines' = lines
    BY <1>17 DEF do_source_cmd, Executing, Goto
  <2>5. lines \in Int
    BY AccountsAssumption DEF TypeOK
  <2>6. QED
    BY <2>1, <2>3, <2>4, <2>5 DEF Errors
<1>18. CASE queue_cmd
  <2>1. pc = "execute" /\ \E ok \in BOOLEAN : Returns(ok)
    BY <1>18 DEF queue_cmd, Executing, At
  <2>2. PICK ok \in BOOLEAN : Returns(ok)
    BY <2>1
  <2>3. /\ err_cnt \in Nat /\ ErrorLimit \in Nat /\ err_cnt' \in {err_cnt, err_cnt + 1}
        /\ (quit_flag' => quit_flag \/ ~(err_cnt' < ErrorLimit))
    BY <2>2, ReturnsCounts
  <2>4. pc' \in {"release", "push"} /\ lines' = lines
    BY <1>18 DEF queue_cmd, Executing, Goto
  <2>5. lines \in Int
    BY AccountsAssumption DEF TypeOK
  <2>6. QED
    BY <2>1, <2>3, <2>4, <2>5 DEF Errors
<1>19. CASE Quits
  BY <1>19 DEF Quits, Errors, At, Executing
<1>20. CASE do_quit_cmd
  <2>1. /\ lines' = lines /\ argv' = argv /\ pc = "quit" /\ pc' \in {"quit", "end", "release"}
        /\ \/ err_cnt' = err_cnt
           \/ argv # None /\ err_cnt' = err_cnt + 1 /\ pc' # "quit"
    BY <1>20 DEF do_quit_cmd, At, Goto, parsed
  <2>2. lines \in Int /\ err_cnt \in Int
    BY AccountsAssumption DEF TypeOK
  <2>3. QED
    BY <2>1, <2>2 DEF Errors
<1>21. CASE \E n \in BlockSizes : Take(n)
  BY <1>21, AccountsAssumption DEF Take, Errors, TypeOK, console, At, Goto, Calling, Running
<1>22. CASE \E n \in BlockSizes : ResizeNull(n)
  BY <1>22, AccountsAssumption DEF ResizeNull, Errors, TypeOK, console, At, Goto, Calling,
     Running
<1>23. CASE \E n \in BlockSizes : GiveBackNull(n)
  BY <1>23, AccountsAssumption DEF GiveBackNull, Errors, TypeOK, console, At, Goto, Calling,
     Running
<1>24. CASE \E k \in DOMAIN blocks : GiveBack(k)
  BY <1>24, AccountsAssumption DEF GiveBack, Errors, TypeOK, console, At, Goto, Calling, Running
<1>25. CASE \E k \in DOMAIN blocks : \E n \in BlockSizes : Resize(k, n)
  BY <1>25, AccountsAssumption DEF Resize, Errors, TypeOK, console, At, Goto, Calling, Running
<1>26. CASE ForgetPeak
  BY <1>26, AccountsAssumption DEF ForgetPeak, Errors, TypeOK, console, At, Goto, Calling,
     Running
<1>27. CASE Ended
  BY <1>27 DEF Ended, vars, console, parsed, Errors
<1>28. CASE Prints
  BY <1>28 DEF Prints, Errors, console, parsed
<1>29. QED
  BY <1>1, <1>2, <1>3, <1>4, <1>5, <1>6, <1>7, <1>8, <1>9, <1>10, <1>11, <1>12, <1>13, <1>14,
     <1>15, <1>16, <1>17, <1>18, <1>19, <1>20, <1>21, <1>22, <1>23, <1>24, <1>25, <1>26, <1>27, <1>28 DEF Next

-----------------------------------------------------------------------------
(* Types, but for the counters.                                            *)
LEMMA Sizes ==
  /\ CmdSize \in Nat \ {0} /\ ParamSize \in Nat \ {0} /\ RioSize \in Nat \ {0}
  /\ PtrSize \in Nat \ {0} /\ Commands \in Nat \ {0} /\ Parameters \in Nat \ {0}
  /\ ErrorLimit \in Nat /\ MaxLines \in Nat /\ MaxCalls \in Nat /\ MaxFiles \in Nat \ {0}
  BY AccountsAssumption

ReportTyped ==
  /\ verblevel \in Levels \cup {0} /\ mblimit \in Limits
  /\ streams \in Nat /\ logfile \in 0..streams /\ open \subseteq 1..streams
  /\ status \in {"running", "exited", "undefined"}

ConsoleTyped ==
  /\ pc \in {"init", "push", "next", "parse", "execute", "release", "quit", "end"}
  /\ line.words \in Seq(Nat) /\ lines \in 0..MaxLines
  /\ cmd_list \in 0..Commands /\ param_list \in 0..Parameters /\ buf_stack \in 0..MaxFiles
  /\ buf \in Nat \cup {None} /\ argv \in Nat \cup {None} /\ saved \in Seq(Nat)
  /\ err_cnt \in 0..MaxLines /\ quit_flag \in BOOLEAN

OtherTyped ==
  blocks \in Seq(BlockSizes) /\ calls \in 0..MaxCalls /\ nulls \in Nat /\ null_bytes \in Nat

LEMMA TypeParts ==
  /\ TypeOK <=> ReportTyped /\ CountersOK /\ ConsoleTyped /\ OtherTyped
  /\ TypeOK' <=> ReportTyped' /\ CountersOK' /\ ConsoleTyped' /\ OtherTyped'
  BY Zenon DEF TypeOK, ReportTyped, CountersOK, ConsoleTyped, OtherTyped

(* What becomes of the log and of the settings, however a step reports.    *)
Quiet == UNCHANGED <<verblevel, mblimit, log, status>>

LEMMA ReportQuiet ==
  ASSUME ReportTyped, Quiet
  PROVE  ReportTyped'
  BY DEF ReportTyped, Quiet, log

LEMMA ReportReports ==
  ASSUME ReportTyped, status = "running", UNCHANGED settings,
         \/ \E level \in 1..3 : report(level)
         \/ \E msg \in {"MSG_WARN", "MSG_ERROR", "MSG_FATAL"} : report_event(msg)
         \/ fail_fun
  PROVE  ReportTyped'
<1>1. verblevel' = verblevel /\ mblimit' = mblimit
  BY DEF settings
<1>2. CASE \E level \in 1..3 : report(level)
  BY <1>1, <1>2 DEF report, Dangling, log, ReportTyped
<1>3. CASE \E msg \in {"MSG_WARN", "MSG_ERROR", "MSG_FATAL"} : report_event(msg)
  BY <1>1, <1>3 DEF report_event, log, ReportTyped
<1>4. CASE fail_fun
  BY <1>1, <1>4 DEF fail_fun, Dangling, log, ReportTyped
<1>5. QED
  BY <1>2, <1>3, <1>4

(* With -l and with the command log, another stream or none.               *)
LEMMA LogSet ==
  ASSUME ReportTyped, NEW opens \in BOOLEAN, set_logfile(opens), verblevel' \in Levels \cup {0},
         mblimit' = mblimit, status' = status
  PROVE  ReportTyped'
<1>1. CASE opens
  <2>1. /\ streams' = streams + 1 /\ logfile' = streams + 1 /\ open' = open \cup {streams + 1}
    BY <1>1 DEF set_logfile
  <2>2. streams \in Nat /\ open \subseteq 1..streams
    BY DEF ReportTyped
  <2>3. open' \subseteq 1..streams' /\ streams' \in Nat /\ logfile' \in 0..streams'
    BY <2>1, <2>2
  <2>4. QED
    BY <2>1, <2>3 DEF ReportTyped
<1>2. CASE ~opens
  <2>1. streams' = streams /\ logfile' = 0 /\ open' = open
    BY <1>2 DEF set_logfile
  <2>2. 0 \in 0..streams' /\ streams \in Nat
    BY <2>1 DEF ReportTyped
  <2>3. QED
    BY <2>1, <2>2 DEF ReportTyped
<1>3. QED
  BY <1>1, <1>2

LEMMA ReportKept ==
  ASSUME ReportTyped, Next
  PROVE  ReportTyped'
<1>1. CASE add_cmd
  <2>1. Quiet
    BY <1>1 DEF add_cmd, malloc_or_fail, Quiet, log, settings
  <2>2. QED
    BY <2>1, ReportQuiet
<1>2. CASE add_param
  <2>1. Quiet
    BY <1>2 DEF add_param, malloc_or_fail, Quiet, log, settings
  <2>2. QED
    BY <2>1, ReportQuiet
<1>3. CASE GivesUp
  <2>1. /\ status = "running" /\ UNCHANGED settings
        /\ \/ \E level \in 1..3 : report(level)
           \/ \E msg \in {"MSG_WARN", "MSG_ERROR", "MSG_FATAL"} : report_event(msg)
           \/ fail_fun
    BY <1>3 DEF GivesUp, StopsAt, At, Refused
  <2>2. QED
    BY <2>1, ReportReports
<1>4. CASE run_console
  <2>1. /\ mblimit' = mblimit /\ status' = status /\ verblevel' \in Levels
        /\ UNCHANGED log \/ \E opens \in BOOLEAN : set_logfile(opens)
    BY <1>4 DEF run_console, set_verblevel
  <2>2. CASE UNCHANGED log
    BY <2>1, <2>2 DEF ReportTyped, log
  <2>3. CASE \E opens \in BOOLEAN : set_logfile(opens)
    BY <2>1, <2>3, LogSet
  <2>4. QED
    BY <2>1, <2>2, <2>3
<1>5. CASE push_file
  <2>1. Quiet
    BY <1>5 DEF push_file, malloc_or_fail, Quiet, log, settings
  <2>2. QED
    BY <2>1, ReportQuiet
<1>6. CASE \E l \in Lines : readline(l)
  <2>1. \/ Quiet
        \/ /\ status = "running" /\ UNCHANGED settings
           /\ \/ \E level \in 1..3 : report(level)
              \/ \E msg \in {"MSG_WARN", "MSG_ERROR", "MSG_FATAL"} : report_event(msg)
              \/ fail_fun
    <3>1. status = "running" /\ UNCHANGED settings /\ (UNCHANGED <<log, status>> \/ report(1))
      BY <1>6 DEF readline, Running, At
    <3>2. 1 \in 1..3
      OBVIOUS
    <3>3. QED
      BY <3>1, <3>2 DEF Quiet, settings
  <2>2. QED
    BY <2>1, ReportQuiet, ReportReports
<1>7. CASE EndOfFile
  <2>1. Quiet
    BY <1>7 DEF EndOfFile, pop_file, Quiet, log, settings
  <2>2. QED
    BY <2>1, ReportQuiet
<1>8. CASE Return
  <2>1. Quiet
    BY <1>8 DEF Return, reportVars, Quiet, log, settings
  <2>2. QED
    BY <2>1, ReportQuiet
<1>9. CASE parse_args
  <2>1. Quiet
    BY <1>9 DEF parse_args, malloc_or_fail, strsave_or_fail, Quiet, log, settings
  <2>2. QED
    BY <2>1, ReportQuiet
<1>10. CASE parse_fails
  <2>1. /\ status = "running" /\ UNCHANGED settings
        /\ \/ \E level \in 1..3 : report(level)
           \/ \E msg \in {"MSG_WARN", "MSG_ERROR", "MSG_FATAL"} : report_event(msg)
           \/ fail_fun
    BY <1>10 DEF parse_fails, Parsing, At, Refused
  <2>2. QED
    BY <2>1, ReportReports
<1>11. CASE parsed_args
  <2>1. Quiet
    BY <1>11 DEF parsed_args, free_block, Quiet, log, settings
  <2>2. QED
    BY <2>1, ReportQuiet
<1>12. CASE interpret_cmd
  <2>1. Quiet
    BY <1>12 DEF interpret_cmd, free_block, free_string, Quiet, log, settings
  <2>2. QED
    BY <2>1, ReportQuiet
<1>13. CASE Nothing
  <2>1. Quiet
    BY <1>13 DEF Nothing, Executing, Quiet, log, settings
  <2>2. QED
    BY <2>1, ReportQuiet
<1>14. CASE Unknown
  <2>1. /\ status = "running" /\ UNCHANGED settings
        /\ \/ \E level \in 1..3 : report(level)
           \/ \E msg \in {"MSG_WARN", "MSG_ERROR", "MSG_FATAL"} : report_event(msg)
           \/ fail_fun
    BY <1>14 DEF Unknown, Executing, At, settings
  <2>2. QED
    BY <2>1, ReportReports
<1>15. CASE do_option_cmd
  <2>1. /\ mblimit' = mblimit /\ verblevel' \in Levels
        /\ logfile' = logfile /\ streams' = streams /\ open' = open /\ status' = status
    BY <1>15 DEF do_option_cmd, Executing, set_verblevel, log
  <2>2. QED
    BY <2>1 DEF ReportTyped
<1>16. CASE do_log_cmd
  <2>1. /\ mblimit' = mblimit /\ verblevel' = verblevel /\ status' = status
        /\ \E opens \in BOOLEAN : set_logfile(opens)
    BY <1>16 DEF do_log_cmd, Executing
  <2>2. verblevel' \in Levels \cup {0}
    BY <2>1 DEF ReportTyped
  <2>3. QED
    BY <2>1, <2>2, LogSet
<1>17. CASE do_source_cmd
  <2>1. status = "running" /\ UNCHANGED settings /\ (UNCHANGED <<log, status>> \/ report(1))
    BY <1>17 DEF do_source_cmd, Executing, At, settings
  <2>2. CASE UNCHANGED <<log, status>>
    BY <2>1, <2>2, ReportQuiet DEF Quiet, settings
  <2>3. CASE report(1)
    <3>1. 1 \in 1..3
      OBVIOUS
    <3>2. QED
      BY <2>1, <2>3, <3>1, ReportReports
  <2>4. QED
    BY <2>1, <2>2, <2>3
<1>18. CASE queue_cmd
  <2>1. \/ Quiet
        \/ /\ status = "running" /\ UNCHANGED settings
           /\ \/ \E level \in 1..3 : report(level)
              \/ \E msg \in {"MSG_WARN", "MSG_ERROR", "MSG_FATAL"} : report_event(msg)
              \/ fail_fun
    <3>1. status = "running" /\ UNCHANGED settings /\ (UNCHANGED <<log, status>> \/ report(1))
      BY <1>18 DEF queue_cmd, Executing, At, settings, Limited
    <3>2. 1 \in 1..3
      OBVIOUS
    <3>3. QED
      BY <3>1, <3>2 DEF Quiet, settings
  <2>2. QED
    BY <2>1, ReportQuiet, ReportReports
<1>19. CASE Quits
  <2>1. Quiet
    BY <1>19 DEF Quits, Executing, Quiet, log, settings
  <2>2. QED
    BY <2>1, ReportQuiet
<1>20. CASE do_quit_cmd
  <2>1. \/ Quiet
        \/ /\ status = "running" /\ UNCHANGED settings
           /\ \/ \E level \in 1..3 : report(level)
              \/ \E msg \in {"MSG_WARN", "MSG_ERROR", "MSG_FATAL"} : report_event(msg)
              \/ fail_fun
    <3>1. status = "running" /\ UNCHANGED settings /\ (UNCHANGED <<log, status>> \/ report(1))
      BY <1>20 DEF do_quit_cmd, At, free_block, Limited
    <3>2. 1 \in 1..3
      OBVIOUS
    <3>3. QED
      BY <3>1, <3>2 DEF Quiet, settings
  <2>2. QED
    BY <2>1, ReportQuiet, ReportReports
<1>21. CASE \E n \in BlockSizes : Take(n)
  <2>1. \/ Quiet
        \/ /\ status = "running" /\ UNCHANGED settings
           /\ \/ \E level \in 1..3 : report(level)
              \/ \E msg \in {"MSG_WARN", "MSG_ERROR", "MSG_FATAL"} : report_event(msg)
              \/ fail_fun
    BY <1>21 DEF Take, Calling, Running, At, malloc_or_fail, Refused, Quiet, log, settings
  <2>2. QED
    BY <2>1, ReportQuiet, ReportReports
<1>22. CASE \E n \in BlockSizes : ResizeNull(n)
  <2>1. Quiet
    BY <1>22 DEF ResizeNull, Calling, realloc_or_fail, Quiet, log, settings
  <2>2. QED
    BY <2>1, ReportQuiet
<1>23. CASE \E n \in BlockSizes : GiveBackNull(n)
  <2>1. /\ status = "running" /\ UNCHANGED settings
        /\ \/ \E level \in 1..3 : report(level)
           \/ \E msg \in {"MSG_WARN", "MSG_ERROR", "MSG_FATAL"} : report_event(msg)
           \/ fail_fun
    BY <1>23 DEF GiveBackNull, Calling, Running, At, free_null
  <2>2. QED
    BY <2>1, ReportReports
<1>24. CASE \E k \in DOMAIN blocks : GiveBack(k)
  <2>1. Quiet
    BY <1>24 DEF GiveBack, Calling, free_block, Quiet, log, settings
  <2>2. QED
    BY <2>1, ReportQuiet
<1>25. CASE \E k \in DOMAIN blocks : \E n \in BlockSizes : Resize(k, n)
  <2>1. \/ Quiet
        \/ /\ status = "running" /\ UNCHANGED settings
           /\ \/ \E level \in 1..3 : report(level)
              \/ \E msg \in {"MSG_WARN", "MSG_ERROR", "MSG_FATAL"} : report_event(msg)
              \/ fail_fun
    BY <1>25 DEF Resize, Calling, Running, At, realloc_or_fail, Refused, Quiet, log, settings
  <2>2. QED
    BY <2>1, ReportQuiet, ReportReports
<1>26. CASE ForgetPeak
  <2>1. Quiet
    BY <1>26 DEF ForgetPeak, Calling, reset_peak_bytes, Quiet, log, settings
  <2>2. QED
    BY <2>1, ReportQuiet
<1>27. CASE Ended
  <2>1. Quiet
    BY <1>27 DEF Ended, vars, reportVars, Quiet, log, settings
  <2>2. QED
    BY <2>1, ReportQuiet
<1>28. CASE Prints
  <2>1. /\ status = "running" /\ UNCHANGED settings
        /\ \/ \E level \in 1..3 : report(level)
           \/ \E msg \in {"MSG_WARN", "MSG_ERROR", "MSG_FATAL"} : report_event(msg)
           \/ fail_fun
    BY <1>28 DEF Prints, At
  <2>2. QED
    BY <2>1, ReportReports
<1>29. QED
  BY <1>1, <1>2, <1>3, <1>4, <1>5, <1>6, <1>7, <1>8, <1>9, <1>10, <1>11, <1>12, <1>13, <1>14,
     <1>15, <1>16, <1>17, <1>18, <1>19, <1>20, <1>21, <1>22, <1>23, <1>24, <1>25, <1>26, <1>27, <1>28 DEF Next

LEMMA ConsoleTypedKept ==
  ASSUME TypeOK, Shape, Errors, Errors', ConsoleTyped, Next
  PROVE  ConsoleTyped'
<1>1. CASE add_cmd
  <2>1. /\ cmd_list < Commands /\ cmd_list' = cmd_list + 1
        /\ UNCHANGED <<pc, line, lines, err_cnt, quit_flag, param_list, buf_stack, buf, argv, saved>>
    BY <1>1 DEF add_cmd, console, parsed
  <2>2. cmd_list' \in 0..Commands
    BY <2>1, Sizes DEF ConsoleTyped
  <2>3. QED
    BY <2>1, <2>2 DEF ConsoleTyped
<1>2. CASE add_param
  <2>1. /\ param_list < Parameters /\ param_list' = param_list + 1
        /\ UNCHANGED <<pc, line, lines, err_cnt, quit_flag, cmd_list, buf_stack, buf, argv, saved>>
    BY <1>2 DEF add_param, console, parsed
  <2>2. param_list' \in 0..Parameters
    BY <2>1, Sizes DEF ConsoleTyped
  <2>3. QED
    BY <2>1, <2>2 DEF ConsoleTyped
<1>3. CASE GivesUp
  BY <1>3, AccountsAssumption DEF GivesUp, ConsoleTyped, console, lists, parsed, At, Goto, None,
     StopsAt, Refused, report_event, fail_fun
<1>4. CASE run_console
  BY <1>4, AccountsAssumption DEF run_console, ConsoleTyped, console, lists, parsed, At, Goto,
     None, Added, report
<1>5. CASE push_file
  <2>1. /\ pc = "push" /\ pc' \in {"next", "release"} /\ buf_stack' = buf_stack + 1
        /\ cmd_list' = cmd_list /\ param_list' = param_list
        /\ UNCHANGED <<line, lines, err_cnt, quit_flag, buf, argv, saved>>
    BY <1>5 DEF push_file, At, Goto, console, parsed
  <2>2. buf_stack' \in 0..MaxFiles
    BY <2>1, AccountsAssumption DEF Shape, ConsoleTyped
  <2>3. QED
    BY <2>1, <2>2 DEF ConsoleTyped
<1>6. CASE \E l \in Lines : readline(l)
  <2>1. PICK l \in Lines : readline(l)
    BY <1>6
  <2>2. /\ pc' = "parse" /\ line' = l /\ lines' = lines + 1 /\ lines < MaxLines
        /\ UNCHANGED <<cmd_list, param_list, err_cnt, quit_flag, buf, argv, saved>>
        /\ buf_stack > 0 /\ buf_stack' \in {buf_stack, buf_stack - 1}
    BY <2>1 DEF readline, Running, pop_file, Goto, parsed
  <2>3. lines \in 0..MaxLines /\ buf_stack \in 0..MaxFiles
    BY DEF ConsoleTyped
  <2>4. lines' \in 0..MaxLines /\ buf_stack' \in 0..MaxFiles
    BY <2>2, <2>3, Sizes
  <2>5. l.words \in Seq(Nat)
    BY AccountsAssumption
  <2>6. QED
    BY <2>2, <2>4, <2>5 DEF ConsoleTyped
<1>7. CASE EndOfFile
  BY <1>7, AccountsAssumption DEF EndOfFile, ConsoleTyped, console, lists, parsed, At, Goto,
     None, Running, pop_file
<1>8. CASE Return
  BY <1>8, AccountsAssumption DEF Return, ConsoleTyped, console, lists, parsed, At, Goto, None
<1>9. CASE parse_args
  <2>1. /\ pc = "parse" /\ pc' = "parse" /\ UNCHANGED <<line, lines, err_cnt, quit_flag>>
        /\ UNCHANGED <<cmd_list, param_list, buf_stack>>
        /\ (argv = None \/ Len(saved) < argc)
    BY <1>9 DEF parse_args, Parsing, At, console, lists
  <2>2. /\ Len(saved) \in Nat /\ argc \in Nat /\ saved \in Seq(Nat)
        /\ \A k \in 1..argc : line.words[k] \in Nat
    BY LenProperties, ElementOfSeq DEF ConsoleTyped, argc
  <2>3. CASE buf = None
    <3>1. buf' = line.length + 1 /\ argv' = argv /\ saved' = saved
      BY <1>9, <2>3 DEF parse_args, Wanted
    <3>2. buf' \in Nat
      BY <3>1 DEF Shape
    <3>3. QED
      BY <2>1, <3>1, <3>2 DEF ConsoleTyped
  <2>4. CASE buf # None /\ argv = None
    <3>1. buf' = buf /\ argv' = argc /\ saved' = saved
      BY <1>9, <2>4 DEF parse_args
    <3>2. QED
      BY <2>1, <2>2, <3>1 DEF ConsoleTyped
  <2>5. CASE buf # None /\ argv # None
    <3>1. buf' = buf /\ argv' = argv /\ saved' = Append(saved, line.words[Len(saved) + 1])
      BY <1>9, <2>5 DEF parse_args
    <3>2. Len(saved) + 1 \in 1..argc
      BY <2>1, <2>2, <2>5
    <3>3. saved' \in Seq(Nat)
      BY <2>2, <3>1, <3>2, AppendProperties
    <3>4. QED
      BY <2>1, <3>1, <3>3 DEF ConsoleTyped
  <2>6. QED
    BY <2>3, <2>4, <2>5
<1>10. CASE parse_fails
  BY <1>10, AccountsAssumption DEF parse_fails, ConsoleTyped, console, lists, parsed, At, Goto,
     None, Parsing
<1>11. CASE parsed_args
  BY <1>11, AccountsAssumption DEF parsed_args, ConsoleTyped, console, lists, parsed, At, Goto,
     None
<1>12. CASE interpret_cmd
  <2>1. /\ UNCHANGED <<line, lines, err_cnt, quit_flag>>
        /\ UNCHANGED <<cmd_list, param_list, buf_stack, buf>>
        /\ pc' \in {"release", "next"}
        /\ argv' \in {argv, None}
        /\ saved' = saved \/ (saved # <<>> /\ saved' = Tail(saved))
    BY <1>12 DEF interpret_cmd, At, Goto, console, lists
  <2>2. saved' \in Seq(Nat)
    BY <2>1, TotalTail DEF ConsoleTyped
  <2>3. QED
    BY <2>1, <2>2 DEF ConsoleTyped
<1>13. CASE Nothing
  <2>1. /\ UNCHANGED <<line, lines, cmd_list, param_list, buf_stack, buf, argv, saved>>
        /\ pc' \in {"release", "push", "quit"} /\ \E ok \in BOOLEAN : Returns(ok)
    BY <1>13 DEF Nothing, Executing, Goto, lists, parsed
  <2>2. PICK ok \in BOOLEAN : Returns(ok)
    BY <2>1
  <2>3. /\ err_cnt \in Nat /\ err_cnt' \in {err_cnt, err_cnt + 1}
    BY <2>2, ReturnsCounts
  <2>4. quit_flag' \in BOOLEAN
    BY <2>2, Zenon DEF Returns, ConsoleTyped
  <2>5. err_cnt' \in 0..MaxLines
    BY <2>1, <2>3, AccountsAssumption DEF Errors, ConsoleTyped
  <2>6. QED
    BY <2>1, <2>4, <2>5 DEF ConsoleTyped
<1>14. CASE Unknown
  <2>1. /\ UNCHANGED <<line, lines, cmd_list, param_list, buf_stack, buf, argv, saved>>
        /\ pc' \in {"release", "push", "quit"} /\ \E ok \in BOOLEAN : Returns(ok)
    BY <1>14 DEF Unknown, Executing, Goto, lists, parsed
  <2>2. PICK ok \in BOOLEAN : Returns(ok)
    BY <2>1
  <2>3. /\ err_cnt \in Nat /\ err_cnt' \in {err_cnt, err_cnt + 1}
    BY <2>2, ReturnsCounts
  <2>4. quit_flag' \in BOOLEAN
    BY <2>2, Zenon DEF Returns, ConsoleTyped
  <2>5. err_cnt' \in 0..MaxLines
    BY <2>1, <2>3, AccountsAssumption DEF Errors, ConsoleTyped
  <2>6. QED
    BY <2>1, <2>4, <2>5 DEF ConsoleTyped
<1>15. CASE do_option_cmd
  <2>1. /\ UNCHANGED <<line, lines, cmd_list, param_list, buf_stack, buf, argv, saved>>
        /\ pc' \in {"release", "push", "quit"} /\ \E ok \in BOOLEAN : Returns(ok)
    BY <1>15 DEF do_option_cmd, Executing, Goto, lists, parsed
  <2>2. PICK ok \in BOOLEAN : Returns(ok)
    BY <2>1
  <2>3. /\ err_cnt \in Nat /\ err_cnt' \in {err_cnt, err_cnt + 1}
    BY <2>2, ReturnsCounts
  <2>4. quit_flag' \in BOOLEAN
    BY <2>2, Zenon DEF Returns, ConsoleTyped
  <2>5. err_cnt' \in 0..MaxLines
    BY <2>1, <2>3, AccountsAssumption DEF Errors, ConsoleTyped
  <2>6. QED
    BY <2>1, <2>4, <2>5 DEF ConsoleTyped
<1>16. CASE do_log_cmd
  <2>1. /\ UNCHANGED <<line, lines, cmd_list, param_list, buf_stack, buf, argv, saved>>
        /\ pc' \in {"release", "push", "quit"} /\ \E ok \in BOOLEAN : Returns(ok)
    BY <1>16 DEF do_log_cmd, Executing, Goto, lists, parsed
  <2>2. PICK ok \in BOOLEAN : Returns(ok)
    BY <2>1
  <2>3. /\ err_cnt \in Nat /\ err_cnt' \in {err_cnt, err_cnt + 1}
    BY <2>2, ReturnsCounts
  <2>4. quit_flag' \in BOOLEAN
    BY <2>2, Zenon DEF Returns, ConsoleTyped
  <2>5. err_cnt' \in 0..MaxLines
    BY <2>1, <2>3, AccountsAssumption DEF Errors, ConsoleTyped
  <2>6. QED
    BY <2>1, <2>4, <2>5 DEF ConsoleTyped
<1>17. CASE do_source_cmd
  <2>1. /\ UNCHANGED <<line, lines, cmd_list, param_list, buf_stack, buf, argv, saved>>
        /\ pc' \in {"release", "push", "quit"} /\ \E ok \in BOOLEAN : Returns(ok)
    BY <1>17 DEF do_source_cmd, Executing, Goto, lists, parsed
  <2>2. PICK ok \in BOOLEAN : Returns(ok)
    BY <2>1
  <2>3. /\ err_cnt \in Nat /\ err_cnt' \in {err_cnt, err_cnt + 1}
    BY <2>2, ReturnsCounts
  <2>4. quit_flag' \in BOOLEAN
    BY <2>2, Zenon DEF Returns, ConsoleTyped
  <2>5. err_cnt' \in 0..MaxLines
    BY <2>1, <2>3, AccountsAssumption DEF Errors, ConsoleTyped
  <2>6. QED
    BY <2>1, <2>4, <2>5 DEF ConsoleTyped
<1>18. CASE queue_cmd
  <2>1. /\ UNCHANGED <<line, lines, cmd_list, param_list, buf_stack, buf, argv, saved>>
        /\ pc' \in {"release", "push", "quit"} /\ \E ok \in BOOLEAN : Returns(ok)
    BY <1>18 DEF queue_cmd, Executing, Goto, lists, parsed
  <2>2. PICK ok \in BOOLEAN : Returns(ok)
    BY <2>1
  <2>3. /\ err_cnt \in Nat /\ err_cnt' \in {err_cnt, err_cnt + 1}
    BY <2>2, ReturnsCounts
  <2>4. quit_flag' \in BOOLEAN
    BY <2>2, Zenon DEF Returns, ConsoleTyped
  <2>5. err_cnt' \in 0..MaxLines
    BY <2>1, <2>3, AccountsAssumption DEF Errors, ConsoleTyped
  <2>6. QED
    BY <2>1, <2>4, <2>5 DEF ConsoleTyped
<1>19. CASE Quits
  BY <1>19 DEF Quits, ConsoleTyped, Executing, Goto, lists, parsed
<1>20. CASE do_quit_cmd
  <2>1. /\ UNCHANGED <<line, lines, buf, argv, saved>>
        /\ pc' \in {"quit", "end", "release"} /\ quit_flag' \in BOOLEAN
        /\ err_cnt' \in {err_cnt, err_cnt + 1}
        /\ \/ cmd_list' = cmd_list
           \/ cmd_list > 0 /\ cmd_list' = cmd_list - 1
        /\ \/ param_list' = param_list
           \/ param_list > 0 /\ param_list' = param_list - 1
        /\ \/ buf_stack' = buf_stack
           \/ buf_stack > 0 /\ buf_stack' = buf_stack - 1
    BY <1>20 DEF do_quit_cmd, ConsoleTyped, pop_file, At, Goto, lists, parsed
  <2>2. cmd_list' \in 0..Commands /\ param_list' \in 0..Parameters /\ buf_stack' \in 0..MaxFiles
    <3>1. cmd_list \in 0..Commands /\ param_list \in 0..Parameters /\ buf_stack \in 0..MaxFiles
      BY DEF ConsoleTyped
    <3>2. cmd_list' \in 0..Commands
      BY <2>1, <3>1, Sizes
    <3>3. param_list' \in 0..Parameters
      BY <2>1, <3>1, Sizes
    <3>4. buf_stack' \in 0..MaxFiles
      BY <2>1, <3>1, Sizes
    <3>5. QED
      BY <3>2, <3>3, <3>4
  <2>3. err_cnt' \in 0..MaxLines
    <3>1. err_cnt' <= lines' /\ lines' \in 0..MaxLines /\ err_cnt \in 0..MaxLines
      BY <2>1 DEF Errors, ConsoleTyped
    <3>2. QED
      BY <2>1, <3>1, Sizes
  <2>4. QED
    BY <2>1, <2>2, <2>3 DEF ConsoleTyped
<1>21. CASE \E n \in BlockSizes : Take(n)
  BY <1>21, AccountsAssumption DEF Take, ConsoleTyped, console, lists, parsed, At, Goto, None,
     Calling, Running
<1>22. CASE \E n \in BlockSizes : ResizeNull(n)
  BY <1>22, AccountsAssumption DEF ResizeNull, ConsoleTyped, console, lists, parsed, At, Goto,
     None, Calling, Running
<1>23. CASE \E n \in BlockSizes : GiveBackNull(n)
  BY <1>23, AccountsAssumption DEF GiveBackNull, ConsoleTyped, console, lists, parsed, At, Goto,
     None, Calling, Running
<1>24. CASE \E k \in DOMAIN blocks : GiveBack(k)
  BY <1>24, AccountsAssumption DEF GiveBack, ConsoleTyped, console, lists, parsed, At, Goto,
     None, Calling, Running
<1>25. CASE \E k \in DOMAIN blocks : \E n \in BlockSizes : Resize(k, n)
  BY <1>25, AccountsAssumption DEF Resize, ConsoleTyped, console, lists, parsed, At, Goto, None,
     Calling, Running
<1>26. CASE ForgetPeak
  BY <1>26, AccountsAssumption DEF ForgetPeak, ConsoleTyped, console, lists, parsed, At, Goto,
     None, Calling, Running
<1>27. CASE Ended
  BY <1>27 DEF Ended, vars, console, lists, parsed, ConsoleTyped
<1>28. CASE Prints
  BY <1>28 DEF Prints, ConsoleTyped, console, lists, parsed
<1>29. QED
  BY <1>1, <1>2, <1>3, <1>4, <1>5, <1>6, <1>7, <1>8, <1>9, <1>10, <1>11, <1>12, <1>13, <1>14,
     <1>15, <1>16, <1>17, <1>18, <1>19, <1>20, <1>21, <1>22, <1>23, <1>24, <1>25, <1>26, <1>27, <1>28 DEF Next

LEMMA OtherTypedKept ==
  ASSUME OtherTyped, Next
  PROVE  OtherTyped'
<1>1. CASE add_cmd
  BY <1>1, AccountsAssumption DEF add_cmd, OtherTyped, other
<1>2. CASE add_param
  BY <1>2, AccountsAssumption DEF add_param, OtherTyped, other
<1>3. CASE GivesUp
  BY <1>3, AccountsAssumption DEF GivesUp, OtherTyped, other, StopsAt, Refused, report_event,
     fail_fun
<1>4. CASE run_console
  BY <1>4, AccountsAssumption DEF run_console, OtherTyped, other, Added, report
<1>5. CASE push_file
  BY <1>5, AccountsAssumption DEF push_file, OtherTyped, other
<1>6. CASE \E l \in Lines : readline(l)
  BY <1>6, AccountsAssumption DEF readline, OtherTyped, other, Running, pop_file
<1>7. CASE EndOfFile
  BY <1>7, AccountsAssumption DEF EndOfFile, OtherTyped, other, Running, pop_file
<1>8. CASE Return
  BY <1>8, AccountsAssumption DEF Return, OtherTyped, other
<1>9. CASE parse_args
  BY <1>9, AccountsAssumption DEF parse_args, OtherTyped, other, Parsing, Wanted
<1>10. CASE parse_fails
  BY <1>10, AccountsAssumption DEF parse_fails, OtherTyped, other, Parsing
<1>11. CASE parsed_args
  BY <1>11, AccountsAssumption DEF parsed_args, OtherTyped, other
<1>12. CASE interpret_cmd
  BY <1>12, AccountsAssumption DEF interpret_cmd, OtherTyped, other, argc
<1>13. CASE Nothing
  BY <1>13, AccountsAssumption DEF Nothing, OtherTyped, other, Executing, Returns
<1>14. CASE Unknown
  BY <1>14, AccountsAssumption DEF Unknown, OtherTyped, other, Executing, Returns
<1>15. CASE do_option_cmd
  BY <1>15, AccountsAssumption DEF do_option_cmd, OtherTyped, other, Executing, Returns,
     set_verblevel
<1>16. CASE do_log_cmd
  BY <1>16, AccountsAssumption DEF do_log_cmd, OtherTyped, other, Executing, Returns
<1>17. CASE do_source_cmd
  BY <1>17, AccountsAssumption DEF do_source_cmd, OtherTyped, other, Executing, Returns
<1>18. CASE queue_cmd
  BY <1>18, AccountsAssumption DEF queue_cmd, OtherTyped, other, Executing, Returns
<1>19. CASE Quits
  BY <1>19, AccountsAssumption DEF Quits, OtherTyped, other, Executing, Returns
<1>20. CASE do_quit_cmd
  BY <1>20, AccountsAssumption DEF do_quit_cmd, OtherTyped, other, pop_file
<1>21. CASE \E n \in BlockSizes : Take(n)
  <2>1. PICK n \in BlockSizes : Take(n)
    BY <1>21
  <2>2. Append(blocks, n) \in Seq(BlockSizes)
    BY AppendProperties DEF OtherTyped
  <2>3. /\ calls < MaxCalls /\ calls' = calls + 1 /\ nulls' = nulls /\ null_bytes' = null_bytes
        /\ blocks' \in {blocks, Append(blocks, n)}
    BY <2>1 DEF Take, Calling
  <2>4. calls' \in 0..MaxCalls
    BY <2>3, Sizes DEF OtherTyped
  <2>5. QED
    BY <2>2, <2>3, <2>4 DEF OtherTyped
<1>22. CASE \E n \in BlockSizes : ResizeNull(n)
  BY <1>22, AccountsAssumption DEF ResizeNull, OtherTyped, other, Calling, Running
<1>23. CASE \E n \in BlockSizes : GiveBackNull(n)
  BY <1>23, AccountsAssumption DEF GiveBackNull, OtherTyped, other, Calling, Running
<1>24. CASE \E k \in DOMAIN blocks : GiveBack(k)
  <2>1. PICK k \in DOMAIN blocks : GiveBack(k)
    BY <1>24
  <2>2. BlockSizes \in SUBSET Nat /\ blocks \in Seq(BlockSizes) /\ k \in 1..Len(blocks)
    BY AccountsAssumption, LenProperties DEF OtherTyped
  <2>3. RemoveAt(blocks, k) \in Seq(BlockSizes)
    BY <2>2, TotalRemoveAt
  <2>4. QED
    BY <2>1, <2>3, AccountsAssumption DEF OtherTyped, GiveBack, Calling
<1>25. CASE \E k \in DOMAIN blocks : \E n \in BlockSizes : Resize(k, n)
  <2>1. PICK k \in DOMAIN blocks, n \in BlockSizes : Resize(k, n)
    BY <1>25
  <2>2. BlockSizes \in SUBSET Nat /\ blocks \in Seq(BlockSizes) /\ k \in 1..Len(blocks)
    BY AccountsAssumption, LenProperties DEF OtherTyped
  <2>3. [blocks EXCEPT ![k] = n] \in Seq(BlockSizes)
    BY <2>2, TotalExcept
  <2>4. /\ calls < MaxCalls /\ calls' = calls + 1 /\ nulls' = nulls /\ null_bytes' = null_bytes
        /\ blocks' \in {blocks, [blocks EXCEPT ![k] = n]}
    BY <2>1 DEF Resize, Calling
  <2>5. calls' \in 0..MaxCalls
    BY <2>4, Sizes DEF OtherTyped
  <2>6. QED
    BY <2>3, <2>4, <2>5 DEF OtherTyped
<1>26. CASE ForgetPeak
  BY <1>26, AccountsAssumption DEF ForgetPeak, OtherTyped, other, Calling, Running
<1>27. CASE Ended
  BY <1>27 DEF Ended, vars, other, OtherTyped
<1>28. CASE Prints
  BY <1>28 DEF Prints, OtherTyped, other
<1>29. QED
  BY <1>1, <1>2, <1>3, <1>4, <1>5, <1>6, <1>7, <1>8, <1>9, <1>10, <1>11, <1>12, <1>13, <1>14,
     <1>15, <1>16, <1>17, <1>18, <1>19, <1>20, <1>21, <1>22, <1>23, <1>24, <1>25, <1>26, <1>27, <1>28 DEF Next

-----------------------------------------------------------------------------
(* What is held, part by part: the lists, what was parsed, the blocks.     *)
ListBytes(c, p, b) == c * CmdSize + p * ParamSize + b * RioSize
ParsedBytes(b, a, s) == Present(b) * b + Present(a) * a * PtrSize + Total(s) + Len(s)
ParsedBlocks(b, a, s) == Present(b) + Present(a) + Len(s)

LEMMA ListSteps ==
  ASSUME NEW c \in Nat, NEW p \in Nat, NEW b \in Nat
  PROVE  /\ ListBytes(c, p, b) \in Nat
         /\ ListBytes(c + 1, p, b) = ListBytes(c, p, b) + CmdSize
         /\ ListBytes(c, p + 1, b) = ListBytes(c, p, b) + ParamSize
         /\ ListBytes(c, p, b + 1) = ListBytes(c, p, b) + RioSize
         /\ ListBytes(c - 1, p, b) = ListBytes(c, p, b) - CmdSize
         /\ ListBytes(c, p - 1, b) = ListBytes(c, p, b) - ParamSize
         /\ ListBytes(c, p, b - 1) = ListBytes(c, p, b) - RioSize
  BY Sizes DEF ListBytes

ParsedIs(b, a, s) ==
  /\ ParsedBytes(b, a, s) = (IF b = None THEN 0 ELSE b)
       + (IF a = None THEN 0 ELSE a * PtrSize) + Total(s) + Len(s)
  /\ ParsedBlocks(b, a, s) = (IF b = None THEN 0 ELSE 1) + (IF a = None THEN 0 ELSE 1) + Len(s)

LEMMA ParsedParts ==
  ASSUME NEW b \in Nat \cup {None}, NEW a \in Nat \cup {None}, NEW s \in Seq(Nat)
  PROVE  /\ ParsedBytes(b, a, s) \in Nat /\ ParsedBlocks(b, a, s) \in Nat
         /\ Total(s) \in Nat /\ Len(s) \in Nat /\ ParsedIs(b, a, s)
<1>1. Total(s) \in Nat /\ Len(s) \in Nat
  BY TotalNat, LenProperties
<1>2. Present(b) * b = (IF b = None THEN 0 ELSE b) /\ Present(b) * b \in Nat
  <2>1. CASE b = None
    BY <2>1 DEF Present, None
  <2>2. CASE b # None
    BY <2>2 DEF Present
  <2>3. QED
    BY <2>1, <2>2
<1>3. /\ Present(a) * a * PtrSize = (IF a = None THEN 0 ELSE a * PtrSize)
      /\ Present(a) * a * PtrSize \in Nat
  <2>1. CASE a = None
    BY <2>1, Sizes DEF Present, None
  <2>2. CASE a # None
    BY <2>2, Sizes DEF Present
  <2>3. QED
    BY <2>1, <2>2
<1> DEFINE x == Present(b) * b
           y == Present(a) * a * PtrSize
<1>4. ParsedBytes(b, a, s) = x + y + Total(s) + Len(s)
  BY DEF ParsedBytes
<1>5. x \in Nat /\ y \in Nat
  BY <1>2, <1>3
<1>6. x = (IF b = None THEN 0 ELSE b) /\ y = (IF a = None THEN 0 ELSE a * PtrSize)
  BY <1>2, <1>3
<1> HIDE DEF x, y
<1> DEFINE fb == IF b = None THEN 0 ELSE b
           fa == IF a = None THEN 0 ELSE a * PtrSize
           gb == IF b = None THEN 0 ELSE 1
           ga == IF a = None THEN 0 ELSE 1
<1>7. fb \in Nat /\ fa \in Nat /\ gb \in Nat /\ ga \in Nat /\ x = fb /\ y = fa
  BY <1>5, <1>6
<1>8. ParsedBlocks(b, a, s) = gb + ga + Len(s)
  BY Zenon DEF ParsedBlocks, Present
<1>9. ParsedIs(b, a, s) <=> /\ ParsedBytes(b, a, s) = fb + fa + Total(s) + Len(s)
                            /\ ParsedBlocks(b, a, s) = gb + ga + Len(s)
  BY Zenon DEF ParsedIs
<1> HIDE DEF fb, fa, gb, ga
<1>10. QED
  BY <1>1, <1>4, <1>7, <1>8, <1>9

(* What is held, of values of the variables: in this state or in the next. *)
HeldOf(c, p, b, d, a, s, k) ==
  c * CmdSize + p * ParamSize + b * RioSize
  + Present(d) * d + Present(a) * a * PtrSize + Total(s) + Len(s) + Total(k)
BlocksOf(c, p, b, d, a, s, k) == c + p + b + Present(d) + Present(a) + Len(s) + Len(k)

HeldParts(c, p, b, d, a, s, k) ==
  /\ HeldOf(c, p, b, d, a, s, k) = ListBytes(c, p, b) + ParsedBytes(d, a, s) + Total(k)
  /\ BlocksOf(c, p, b, d, a, s, k) = c + p + b + ParsedBlocks(d, a, s) + Len(k)
  /\ HeldOf(c, p, b, d, a, s, k) \in Nat /\ BlocksOf(c, p, b, d, a, s, k) \in Nat

LEMMA HeldSum ==
  ASSUME NEW c \in Nat, NEW p \in Nat, NEW b \in Nat, NEW d \in Nat \cup {None},
         NEW a \in Nat \cup {None}, NEW s \in Seq(Nat), NEW k \in Seq(Nat)
  PROVE  HeldParts(c, p, b, d, a, s, k)
<1>1. /\ ListBytes(c, p, b) \in Nat /\ ParsedBytes(d, a, s) \in Nat
      /\ ParsedBlocks(d, a, s) \in Nat /\ Total(k) \in Nat /\ Len(k) \in Nat
      /\ Total(s) \in Nat /\ Len(s) \in Nat
  BY ListSteps, ParsedParts, TotalNat, LenProperties
<1>2. HeldOf(c, p, b, d, a, s, k) = ListBytes(c, p, b) + ParsedBytes(d, a, s) + Total(k)
  <2> DEFINE x == Present(d) * d
             y == Present(a) * a * PtrSize
             u == c * CmdSize
             v == p * ParamSize
             w == b * RioSize
  <2>1. x \in Int /\ y \in Int /\ u \in Int /\ v \in Int /\ w \in Int
    BY Sizes DEF Present, None
  <2>2. HeldOf(c, p, b, d, a, s, k) = u + v + w + x + y + Total(s) + Len(s) + Total(k)
    BY DEF HeldOf
  <2>3. ListBytes(c, p, b) = u + v + w
    BY DEF ListBytes
  <2>4. ParsedBytes(d, a, s) = x + y + Total(s) + Len(s)
    BY DEF ParsedBytes
  <2> HIDE DEF x, y, u, v, w
  <2>5. QED
    BY <1>1, <2>1, <2>2, <2>3, <2>4
<1>3. BlocksOf(c, p, b, d, a, s, k) = c + p + b + ParsedBlocks(d, a, s) + Len(k)
  <2> DEFINE x == Present(d)
             y == Present(a)
             m == Len(s)
             n == Len(k)
             q == ParsedBlocks(d, a, s)
  <2>1. x \in Int /\ y \in Int /\ m \in Int /\ n \in Int
    BY <1>1 DEF Present
  <2>2. BlocksOf(c, p, b, d, a, s, k) = c + p + b + x + y + m + n
    BY Zenon DEF BlocksOf
  <2>3. q = x + y + m
    BY Zenon DEF ParsedBlocks
  <2> HIDE DEF x, y, m, n, q
  <2>4. BlocksOf(c, p, b, d, a, s, k) = c + p + b + q + n
    BY <2>1, <2>2, <2>3
  <2>5. QED
    BY <2>4 DEF q, n
<1> DEFINE l == ListBytes(c, p, b)
           m == ParsedBytes(d, a, s)
           n == Total(k)
           q == ParsedBlocks(d, a, s)
           r == Len(k)
<1>4. l \in Nat /\ m \in Nat /\ n \in Nat /\ q \in Nat /\ r \in Nat
  BY <1>1
<1>5. HeldOf(c, p, b, d, a, s, k) = l + m + n /\ BlocksOf(c, p, b, d, a, s, k) = c + p + b + q + r
  BY <1>2, <1>3
<1> HIDE DEF l, m, n, q, r
<1>6. HeldOf(c, p, b, d, a, s, k) \in Nat /\ BlocksOf(c, p, b, d, a, s, k) \in Nat
  BY <1>4, <1>5
<1>7. QED
  BY <1>2, <1>3, <1>6, Zenon DEF HeldParts

LEMMA HeldIs ==
  ASSUME ConsoleTyped, OtherTyped
  PROVE  /\ Held = HeldOf(cmd_list, param_list, buf_stack, buf, argv, saved, blocks)
         /\ HeldBlocks = BlocksOf(cmd_list, param_list, buf_stack, buf, argv, saved, blocks)
         /\ cmd_list \in Nat /\ param_list \in Nat /\ buf_stack \in Nat
         /\ buf \in Nat \cup {None} /\ argv \in Nat \cup {None}
         /\ saved \in Seq(Nat) /\ blocks \in Seq(Nat)
<1>1. Held = HeldOf(cmd_list, param_list, buf_stack, buf, argv, saved, blocks)
  BY Zenon DEF Held, ConsoleBytes, HeldOf
<1>2. HeldBlocks = BlocksOf(cmd_list, param_list, buf_stack, buf, argv, saved, blocks)
  BY Zenon DEF HeldBlocks, ConsoleBlocks, BlocksOf
<1>3. /\ cmd_list \in Nat /\ param_list \in Nat /\ buf_stack \in Nat
      /\ buf \in Nat \cup {None} /\ argv \in Nat \cup {None} /\ saved \in Seq(Nat)
  BY Sizes DEF ConsoleTyped
<1>4. blocks \in Seq(Nat)
  BY AccountsAssumption, SeqMonotonic DEF OtherTyped
<1>5. QED
  BY <1>1, <1>2, <1>3, <1>4

LEMMA HeldWillBe ==
  ASSUME ConsoleTyped', OtherTyped'
  PROVE  /\ Held' = HeldOf(cmd_list', param_list', buf_stack', buf', argv', saved', blocks')
         /\ HeldBlocks' = BlocksOf(cmd_list', param_list', buf_stack', buf', argv', saved', blocks')
         /\ cmd_list' \in Nat /\ param_list' \in Nat /\ buf_stack' \in Nat
         /\ buf' \in Nat \cup {None} /\ argv' \in Nat \cup {None}
         /\ saved' \in Seq(Nat) /\ blocks' \in Seq(Nat)
<1>1. Held' = HeldOf(cmd_list', param_list', buf_stack', buf', argv', saved', blocks')
  BY Zenon DEF Held, ConsoleBytes, HeldOf
<1>2. HeldBlocks' = BlocksOf(cmd_list', param_list', buf_stack', buf', argv', saved', blocks')
  BY Zenon DEF HeldBlocks, ConsoleBlocks, BlocksOf
<1>3. /\ cmd_list' \in Nat /\ param_list' \in Nat /\ buf_stack' \in Nat
      /\ buf' \in Nat \cup {None} /\ argv' \in Nat \cup {None} /\ saved' \in Seq(Nat)
  BY Sizes DEF ConsoleTyped
<1>4. blocks' \in Seq(Nat)
  BY AccountsAssumption, SeqMonotonic DEF OtherTyped
<1>5. QED
  BY <1>1, <1>2, <1>3, <1>4

(* A command, a parameter or a file more.                                  *)
ListsGrown(c, p, b, d, a, s, k) ==
  /\ HeldOf(c + 1, p, b, d, a, s, k) = HeldOf(c, p, b, d, a, s, k) + CmdSize
  /\ HeldOf(c, p + 1, b, d, a, s, k) = HeldOf(c, p, b, d, a, s, k) + ParamSize
  /\ HeldOf(c, p, b + 1, d, a, s, k) = HeldOf(c, p, b, d, a, s, k) + RioSize
  /\ BlocksOf(c + 1, p, b, d, a, s, k) = BlocksOf(c, p, b, d, a, s, k) + 1
  /\ BlocksOf(c, p + 1, b, d, a, s, k) = BlocksOf(c, p, b, d, a, s, k) + 1
  /\ BlocksOf(c, p, b + 1, d, a, s, k) = BlocksOf(c, p, b, d, a, s, k) + 1

LEMMA ListsGrow ==
  ASSUME NEW c \in Nat, NEW p \in Nat, NEW b \in Nat, NEW d \in Nat \cup {None},
         NEW a \in Nat \cup {None}, NEW s \in Seq(Nat), NEW k \in Seq(Nat)
  PROVE  ListsGrown(c, p, b, d, a, s, k)
<1> DEFINE l == ListBytes(c, p, b)
           m == ParsedBytes(d, a, s)
           n == Total(k)
           q == ParsedBlocks(d, a, s)
           r == Len(k)
           l1 == ListBytes(c + 1, p, b)
           l2 == ListBytes(c, p + 1, b)
           l3 == ListBytes(c, p, b + 1)
<1>1. l \in Nat /\ m \in Nat /\ n \in Nat /\ q \in Nat /\ r \in Nat
  BY ListSteps, ParsedParts, TotalNat, LenProperties
<1>2. l1 = l + CmdSize /\ l2 = l + ParamSize /\ l3 = l + RioSize
  BY ListSteps
<1>3. c + 1 \in Nat /\ p + 1 \in Nat /\ b + 1 \in Nat
  OBVIOUS
<1>4. /\ HeldParts(c, p, b, d, a, s, k) /\ HeldParts(c + 1, p, b, d, a, s, k)
      /\ HeldParts(c, p + 1, b, d, a, s, k) /\ HeldParts(c, p, b + 1, d, a, s, k)
  BY <1>3, HeldSum
<1>5. /\ HeldOf(c, p, b, d, a, s, k) = l + m + n
      /\ BlocksOf(c, p, b, d, a, s, k) = c + p + b + q + r
      /\ HeldOf(c + 1, p, b, d, a, s, k) = l1 + m + n
      /\ BlocksOf(c + 1, p, b, d, a, s, k) = (c + 1) + p + b + q + r
      /\ HeldOf(c, p + 1, b, d, a, s, k) = l2 + m + n
      /\ BlocksOf(c, p + 1, b, d, a, s, k) = c + (p + 1) + b + q + r
      /\ HeldOf(c, p, b + 1, d, a, s, k) = l3 + m + n
      /\ BlocksOf(c, p, b + 1, d, a, s, k) = c + p + (b + 1) + q + r
  BY <1>4, Zenon DEF HeldParts
<1> HIDE DEF l, m, n, q, r, l1, l2, l3
<1>6. QED
  BY <1>1, <1>2, <1>5, Sizes DEF ListsGrown

(* A line, its argv or a word more.                                        *)
ParsedGrown(c, p, b, d, a, s, k, x) ==
  /\ HeldOf(c, p, b, x, a, s, k) = HeldOf(c, p, b, None, a, s, k) + x
  /\ BlocksOf(c, p, b, x, a, s, k) = BlocksOf(c, p, b, None, a, s, k) + 1
  /\ HeldOf(c, p, b, d, x, s, k) = HeldOf(c, p, b, d, None, s, k) + x * PtrSize
  /\ BlocksOf(c, p, b, d, x, s, k) = BlocksOf(c, p, b, d, None, s, k) + 1
  /\ HeldOf(c, p, b, d, a, Append(s, x), k) = HeldOf(c, p, b, d, a, s, k) + (x + 1)
  /\ BlocksOf(c, p, b, d, a, Append(s, x), k) = BlocksOf(c, p, b, d, a, s, k) + 1

LEMMA ParsedGrows ==
  ASSUME NEW c \in Nat, NEW p \in Nat, NEW b \in Nat, NEW d \in Nat \cup {None},
         NEW a \in Nat \cup {None}, NEW s \in Seq(Nat), NEW k \in Seq(Nat), NEW x \in Nat
  PROVE  ParsedGrown(c, p, b, d, a, s, k, x)
<1> DEFINE t == Append(s, x)
           l == ListBytes(c, p, b)
           n == Total(k)
           r == Len(k)
           y == x * PtrSize
           fd == IF d = None THEN 0 ELSE d
           fa == IF a = None THEN 0 ELSE a * PtrSize
           gd == IF d = None THEN 0 ELSE 1
           ga == IF a = None THEN 0 ELSE 1
           ts == Total(s)
           ls == Len(s)
           tt == Total(t)
           lt == Len(t)
<1>1. None \in Nat \cup {None} /\ x \in Nat \cup {None} /\ x # None
  BY DEF None
<1>2. t \in Seq(Nat) /\ lt = ls + 1 /\ tt = ts + x
  BY TotalAppend
<1>3. /\ l \in Nat /\ n \in Nat /\ r \in Nat /\ y \in Nat /\ ts \in Nat /\ ls \in Nat
      /\ fd \in Nat /\ fa \in Nat /\ gd \in Nat /\ ga \in Nat
  <2>1. l \in Nat /\ n \in Nat /\ r \in Nat /\ ts \in Nat /\ ls \in Nat
    BY ListSteps, TotalNat, LenProperties
  <2>2. y \in Nat /\ fd \in Nat /\ gd \in Nat /\ ga \in Nat
    BY Sizes
  <2>3. fa \in Nat
    BY Sizes
  <2>4. QED
    BY <2>1, <2>2, <2>3
<1>4. /\ HeldOf(c, p, b, x, a, s, k) = l + ParsedBytes(x, a, s) + n
      /\ BlocksOf(c, p, b, x, a, s, k) = c + p + b + ParsedBlocks(x, a, s) + r
      /\ HeldOf(c, p, b, None, a, s, k) = l + ParsedBytes(None, a, s) + n
      /\ BlocksOf(c, p, b, None, a, s, k) = c + p + b + ParsedBlocks(None, a, s) + r
      /\ HeldOf(c, p, b, d, x, s, k) = l + ParsedBytes(d, x, s) + n
      /\ BlocksOf(c, p, b, d, x, s, k) = c + p + b + ParsedBlocks(d, x, s) + r
      /\ HeldOf(c, p, b, d, None, s, k) = l + ParsedBytes(d, None, s) + n
      /\ BlocksOf(c, p, b, d, None, s, k) = c + p + b + ParsedBlocks(d, None, s) + r
      /\ HeldOf(c, p, b, d, a, s, k) = l + ParsedBytes(d, a, s) + n
      /\ BlocksOf(c, p, b, d, a, s, k) = c + p + b + ParsedBlocks(d, a, s) + r
      /\ HeldOf(c, p, b, d, a, t, k) = l + ParsedBytes(d, a, t) + n
      /\ BlocksOf(c, p, b, d, a, t, k) = c + p + b + ParsedBlocks(d, a, t) + r
  <2>1. /\ HeldParts(c, p, b, x, a, s, k) /\ HeldParts(c, p, b, None, a, s, k)
        /\ HeldParts(c, p, b, d, x, s, k) /\ HeldParts(c, p, b, d, None, s, k)
        /\ HeldParts(c, p, b, d, a, s, k) /\ HeldParts(c, p, b, d, a, t, k)
    BY <1>1, <1>2, HeldSum
  <2>2. QED
    BY <2>1, Zenon DEF HeldParts
<1>5. /\ ParsedBytes(x, a, s) = (IF x = None THEN 0 ELSE x) + fa + ts + ls
      /\ ParsedBlocks(x, a, s) = (IF x = None THEN 0 ELSE 1) + ga + ls
      /\ ParsedBytes(None, a, s) = (IF None = None THEN 0 ELSE None) + fa + ts + ls
      /\ ParsedBlocks(None, a, s) = (IF None = None THEN 0 ELSE 1) + ga + ls
      /\ ParsedBytes(d, x, s) = fd + (IF x = None THEN 0 ELSE x * PtrSize) + ts + ls
      /\ ParsedBlocks(d, x, s) = gd + (IF x = None THEN 0 ELSE 1) + ls
      /\ ParsedBytes(d, None, s) = fd + (IF None = None THEN 0 ELSE None * PtrSize) + ts + ls
      /\ ParsedBlocks(d, None, s) = gd + (IF None = None THEN 0 ELSE 1) + ls
      /\ ParsedBytes(d, a, s) = fd + fa + ts + ls
      /\ ParsedBlocks(d, a, s) = gd + ga + ls
      /\ ParsedBytes(d, a, t) = fd + fa + tt + lt
      /\ ParsedBlocks(d, a, t) = gd + ga + lt
  <2>1. /\ ParsedIs(x, a, s) /\ ParsedIs(None, a, s) /\ ParsedIs(d, x, s) /\ ParsedIs(d, None, s)
        /\ ParsedIs(d, a, s) /\ ParsedIs(d, a, t)
    BY <1>1, <1>2, ParsedParts
  <2>2. QED
    BY <2>1, Zenon DEF ParsedIs
<1>6. /\ (IF x = None THEN 0 ELSE x) = x /\ (IF x = None THEN 0 ELSE 1) = 1
      /\ (IF x = None THEN 0 ELSE x * PtrSize) = y
      /\ (IF None = None THEN 0 ELSE None) = 0 /\ (IF None = None THEN 0 ELSE 1) = 0
      /\ (IF None = None THEN 0 ELSE None * PtrSize) = 0
  BY <1>1, Zenon
<1> HIDE DEF t, l, n, r, y, fd, fa, gd, ga, ts, ls, tt, lt
<1>7. /\ HeldOf(c, p, b, x, a, s, k) = HeldOf(c, p, b, None, a, s, k) + x
      /\ BlocksOf(c, p, b, x, a, s, k) = BlocksOf(c, p, b, None, a, s, k) + 1
  <2>1. ParsedBytes(x, a, s) = x + fa + ts + ls /\ ParsedBytes(None, a, s) = 0 + fa + ts + ls
    BY <1>5, <1>6, Zenon
  <2>2. ParsedBlocks(x, a, s) = 1 + ga + ls /\ ParsedBlocks(None, a, s) = 0 + ga + ls
    BY <1>5, <1>6, Zenon
  <2>3. QED
    BY <1>3, <1>4, <2>1, <2>2
<1>8. /\ HeldOf(c, p, b, d, x, s, k) = HeldOf(c, p, b, d, None, s, k) + x * PtrSize
      /\ BlocksOf(c, p, b, d, x, s, k) = BlocksOf(c, p, b, d, None, s, k) + 1
  <2>1. ParsedBytes(d, x, s) = fd + y + ts + ls /\ ParsedBytes(d, None, s) = fd + 0 + ts + ls
    BY <1>5, <1>6, Zenon
  <2>2. ParsedBlocks(d, x, s) = gd + 1 + ls /\ ParsedBlocks(d, None, s) = gd + 0 + ls
    BY <1>5, <1>6, Zenon
  <2>3. /\ HeldOf(c, p, b, d, x, s, k) = HeldOf(c, p, b, d, None, s, k) + y
        /\ BlocksOf(c, p, b, d, x, s, k) = BlocksOf(c, p, b, d, None, s, k) + 1
    BY <1>3, <1>4, <2>1, <2>2
  <2>4. QED
    BY <2>3, Zenon DEF y
<1>9. /\ HeldOf(c, p, b, d, a, t, k) = HeldOf(c, p, b, d, a, s, k) + (x + 1)
      /\ BlocksOf(c, p, b, d, a, t, k) = BlocksOf(c, p, b, d, a, s, k) + 1
  BY <1>2, <1>3, <1>4, <1>5
<1>10. QED
  BY <1>7, <1>8, <1>9, Zenon DEF t, ParsedGrown

(* The first word given back, and the blocks of the other caller.          *)
WordsShrunk(c, p, b, d, a, s, k) ==
  /\ Head(s) \in Nat
  /\ HeldOf(c, p, b, d, a, s, k) = HeldOf(c, p, b, d, a, Tail(s), k) + (Head(s) + 1)
  /\ BlocksOf(c, p, b, d, a, s, k) = BlocksOf(c, p, b, d, a, Tail(s), k) + 1

LEMMA WordsShrink ==
  ASSUME NEW c \in Nat, NEW p \in Nat, NEW b \in Nat, NEW d \in Nat \cup {None},
         NEW a \in Nat \cup {None}, NEW s \in Seq(Nat), NEW k \in Seq(Nat), s # <<>>
  PROVE  WordsShrunk(c, p, b, d, a, s, k)
<1> DEFINE t == Tail(s)
           l == ListBytes(c, p, b)
           n == Total(k)
           r == Len(k)
           fd == IF d = None THEN 0 ELSE d
           fa == IF a = None THEN 0 ELSE a * PtrSize
           gd == IF d = None THEN 0 ELSE 1
           ga == IF a = None THEN 0 ELSE 1
           h == Head(s)
           ts == Total(s)
           ls == Len(s)
           tt == Total(t)
           lt == Len(t)
<1>1. t \in Seq(Nat) /\ lt = ls - 1 /\ h \in Nat /\ tt = ts - h
  BY TotalTail
<1>2. /\ l \in Nat /\ n \in Nat /\ r \in Nat /\ ts \in Nat /\ ls \in Nat
      /\ fd \in Nat /\ fa \in Nat /\ gd \in Nat /\ ga \in Nat
  <2>1. l \in Nat /\ n \in Nat /\ r \in Nat /\ ts \in Nat /\ ls \in Nat
    BY ListSteps, TotalNat, LenProperties
  <2>2. fd \in Nat /\ gd \in Nat /\ ga \in Nat
    OBVIOUS
  <2>3. fa \in Nat
    BY Sizes
  <2>4. QED
    BY <2>1, <2>2, <2>3
<1>3. /\ HeldParts(c, p, b, d, a, s, k) /\ HeldParts(c, p, b, d, a, t, k)
      /\ ParsedIs(d, a, s) /\ ParsedIs(d, a, t)
  BY <1>1, HeldSum, ParsedParts
<1>4. /\ HeldOf(c, p, b, d, a, s, k) = l + ParsedBytes(d, a, s) + n
      /\ BlocksOf(c, p, b, d, a, s, k) = c + p + b + ParsedBlocks(d, a, s) + r
      /\ HeldOf(c, p, b, d, a, t, k) = l + ParsedBytes(d, a, t) + n
      /\ BlocksOf(c, p, b, d, a, t, k) = c + p + b + ParsedBlocks(d, a, t) + r
  BY <1>3, Zenon DEF HeldParts
<1>5. /\ ParsedBytes(d, a, s) = fd + fa + ts + ls /\ ParsedBlocks(d, a, s) = gd + ga + ls
      /\ ParsedBytes(d, a, t) = fd + fa + tt + lt /\ ParsedBlocks(d, a, t) = gd + ga + lt
  BY <1>3, Zenon DEF ParsedIs
<1> HIDE DEF t, l, n, r, fd, fa, gd, ga, h, ts, ls, tt, lt
<1>6. /\ HeldOf(c, p, b, d, a, s, k) = HeldOf(c, p, b, d, a, t, k) + (h + 1)
      /\ BlocksOf(c, p, b, d, a, s, k) = BlocksOf(c, p, b, d, a, t, k) + 1
  BY <1>1, <1>2, <1>4, <1>5
<1>7. QED
  BY <1>1, <1>6, Zenon DEF t, h, WordsShrunk

BlocksChanged(c, p, b, d, a, s, k, t, x, n) ==
  /\ HeldOf(c, p, b, d, a, s, t) = HeldOf(c, p, b, d, a, s, k) + x
  /\ BlocksOf(c, p, b, d, a, s, t) = BlocksOf(c, p, b, d, a, s, k) + n

LEMMA BlocksChange ==
  ASSUME NEW c \in Nat, NEW p \in Nat, NEW b \in Nat, NEW d \in Nat \cup {None},
         NEW a \in Nat \cup {None}, NEW s \in Seq(Nat), NEW k \in Seq(Nat), NEW t \in Seq(Nat),
         NEW x \in Int, NEW n \in Int, Total(t) = Total(k) + x, Len(t) = Len(k) + n
  PROVE  BlocksChanged(c, p, b, d, a, s, k, t, x, n)
<1> DEFINE l == ListBytes(c, p, b)
           m == ParsedBytes(d, a, s)
           q == ParsedBlocks(d, a, s)
           tk == Total(k)
           lk == Len(k)
<1>1. l \in Nat /\ m \in Nat /\ q \in Nat /\ tk \in Nat /\ lk \in Nat
  BY ListSteps, ParsedParts, TotalNat, LenProperties
<1>2. HeldParts(c, p, b, d, a, s, k) /\ HeldParts(c, p, b, d, a, s, t)
  BY HeldSum
<1>3. /\ HeldOf(c, p, b, d, a, s, k) = l + m + tk
      /\ HeldOf(c, p, b, d, a, s, t) = l + m + (tk + x)
      /\ BlocksOf(c, p, b, d, a, s, k) = c + p + b + q + lk
      /\ BlocksOf(c, p, b, d, a, s, t) = c + p + b + q + (lk + n)
  BY <1>2, Zenon DEF HeldParts
<1> HIDE DEF l, m, q, tk, lk
<1>4. QED
  BY <1>1, <1>3 DEF BlocksChanged

(* What a step leaves alone, and a block given back that was there.        *)
Kept == CountersOK' /\ Balanced' /\ Addressable' /\ LimitStep

LEMMA NothingCounted ==
  ASSUME TypeOK, Addressable, Balanced, UNCHANGED counters, UNCHANGED <<nulls, null_bytes>>,
         UNCHANGED <<lists, parsed, blocks>>
  PROVE  Kept
<1>1. /\ allocate_cnt' = allocate_cnt /\ allocate_bytes' = allocate_bytes /\ free_cnt' = free_cnt
      /\ free_bytes' = free_bytes /\ peak_bytes' = peak_bytes
      /\ last_peak_bytes' = last_peak_bytes /\ current_bytes' = current_bytes
      /\ nulls' = nulls /\ null_bytes' = null_bytes
  BY DEF counters
<1>2. ConsoleBytes' = ConsoleBytes /\ ConsoleBlocks' = ConsoleBlocks /\ blocks' = blocks
  BY DEF ConsoleBytes, ConsoleBlocks, lists, parsed
<1>3. Balanced' /\ Addressable'
  BY <1>1, <1>2, Zenon DEF Balanced, Addressable
<1>4. CountersOK'
  BY <1>1 DEF CountersOK, TypeOK
<1>5. LimitStep
  <2>1. current_bytes \in Int
    BY ReportAssumption DEF TypeOK
  <2>2. QED
    BY <1>1, <2>1 DEF LimitStep
<1>6. QED
  BY <1>3, <1>4, <1>5 DEF Kept

LEMMA Freed ==
  ASSUME TypeOK, Addressable, Balanced, NEW bytes \in Nat, CountFreed(bytes),
         UNCHANGED <<nulls, null_bytes>>,
         Held \in Nat, HeldBlocks \in Nat, Held' \in Nat, HeldBlocks' \in Nat,
         Held = Held' + bytes, HeldBlocks = HeldBlocks' + 1
  PROVE  Kept
<1>1. \A x, y, b \in Nat : x = y + b => y = x - b + 0 * b
  OBVIOUS
<1>2. \A x, y \in Nat : x = y + 1 => y = x - 1 + 0
  OBVIOUS
<1>3. Held' = Held - bytes + 0 * bytes /\ HeldBlocks' = HeldBlocks - 1 + 0
  BY <1>1, <1>2, Zenon
<1>4. nulls' = nulls + 0 /\ null_bytes' = null_bytes + 0 * bytes
  <2>1. nulls \in Nat /\ null_bytes \in Nat /\ nulls' = nulls /\ null_bytes' = null_bytes
    BY DEF TypeOK
  <2>2. QED
    BY <2>1
<1>5. 0 \in {0, 1}
  OBVIOUS
<1>6. QED
  BY <1>3, <1>4, <1>5, Frees, Zenon DEF Kept

(* What is held before and after a step, as values of the variables.       *)
HeldTyped ==
  /\ cmd_list \in Nat /\ param_list \in Nat /\ buf_stack \in Nat
  /\ buf \in Nat \cup {None} /\ argv \in Nat \cup {None}
  /\ saved \in Seq(Nat) /\ blocks \in Seq(Nat)
  /\ Held \in Nat /\ HeldBlocks \in Nat
  /\ Held = HeldOf(cmd_list, param_list, buf_stack, buf, argv, saved, blocks)
  /\ HeldBlocks = BlocksOf(cmd_list, param_list, buf_stack, buf, argv, saved, blocks)

LEMMA HeldValues ==
  ASSUME ConsoleTyped, OtherTyped, ConsoleTyped', OtherTyped'
  PROVE  /\ HeldTyped /\ HeldTyped'
         /\ ListsGrown(cmd_list, param_list, buf_stack, buf, argv, saved, blocks)
         /\ ListsGrown(cmd_list', param_list', buf_stack', buf', argv', saved', blocks')
<1>1. HeldTyped
  <2>1. HeldParts(cmd_list, param_list, buf_stack, buf, argv, saved, blocks)
    BY HeldIs, HeldSum
  <2>2. QED
    BY <2>1, HeldIs, Zenon DEF HeldTyped, HeldParts
<1>2. HeldTyped'
  <2>1. HeldParts(cmd_list', param_list', buf_stack', buf', argv', saved', blocks')
    BY HeldWillBe, HeldSum
  <2>2. QED
    BY <2>1, HeldWillBe, Zenon DEF HeldTyped, HeldParts
<1>3. /\ ListsGrown(cmd_list, param_list, buf_stack, buf, argv, saved, blocks)
      /\ ListsGrown(cmd_list', param_list', buf_stack', buf', argv', saved', blocks')
  BY HeldIs, HeldWillBe, ListsGrow
<1>4. QED
  BY <1>1, <1>2, <1>3

(* Every step counts what it takes and what it gives back.                 *)
LEMMA CountersKept ==
  ASSUME TypeOK, Addressable, Balanced, Shape, ConsoleTyped', OtherTyped', Next
  PROVE  Kept
<1>1. /\ HeldTyped /\ HeldTyped'
      /\ ListsGrown(cmd_list, param_list, buf_stack, buf, argv, saved, blocks)
      /\ ListsGrown(cmd_list', param_list', buf_stack', buf', argv', saved', blocks')
  BY TypeParts, HeldValues
<1>2. Held \in Nat /\ HeldBlocks \in Nat /\ Held' \in Nat /\ HeldBlocks' \in Nat
  BY <1>1, Zenon DEF HeldTyped
<1>3. UNCHANGED <<counters, lists, parsed, blocks, nulls, null_bytes>> => Kept
  BY NothingCounted
<1>4. CASE add_cmd
  <2>1. /\ malloc_or_fail(CmdSize) /\ Addressable' /\ UNCHANGED <<nulls, null_bytes>>
        /\ cmd_list' = cmd_list + 1 /\ param_list' = param_list /\ buf_stack' = buf_stack
        /\ buf' = buf /\ argv' = argv /\ saved' = saved /\ blocks' = blocks
    BY <1>4 DEF add_cmd, console, lists, parsed, other
  <2>2. Held' = Held + CmdSize /\ HeldBlocks' = HeldBlocks + 1
    BY <1>1, <2>1 DEF HeldTyped, ListsGrown
  <2>3. CmdSize \in Nat
    BY Sizes
  <2>4. QED
    BY <1>2, <2>1, <2>2, <2>3, Mallocs, Zenon DEF Kept
<1>5. CASE add_param
  <2>1. /\ malloc_or_fail(ParamSize) /\ Addressable' /\ UNCHANGED <<nulls, null_bytes>>
        /\ param_list' = param_list + 1 /\ cmd_list' = cmd_list /\ buf_stack' = buf_stack
        /\ buf' = buf /\ argv' = argv /\ saved' = saved /\ blocks' = blocks
    BY <1>5 DEF add_param, console, lists, parsed, other
  <2>2. Held' = Held + ParamSize /\ HeldBlocks' = HeldBlocks + 1
    BY <1>1, <2>1 DEF HeldTyped, ListsGrown
  <2>3. ParamSize \in Nat
    BY Sizes
  <2>4. QED
    BY <1>2, <2>1, <2>2, <2>3, Mallocs, Zenon DEF Kept
<1>6. CASE GivesUp
  BY <1>6, <1>3 DEF GivesUp, console, lists, parsed, other, StopsAt, Refused
<1>7. CASE run_console
  BY <1>7, <1>3 DEF run_console, console, lists, parsed, other, Executing, counters, reportVars
<1>8. CASE push_file
  <2>1. /\ malloc_or_fail(RioSize) /\ Addressable' /\ UNCHANGED <<nulls, null_bytes>>
        /\ buf_stack' = buf_stack + 1 /\ cmd_list' = cmd_list /\ param_list' = param_list
        /\ buf' = buf /\ argv' = argv /\ saved' = saved /\ blocks' = blocks
    BY <1>8 DEF push_file, console, lists, parsed, other
  <2>2. Held' = Held + RioSize /\ HeldBlocks' = HeldBlocks + 1
    BY <1>1, <2>1 DEF HeldTyped, ListsGrown
  <2>3. RioSize \in Nat
    BY Sizes
  <2>4. QED
    BY <1>2, <2>1, <2>2, <2>3, Mallocs, Zenon DEF Kept
<1>9. CASE \E l \in Lines : readline(l)
  <2>1. PICK l \in Lines : readline(l)
    BY <1>9
  <2>2. CASE UNCHANGED <<counters, buf_stack>>
    BY <1>3, <2>1, <2>2 DEF readline, lists, parsed, other
  <2>3. CASE pop_file
    <3>1. /\ CountFreed(RioSize) /\ UNCHANGED <<nulls, null_bytes>>
          /\ buf_stack' = buf_stack - 1 /\ cmd_list' = cmd_list /\ param_list' = param_list
          /\ buf' = buf /\ argv' = argv /\ saved' = saved /\ blocks' = blocks
      BY <2>1, <2>3 DEF readline, pop_file, console, lists, parsed, other
    <3>2. buf_stack = buf_stack' + 1
      BY <1>1, <3>1 DEF HeldTyped
    <3>3. Held = Held' + RioSize /\ HeldBlocks = HeldBlocks' + 1
      BY <1>1, <3>1, <3>2 DEF HeldTyped, ListsGrown
    <3>4. RioSize \in Nat
      BY Sizes
    <3>5. QED
      BY <1>2, <3>1, <3>3, <3>4, Freed, Zenon
  <2>4. QED
    BY <2>1, <2>2, <2>3 DEF readline
<1>10. CASE EndOfFile
  <2>1. /\ CountFreed(RioSize) /\ UNCHANGED <<nulls, null_bytes>>
        /\ buf_stack' = buf_stack - 1 /\ cmd_list' = cmd_list /\ param_list' = param_list
        /\ buf' = buf /\ argv' = argv /\ saved' = saved /\ blocks' = blocks
    BY <1>10 DEF EndOfFile, pop_file, console, lists, parsed, other
  <2>2. buf_stack = buf_stack' + 1
    BY <1>1, <2>1 DEF HeldTyped
  <2>3. Held = Held' + RioSize /\ HeldBlocks = HeldBlocks' + 1
    BY <1>1, <2>1, <2>2 DEF HeldTyped, ListsGrown
  <2>4. RioSize \in Nat
    BY Sizes
  <2>5. QED
    BY <1>2, <2>1, <2>3, <2>4, Freed, Zenon
<1>11. CASE Return
  BY <1>11, <1>3 DEF Return, console, lists, parsed, other, Executing, counters, reportVars
<1>12. CASE parse_args
  <2>1. /\ Addressable' /\ UNCHANGED <<nulls, null_bytes>> /\ Parsing
        /\ cmd_list' = cmd_list /\ param_list' = param_list /\ buf_stack' = buf_stack
        /\ blocks' = blocks
    BY <1>12 DEF parse_args, lists, other
  <2>2. argc \in Nat /\ line.length \in Nat /\ line.words \in Seq(Nat)
    BY LenProperties DEF argc, Shape, TypeOK
  <2>3. CASE buf = None
    <3>1. malloc_or_fail(Wanted) /\ buf' = Wanted /\ argv' = argv /\ saved' = saved
      BY <1>12, <2>3 DEF parse_args
    <3>2. Wanted \in Nat
      BY <2>2, <2>3 DEF Wanted
    <3>3. Held' = Held + Wanted /\ HeldBlocks' = HeldBlocks + 1
      <4>1. ParsedGrown(cmd_list, param_list, buf_stack, buf, argv, saved, blocks, Wanted)
        BY <1>1, <3>2, ParsedGrows DEF HeldTyped
      <4>2. QED
        BY <1>1, <2>1, <2>3, <3>1, <4>1 DEF HeldTyped, ParsedGrown
    <3>4. QED
      BY <1>2, <2>1, <3>1, <3>2, <3>3, Mallocs, Zenon DEF Kept
  <2>4. CASE buf # None /\ argv = None
    <3>1. malloc_or_fail(argc * PtrSize) /\ buf' = buf /\ argv' = argc /\ saved' = saved
      BY <1>12, <2>4, Zenon DEF parse_args, Wanted
    <3>2. argc * PtrSize \in Nat
      BY <2>2, Sizes
    <3>3. Held' = Held + argc * PtrSize /\ HeldBlocks' = HeldBlocks + 1
      <4>1. ParsedGrown(cmd_list, param_list, buf_stack, buf, argv, saved, blocks, argc)
        BY <1>1, <2>2, ParsedGrows DEF HeldTyped
      <4>2. QED
        BY <1>1, <2>1, <2>4, <3>1, <4>1, Zenon DEF HeldTyped, ParsedGrown
    <3>4. QED
      BY <1>2, <2>1, <3>1, <3>2, <3>3, Mallocs, Zenon DEF Kept
  <2>5. CASE buf # None /\ argv # None
    <3> DEFINE word == line.words[Len(saved) + 1]
    <3>1. malloc_or_fail(word + 1) /\ buf' = buf /\ argv' = argv /\ saved' = Append(saved, word)
      BY <1>12, <2>5 DEF parse_args, strsave_or_fail
    <3>2. Len(saved) < argc /\ Len(saved) \in Nat
      BY <1>1, <2>1, <2>5, LenProperties DEF HeldTyped, Parsing
    <3>3. word \in Nat
      BY <2>2, <3>2, ElementOfSeq DEF argc
    <3> HIDE DEF word
    <3>4. Held' = Held + (word + 1) /\ HeldBlocks' = HeldBlocks + 1
      <4>1. ParsedGrown(cmd_list, param_list, buf_stack, buf, argv, saved, blocks, word)
        BY <1>1, <3>3, ParsedGrows DEF HeldTyped
      <4>2. QED
        BY <1>1, <2>1, <3>1, <4>1, Zenon DEF HeldTyped, ParsedGrown
    <3>5. word + 1 \in Nat
      BY <3>3
    <3>6. QED
      BY <1>2, <2>1, <3>1, <3>4, <3>5, Mallocs, Zenon DEF Kept
  <2>6. QED
    BY <2>3, <2>4, <2>5
<1>13. CASE parse_fails
  BY <1>13, <1>3 DEF parse_fails, console, lists, parsed, other, Refused
<1>14. CASE parsed_args
  <2>1. /\ CountFreed(line.length + 1) /\ UNCHANGED <<nulls, null_bytes>>
        /\ buf' = None /\ cmd_list' = cmd_list /\ param_list' = param_list
        /\ buf_stack' = buf_stack /\ argv' = argv /\ saved' = saved /\ blocks' = blocks /\ pc = "parse" /\ argv # None
    BY <1>14 DEF parsed_args, free_block, lists, other, At
  <2>2. buf = line.length + 1 /\ line.length + 1 \in Nat
    BY <2>1 DEF Shape
  <2>3. Held = Held' + (line.length + 1) /\ HeldBlocks = HeldBlocks' + 1
    <3>1. ParsedGrown(cmd_list, param_list, buf_stack, buf, argv, saved, blocks, line.length + 1)
      BY <1>1, <2>2, ParsedGrows DEF HeldTyped
    <3>2. QED
      BY <1>1, <2>1, <2>2, <3>1, Zenon DEF HeldTyped, ParsedGrown
  <2>4. QED
    BY <1>2, <2>1, <2>2, <2>3, Freed, Zenon
<1>15. CASE interpret_cmd
  <2>1. /\ UNCHANGED <<nulls, null_bytes>> /\ cmd_list' = cmd_list
        /\ param_list' = param_list /\ buf_stack' = buf_stack /\ buf' = buf /\ blocks' = blocks
        /\ pc = "release"
    BY <1>15 DEF interpret_cmd, lists, other, At
  <2>2. CASE saved # <<>>
    <3>1. CountFreed(Head(saved) + 1) /\ saved' = Tail(saved) /\ argv' = argv
      BY <1>15, <2>2 DEF interpret_cmd, free_string, free_block
    <3>2. /\ Head(saved) \in Nat
          /\ Held = Held' + (Head(saved) + 1) /\ HeldBlocks = HeldBlocks' + 1
      <4>1. WordsShrunk(cmd_list, param_list, buf_stack, buf, argv, saved, blocks)
        BY <1>1, <2>2, WordsShrink DEF HeldTyped
      <4>2. QED
        BY <1>1, <2>1, <3>1, <4>1, Zenon DEF HeldTyped, WordsShrunk
    <3>3. Head(saved) + 1 \in Nat
      BY <3>2
    <3>4. QED
      BY <1>2, <2>1, <3>1, <3>2, <3>3, Freed, Zenon
  <2>3. CASE saved = <<>>
    <3>1. CountFreed(argc * PtrSize) /\ saved' = saved /\ argv' = None
      BY <1>15, <2>3 DEF interpret_cmd, free_block
    <3>2. argv = argc /\ argc \in Nat
      BY <1>1, <2>1 DEF Shape, HeldTyped
    <3>3. Held = Held' + argc * PtrSize /\ HeldBlocks = HeldBlocks' + 1
      <4>1. ParsedGrown(cmd_list, param_list, buf_stack, buf, argv, saved, blocks, argc)
        BY <1>1, <3>2, ParsedGrows DEF HeldTyped
      <4>2. QED
        BY <1>1, <2>1, <3>1, <3>2, <4>1, Zenon DEF HeldTyped, ParsedGrown
    <3>4. argc * PtrSize \in Nat
      BY <3>2, Sizes
    <3>5. QED
      BY <1>2, <2>1, <3>1, <3>3, <3>4, Freed, Zenon
  <2>4. QED
    BY <2>2, <2>3
<1>16. CASE Nothing
  BY <1>16, <1>3 DEF Nothing, console, lists, parsed, other, Executing, counters, reportVars
<1>17. CASE Unknown
  BY <1>17, <1>3 DEF Unknown, console, lists, parsed, other, Executing, counters, reportVars
<1>18. CASE do_option_cmd
  BY <1>18, <1>3 DEF do_option_cmd, console, lists, parsed, other, Executing, counters,
     reportVars
<1>19. CASE do_log_cmd
  BY <1>19, <1>3 DEF do_log_cmd, console, lists, parsed, other, Executing, counters, reportVars
<1>20. CASE do_source_cmd
  BY <1>20, <1>3 DEF do_source_cmd, console, lists, parsed, other, Executing, counters,
     reportVars
<1>21. CASE queue_cmd
  BY <1>21, <1>3 DEF queue_cmd, console, lists, parsed, other, Executing, counters, reportVars
<1>22. CASE Quits
  BY <1>22, <1>3 DEF Quits, console, lists, parsed, other, Executing, counters, reportVars
<1>23. CASE do_quit_cmd
  <2>1. CASE cmd_list > 0
    <3>1. /\ CountFreed(CmdSize) /\ UNCHANGED <<nulls, null_bytes>>
          /\ cmd_list' = cmd_list - 1 /\ param_list' = param_list /\ buf_stack' = buf_stack
          /\ buf' = buf /\ argv' = argv /\ saved' = saved /\ blocks' = blocks
      BY <1>23, <2>1 DEF do_quit_cmd, free_block, pop_file, console, lists, parsed, other
    <3>2. cmd_list = cmd_list' + 1
      BY <1>1, <3>1 DEF HeldTyped
    <3>3. Held = Held' + CmdSize /\ HeldBlocks = HeldBlocks' + 1
      BY <1>1, <3>1, <3>2 DEF HeldTyped, ListsGrown
    <3>4. CmdSize \in Nat
      BY Sizes
    <3>5. QED
      BY <1>2, <3>1, <3>3, <3>4, Freed, Zenon
  <2>2. CASE cmd_list = 0 /\ param_list > 0
    <3>1. /\ CountFreed(ParamSize) /\ UNCHANGED <<nulls, null_bytes>>
          /\ param_list' = param_list - 1 /\ cmd_list' = cmd_list /\ buf_stack' = buf_stack
          /\ buf' = buf /\ argv' = argv /\ saved' = saved /\ blocks' = blocks
      BY <1>23, <2>2 DEF do_quit_cmd, free_block, pop_file, console, lists, parsed, other
    <3>2. param_list = param_list' + 1
      BY <1>1, <3>1 DEF HeldTyped
    <3>3. Held = Held' + ParamSize /\ HeldBlocks = HeldBlocks' + 1
      BY <1>1, <3>1, <3>2 DEF HeldTyped, ListsGrown
    <3>4. ParamSize \in Nat
      BY Sizes
    <3>5. QED
      BY <1>2, <3>1, <3>3, <3>4, Freed, Zenon
  <2>3. CASE cmd_list = 0 /\ param_list = 0 /\ buf_stack > 0
    <3>1. /\ CountFreed(RioSize) /\ UNCHANGED <<nulls, null_bytes>>
          /\ buf_stack' = buf_stack - 1 /\ cmd_list' = cmd_list /\ param_list' = param_list
          /\ buf' = buf /\ argv' = argv /\ saved' = saved /\ blocks' = blocks
      BY <1>23, <2>3 DEF do_quit_cmd, free_block, pop_file, console, lists, parsed, other
    <3>2. buf_stack = buf_stack' + 1
      BY <1>1, <3>1 DEF HeldTyped
    <3>3. Held = Held' + RioSize /\ HeldBlocks = HeldBlocks' + 1
      BY <1>1, <3>1, <3>2 DEF HeldTyped, ListsGrown
    <3>4. RioSize \in Nat
      BY Sizes
    <3>5. QED
      BY <1>2, <3>1, <3>3, <3>4, Freed, Zenon
  <2>4. CASE cmd_list = 0 /\ param_list = 0 /\ buf_stack = 0
    BY <1>23, <1>3, <2>4 DEF do_quit_cmd, free_block, parsed, other
  <2>5. QED
    BY <2>1, <2>2, <2>3, <2>4, <1>23 DEF do_quit_cmd
<1>24. CASE \E n \in BlockSizes : Take(n)
  <2>1. PICK n \in BlockSizes : Take(n)
    BY <1>24
  <2>2. /\ Addressable' /\ UNCHANGED <<nulls, null_bytes>> /\ cmd_list' = cmd_list
        /\ param_list' = param_list /\ buf_stack' = buf_stack /\ buf' = buf /\ argv' = argv /\ saved' = saved
    BY <2>1 DEF Take, Calling, lists, parsed
  <2>3. n \in Nat
    BY AccountsAssumption
  <2>4. CASE malloc_or_fail(n) /\ blocks' = Append(blocks, n)
    <3>1. /\ blocks \in Seq(Nat) /\ Append(blocks, n) \in Seq(Nat)
          /\ Len(Append(blocks, n)) = Len(blocks) + 1
          /\ Total(Append(blocks, n)) = Total(blocks) + n
      BY <1>1, <2>3, TotalAppend DEF HeldTyped
    <3>2. Held' = Held + n /\ HeldBlocks' = HeldBlocks + 1
      <4>1. n \in Int /\ 1 \in Int
        BY <2>3
      <4>2. BlocksChanged(cmd_list, param_list, buf_stack, buf, argv, saved, blocks, Append(blocks, n), n, 1)
        BY <1>1, <3>1, <4>1, BlocksChange DEF HeldTyped
      <4>3. QED
        BY <1>1, <2>2, <2>4, <4>2, Zenon DEF HeldTyped, BlocksChanged
    <3>3. QED
      BY <1>2, <2>2, <2>3, <2>4, <3>2, Mallocs, Zenon DEF Kept
  <2>5. CASE Refused(n) /\ blocks' = blocks
    BY <1>3, <2>2, <2>5 DEF Refused, lists, parsed
  <2>6. QED
    BY <2>1, <2>4, <2>5 DEF Take
<1>25. CASE \E n \in BlockSizes : ResizeNull(n)
  <2>1. PICK n \in BlockSizes : ResizeNull(n)
    BY <1>25
  <2>2. /\ Addressable' /\ nulls' = nulls + 1 /\ null_bytes' = null_bytes
        /\ realloc_or_fail(0, n) /\ blocks' = Append(blocks, n)
        /\ cmd_list' = cmd_list /\ param_list' = param_list /\ buf_stack' = buf_stack
        /\ buf' = buf /\ argv' = argv /\ saved' = saved
    BY <2>1 DEF ResizeNull, Calling, lists, parsed
  <2>3. n \in Nat /\ n - 0 = n /\ 0 \in Nat /\ 1 \in {0, 1}
    BY AccountsAssumption
  <2>4. /\ blocks \in Seq(Nat) /\ Append(blocks, n) \in Seq(Nat)
        /\ Len(Append(blocks, n)) = Len(blocks) + 1
        /\ Total(Append(blocks, n)) = Total(blocks) + n
    BY <1>1, <2>3, TotalAppend DEF HeldTyped
  <2>5. Held' = Held + n /\ HeldBlocks' = HeldBlocks + 1
    <3>1. n \in Int /\ 1 \in Int
      BY <2>3
    <3>2. BlocksChanged(cmd_list, param_list, buf_stack, buf, argv, saved, blocks, Append(blocks, n), n, 1)
      BY <1>1, <2>4, <3>1, BlocksChange DEF HeldTyped
    <3>3. QED
      BY <1>1, <2>2, <3>2, Zenon DEF HeldTyped, BlocksChanged
  <2>6. Held' = Held + (n - 0)
    BY <2>3, <2>5, Zenon
  <2>7. QED
    BY <1>2, <2>2, <2>3, <2>5, <2>6, Resizes, Zenon DEF Kept
<1>26. CASE \E n \in BlockSizes : GiveBackNull(n)
  <2>1. PICK n \in BlockSizes : GiveBackNull(n)
    BY <1>26
  <2>2. /\ CountFreed(n) /\ nulls' = nulls + 1 /\ null_bytes' = null_bytes + n
        /\ cmd_list' = cmd_list /\ param_list' = param_list /\ buf_stack' = buf_stack
        /\ buf' = buf /\ argv' = argv /\ saved' = saved /\ blocks' = blocks
    BY <2>1 DEF GiveBackNull, Calling, free_null, lists, parsed
  <2>3. n \in Nat /\ 1 * n = n /\ 1 \in {0, 1}
    BY AccountsAssumption
  <2>4. Held' = Held /\ HeldBlocks' = HeldBlocks
    BY <1>1, <2>2, Zenon DEF HeldTyped
  <2>5. Held' = Held - n + n /\ HeldBlocks' = HeldBlocks - 1 + 1
    BY <1>2, <2>3, <2>4
  <2>6. Held' = Held - n + 1 * n /\ null_bytes' = null_bytes + 1 * n
    BY <2>2, <2>3, <2>5, Zenon
  <2>7. QED
    BY <1>2, <2>2, <2>3, <2>5, <2>6, Frees, Zenon DEF Kept
<1>27. CASE \E k \in DOMAIN blocks : GiveBack(k)
  <2>1. PICK k \in DOMAIN blocks : GiveBack(k)
    BY <1>27
  <2>2. /\ CountFreed(blocks[k]) /\ UNCHANGED <<nulls, null_bytes>>
        /\ blocks' = RemoveAt(blocks, k) /\ cmd_list' = cmd_list /\ param_list' = param_list
        /\ buf_stack' = buf_stack /\ buf' = buf /\ argv' = argv /\ saved' = saved
    BY <2>1 DEF GiveBack, free_block, Calling, lists, parsed
  <2>3. blocks \in Seq(Nat) /\ k \in 1..Len(blocks) /\ Len(blocks) \in Nat /\ blocks[k] \in Nat
    BY <1>1, LenProperties, ElementOfSeq DEF HeldTyped
  <2> DEFINE x == blocks[k]
  <2>4. /\ blocks' \in Seq(Nat) /\ Len(blocks') = Len(blocks) - 1
        /\ Total(blocks') = Total(blocks) - x /\ Total(blocks) \in Nat
    BY <2>2, <2>3, TotalRemoveAt, TotalNat
  <2>5. x \in Nat
    BY <2>3
  <2> HIDE DEF x
  <2>6. Total(blocks') = Total(blocks) + (0 - x) /\ Len(blocks') = Len(blocks) + (0 - 1)
    BY <2>3, <2>4, <2>5
  <2>7. 0 - x \in Int /\ 0 - 1 \in Int
    BY <2>5
  <2>8. Held' = Held + (0 - x) /\ HeldBlocks' = HeldBlocks + (0 - 1)
    <3>1. BlocksChanged(cmd_list, param_list, buf_stack, buf, argv, saved, blocks, blocks', 0 - x, 0 - 1)
      BY <1>1, <2>4, <2>6, <2>7, BlocksChange DEF HeldTyped
    <3>2. QED
      BY <1>1, <2>2, <3>1, Zenon DEF HeldTyped, BlocksChanged
  <2>9. Held = Held' + x /\ HeldBlocks = HeldBlocks' + 1
    BY <1>2, <2>5, <2>8
  <2>10. QED
    BY <1>2, <2>2, <2>5, <2>9, Freed, Zenon DEF x
<1>28. CASE \E k \in DOMAIN blocks : \E n \in BlockSizes : Resize(k, n)
  <2>1. PICK k \in DOMAIN blocks, n \in BlockSizes : Resize(k, n)
    BY <1>28
  <2> DEFINE x == blocks[k]
  <2>2. /\ Addressable' /\ UNCHANGED <<nulls, null_bytes>> /\ cmd_list' = cmd_list
        /\ param_list' = param_list /\ buf_stack' = buf_stack /\ buf' = buf /\ argv' = argv /\ saved' = saved
    BY <2>1 DEF Resize, Calling, lists, parsed
  <2>3. /\ blocks \in Seq(Nat) /\ k \in 1..Len(blocks) /\ Len(blocks) \in Nat /\ x \in Nat
        /\ n \in Nat
    BY <1>1, LenProperties, ElementOfSeq, AccountsAssumption DEF HeldTyped
  <2>4. CASE realloc_or_fail(x, n) /\ blocks' = [blocks EXCEPT ![k] = n]
    <3>1. /\ blocks' \in Seq(Nat) /\ Len(blocks') = Len(blocks)
          /\ Total(blocks') = Total(blocks) - x + n /\ Total(blocks) \in Nat
      <4>1. Nat \in SUBSET Nat
        OBVIOUS
      <4>2. /\ [blocks EXCEPT ![k] = n] \in Seq(Nat) /\ Len([blocks EXCEPT ![k] = n]) = Len(blocks)
            /\ Total([blocks EXCEPT ![k] = n]) = Total(blocks) - blocks[k] + n
        BY <2>3, <4>1, TotalExcept, Zenon
      <4>3. Total(blocks) \in Nat
        BY <2>3, TotalNat, Zenon
      <4>4. QED
        BY <2>4, <4>2, <4>3, Zenon
    <3> HIDE DEF x
    <3>2. Total(blocks') = Total(blocks) + (n - x) /\ Len(blocks') = Len(blocks) + 0
      BY <2>3, <3>1
    <3>3. n - x \in Int /\ 0 \in Int
      BY <2>3
    <3>4. Held' = Held + (n - x) /\ HeldBlocks' = HeldBlocks + 0
      <4>1. BlocksChanged(cmd_list, param_list, buf_stack, buf, argv, saved, blocks, blocks', n - x, 0)
        BY <1>1, <3>1, <3>2, <3>3, BlocksChange DEF HeldTyped
      <4>2. QED
        BY <1>1, <2>2, <4>1, Zenon DEF HeldTyped, BlocksChanged
    <3>5. nulls' = nulls + 0 /\ null_bytes' = null_bytes /\ 0 \in {0, 1}
      <4>1. nulls \in Nat /\ nulls' = nulls /\ null_bytes' = null_bytes
        BY <2>2 DEF TypeOK
      <4>2. \A y \in Nat : y + 0 = y
        OBVIOUS
      <4>3. 0 \in {0, 1}
        OBVIOUS
      <4>4. QED
        BY <4>1, <4>2, <4>3, Zenon
    <3>6. QED
      BY <1>2, <2>2, <2>3, <2>4, <3>4, <3>5, Resizes, Zenon DEF Kept
  <2>5. CASE UNCHANGED counters /\ blocks' = blocks
    BY <1>3, <2>2, <2>5 DEF lists, parsed
  <2>6. QED
    BY <2>1, <2>4, <2>5 DEF Resize, Refused
<1>29. CASE ForgetPeak
  <2>1. /\ last_peak_bytes' = current_bytes
       
        /\ UNCHANGED <<allocate_cnt, allocate_bytes, free_cnt, free_bytes, peak_bytes, current_bytes>>
        /\ UNCHANGED <<nulls, null_bytes>> /\ cmd_list' = cmd_list
        /\ param_list' = param_list /\ buf_stack' = buf_stack /\ buf' = buf /\ argv' = argv /\ saved' = saved /\ blocks' = blocks
    BY <1>29 DEF ForgetPeak, Calling, reset_peak_bytes, lists, parsed
  <2>2. ConsoleBytes' = ConsoleBytes /\ ConsoleBlocks' = ConsoleBlocks /\ blocks' = blocks
    BY <2>1, Zenon DEF ConsoleBytes, ConsoleBlocks
  <2>3. Addressable'
    BY <2>2, Zenon DEF Addressable
  <2>4. CountersOK'
    BY <2>1 DEF CountersOK, TypeOK
  <2>5. current_bytes \in Int /\ last_peak_bytes \in Int /\ peak_bytes \in Int
    BY ReportAssumption DEF TypeOK
  <2>6. LimitStep
    BY <2>1, <2>5 DEF LimitStep
  <2>7. null_bytes = 0 => current_bytes <= last_peak_bytes /\ last_peak_bytes <= peak_bytes
    BY Zenon DEF Balanced
  <2>8. null_bytes' = 0 => current_bytes' <= last_peak_bytes' /\ last_peak_bytes' <= peak_bytes'
    BY <2>1, <2>5, <2>7
  <2>9. Balanced'
    BY <2>1, <2>2, <2>8, Zenon DEF Balanced
  <2>10. QED
    BY <2>3, <2>4, <2>6, <2>9 DEF Kept
<1>30. CASE Ended
  BY <1>30, <1>3 DEF Ended, console, lists, parsed, other, vars, reportVars
<1>31. CASE Prints
  BY <1>31, <1>3 DEF Prints, lists, parsed, other
<1>32. QED
  BY <1>4, <1>5, <1>6, <1>7, <1>8, <1>9, <1>10, <1>11, <1>12, <1>13, <1>14, <1>15, <1>16,
     <1>17, <1>18, <1>19, <1>20, <1>21, <1>22, <1>23, <1>24, <1>25, <1>26, <1>27, <1>28, <1>29, <1>30, <1>31 DEF Next

-----------------------------------------------------------------------------
(* The theorems.                                                           *)
LEMMA Initially == Init => IInv
<1> SUFFICES ASSUME Init PROVE IInv
  OBVIOUS
<1>1. SizeMod \in Nat \ {0} /\ Total(<<>>) = 0 /\ Len(<<>>) = 0
  BY ReportAssumption, TotalEmpty, EmptySeq
<1>2. ReportTyped
  <2>1. /\ verblevel = 0 /\ mblimit \in Limits /\ logfile = 0 /\ streams = 0 /\ open = {}
        /\ status = "running"
    BY Zenon DEF Init, ReportInit
  <2>2. QED
    BY <2>1 DEF ReportTyped
<1>3. CountersOK
  BY <1>1 DEF Init, ReportInit, CountersOK
<1>4. ConsoleTyped /\ OtherTyped
  <2>1. <<>> \in Seq(Nat) /\ <<>> \in Seq(BlockSizes)
    BY EmptySeq
  <2>2. QED
    <3>1. /\ pc = "init" /\ line.words = <<>> /\ lines = 0 /\ cmd_list = 0 /\ param_list = 0
          /\ buf_stack = 0 /\ buf = None /\ argv = None /\ saved = <<>> /\ err_cnt = 0
          /\ quit_flag \in BOOLEAN /\ blocks = <<>> /\ calls = 0 /\ nulls = 0 /\ null_bytes = 0
      BY DEF Init
    <3>2. QED
      BY <2>1, <3>1, Sizes DEF ConsoleTyped, OtherTyped
<1>5. ConsoleBytes = 0 /\ ConsoleBlocks = 0 /\ Total(blocks) = 0 /\ Len(blocks) = 0
  <2>1. /\ cmd_list = 0 /\ param_list = 0 /\ buf_stack = 0 /\ buf = None /\ argv = None
        /\ saved = <<>> /\ blocks = <<>>
    BY DEF Init
  <2>2. Present(buf) = 0 /\ Present(argv) = 0 /\ None \in Int
    BY <2>1 DEF Present, None
  <2>3. QED
    BY <1>1, <2>1, <2>2, Sizes DEF ConsoleBytes, ConsoleBlocks
<1>6. Addressable
  BY <1>1, <1>5 DEF Addressable
<1>7. Balanced
  <2>1. 0 % SizeMod = 0
    BY <1>1, ModSmall
  <2>2. QED
    BY <1>5, <2>1 DEF Balanced, Init, ReportInit
<1>8. Shape /\ Quitting /\ Errors
  BY <1>1 DEF Init, Shape, Quitting, Errors, None
<1>9. QED
  BY <1>2, <1>3, <1>4, <1>6, <1>7, <1>8, TypeParts DEF IInv

LEMMA StepKept ==
  ASSUME IInv, Next
  PROVE  IInv' /\ LimitStep
<1>1. /\ TypeOK /\ Addressable /\ Balanced /\ Shape /\ Quitting /\ Errors
      /\ ReportTyped /\ ConsoleTyped /\ OtherTyped
  BY TypeParts, Zenon DEF IInv
<1>2. Shape' /\ Quitting' /\ Errors'
  BY <1>1, ShapeKept, QuittingKept, ErrorsKept, Zenon
<1>3. ReportTyped'
  BY <1>1, ReportKept, Zenon
<1>4. ConsoleTyped' /\ OtherTyped'
  BY <1>1, <1>2, ConsoleTypedKept, OtherTypedKept, Zenon
<1>5. Kept
  BY <1>1, <1>4, CountersKept, Zenon
<1>6. QED
  BY <1>2, <1>3, <1>4, <1>5, TypeParts, Zenon DEF IInv, Kept

LEMMA StutterKept ==
  ASSUME IInv, UNCHANGED vars
  PROVE  IInv' /\ LimitStep
<1>1. /\ UNCHANGED reportVars /\ pc' = pc /\ UNCHANGED console /\ UNCHANGED lists
      /\ UNCHANGED parsed /\ UNCHANGED other
  BY DEF vars
<1>2. /\ UNCHANGED <<counters, lists, parsed, blocks, nulls, null_bytes>>
  BY <1>1 DEF reportVars, other
<1>3. TypeOK /\ Addressable /\ Balanced /\ ReportTyped /\ ConsoleTyped /\ OtherTyped
  BY TypeParts, Zenon DEF IInv
<1>4. Kept
  BY <1>2, <1>3, NothingCounted DEF lists, parsed
<1>5. ReportTyped'
  BY <1>1, <1>3, ReportQuiet DEF IInv, Quiet, reportVars, settings
<1>6. ConsoleTyped' /\ OtherTyped'
  BY <1>1, <1>3 DEF ConsoleTyped, OtherTyped, console, lists, parsed, other
<1>7. Shape' /\ Quitting' /\ Errors'
  BY <1>1 DEF IInv, Shape, Quitting, Errors, argc, console, lists, parsed
<1>8. QED
  BY <1>4, <1>5, <1>6, <1>7, TypeParts, Zenon DEF IInv, Kept

THEOREM InvariantKept == Spec => []IInv
<1>1. Init => IInv
  BY Initially
<1>2. IInv /\ [Next]_vars => IInv'
  BY StepKept, StutterKept
<1>3. QED
  BY <1>1, <1>2, PTL DEF Spec

(* The variables of the console, of the other caller and of report.c keep  *)
(* their types; no counter leaves the range of a size_t.                   *)
THEOREM TypeCorrect == Spec => []TypeOK
<1>1. IInv => TypeOK
  BY DEF IInv
<1>2. QED
  BY <1>1, InvariantKept, PTL

(* The counters of report.c say what the callers hold, in bytes and in     *)
(* blocks, for every width of a size_t and through every command, although *)
(* each free computes the size anew; only null pointers that were freed    *)
(* are counted too much, and until one was the peaks are at least what is  *)
(* held.                                                                   *)
THEOREM CountersBalanced == Spec => []Balanced
<1>1. IInv => Balanced
  BY DEF IInv
<1>2. QED
  BY <1>1, InvariantKept, PTL

(* A console that quits, by the command or at the end of its input, has    *)
(* given back every command, parameter, file and word it took.             *)
THEOREM ConsoleGivesBack == Spec => []NothingLeft
<1>1. IInv => NothingLeft
  <2>1. SUFFICES ASSUME IInv, pc = "end", quit_flag, err_cnt < ErrorLimit
                 PROVE  ConsoleBlocks = 0 /\ ConsoleBytes = 0
    BY DEF NothingLeft
  <2>2. cmd_list = 0 /\ param_list = 0 /\ buf_stack = 0
    BY <2>1 DEF IInv, Quitting
  <2>3. buf = None /\ argv = None /\ saved = <<>>
    BY <2>1 DEF IInv, Shape
  <2>4. Present(buf) = 0 /\ Present(argv) = 0 /\ None \in Int
    BY <2>3 DEF Present, None
  <2>5. Total(<<>>) = 0 /\ Len(<<>>) = 0
    BY TotalEmpty, EmptySeq
  <2>6. QED
    BY <2>2, <2>3, <2>4, <2>5, Sizes DEF ConsoleBytes, ConsoleBlocks
<1>2. QED
  BY <1>1, InvariantKept, PTL

(* No call takes memory beyond mblimit while the verbosity is not negative *)
(* and no null pointer was freed, wherever the sums of check_exceed wrap.  *)
THEOREM NothingBeyondTheLimit == Spec => LimitKept
<1>1. IInv /\ [Next]_vars => [LimitStep]_vars
  BY StepKept, StutterKept
<1>2. Spec => [][LimitStep]_vars
  BY <1>1, InvariantKept, PTL DEF Spec
<1>3. QED
  BY <1>2, PTL DEF LimitKept, LimitStep
=============================================================================
