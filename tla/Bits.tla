--------------------------------- MODULE Bits ---------------------------------
(***************************************************************************)
(* The puzzles of bits.c and their references in tests.c, on words of any  *)
(* width W = 2^K, with C's operators on int:                               *)
(*     ~x   is -x - 1          x >> k  is x \div 2^k (floor: arithmetic)   *)
(*     x & y, x | y, x ^ y     on the sets of the bits that are one        *)
(*     x + y, x << k           wrap around; what the Makefile's -O1 makes  *)
(* of an overflow, which is undefined, differs in isLessOrEqual only: all  *)
(* the other puzzles give for every int what an unoptimised build gives.   *)
(* The constants 31, 16, 8, 4, 2, 1 and 0xAA.. of the code become those of *)
(* a word of W bits; floats have E exponent bits (8 in the code, K is 5).  *)
(***************************************************************************)
EXTENDS Integers

CONSTANTS
  K,  \* the width is 2^K
  E   \* the width of the exponent of a float

ASSUME WidthAssumption == K \in Nat /\ E \in Nat /\ K >= 3 /\ E >= 2 /\ E < 2^K - 2

W == 2^K
TMin == -(2^(W-1))
TMax == 2^(W-1) - 1
Word == TMin..TMax

Wrap(n) == ((n - TMin) % 2^W) + TMin
Not(x) == -x - 1
ShiftRight(x, k) == x \div 2^k
ShiftLeft(x, k) == Wrap(x * 2^k)
Bang(x) == IF x = 0 THEN 1 ELSE 0

BitsOf(x) == {k \in 0..W-1 : ShiftRight(x, k) % 2 = 1}
WordOf(S) ==
  LET weight(k) == IF k = W-1 THEN TMin ELSE 2^k
      sum[n \in 0..W] ==
        IF n = 0 THEN 0 ELSE sum[n-1] + (IF n-1 \in S THEN weight(n-1) ELSE 0)
  IN  sum[W]
And(x, y) == WordOf(BitsOf(x) \cap BitsOf(y))
Or(x, y) == WordOf(BitsOf(x) \cup BitsOf(y))
Xor(x, y) == WordOf((BitsOf(x) \cup BitsOf(y)) \ (BitsOf(x) \cap BitsOf(y)))

(***************************************************************************)
(* The puzzles.                                                            *)
(***************************************************************************)
bitXor(x, y) == And(Not(And(Not(x), Not(y))), Not(And(x, y)))

tmin == ShiftLeft(1, W-1)

(* Mutant: -1, whose successor is 0 too, is not told apart.                *)
isTmaxOrMinusOne(x) ==
  Bang(Not(Wrap(x + Wrap(x + 1))))

isTmax(x) ==
  LET plusOne == Wrap(x + 1)
  IN  Bang(Or(Not(Wrap(x + plusOne)), Bang(plusOne)))

maybeCheating == WordOf({k \in 0..W-1 : k % 2 = 1})

allOddBits(x) == Bang(Xor(And(x, maybeCheating), maybeCheating))

negate(x) == Wrap(Not(x) + 1)

isAsciiDigit(x) ==
  LET sign == ShiftLeft(1, W-1)
      upperBound == Not(Or(sign, 57))
      lowerBound == Not(48)
      above == And(sign, ShiftRight(Wrap(upperBound + x), W-1))
      below == And(sign, ShiftRight(Wrap(lowerBound + 1 + x), W-1))
  IN  Bang(Or(above, below))

conditional(x, y, z) ==
  LET mask == ShiftRight(ShiftLeft(Bang(x), W-1), W-1)
  IN  Or(And(Not(mask), y), And(mask, z))

(* Overflow of a signed int is undefined.  Built without optimisation the  *)
(* difference wraps; with the Makefile's -O1 gcc compares the operands,    *)
(* which is the sign of the exact difference.                              *)
isLessOrEqual(x, y, wraps) ==
  LET difference == y + Not(x) + 1
  IN  IF (IF wraps THEN Wrap(difference) ELSE difference) < 0 THEN 0 ELSE 1

logicalNeg(x) ==
  Or(ShiftRight(x, W-1), ShiftRight(Wrap(Not(x) + 1), W-1)) + 1

howManyBits(x) ==
  LET folded == Xor(x, ShiftRight(x, W-1))
      width(j) == W \div 2^j
      n[j \in 0..K] ==
        IF j = 0 THEN 0
        ELSE n[j-1] + (IF ShiftRight(folded, n[j-1] + width(j)) # 0 THEN width(j) ELSE 0)
  IN  n[K] + Bang(Bang(n[K])) + Bang(Xor(1, folded)) + 1

floatStub == 2

(***************************************************************************)
(* The references.                                                         *)
(***************************************************************************)
F == W - 1 - E              \* the width of a float's fraction
Bias == 2^(E-1) - 1
Inf == (2^E - 1) * 2^F
Magnitude(u) == u % 2^(W-1)
SignOf(u) == IF u < 0 THEN TMin ELSE 0
IsNan(u) == Magnitude(u) > Inf

Abs(x) == IF x < 0 THEN -x ELSE x
TopBit(n) == CHOOSE k \in 0..W-1 : 2^k <= n /\ n < 2^(k+1)

test_bitXor(x, y) ==
  WordOf({k \in 0..W-1 : ShiftRight(x, k) % 2 # ShiftRight(y, k) % 2})
test_tmin == TMin
test_isTmax(x) == IF x = TMax THEN 1 ELSE 0
test_allOddBits(x) ==
  IF \A i \in 0..W-1 : i % 2 = 1 => And(x, ShiftLeft(1, i)) # 0 THEN 1 ELSE 0
test_negate(x) == Wrap(-x)
test_isAsciiDigit(x) == IF 48 <= x /\ x <= 57 THEN 1 ELSE 0
test_conditional(x, y, z) == IF x # 0 THEN y ELSE z
test_isLessOrEqual(x, y) == IF x <= y THEN 1 ELSE 0
test_logicalNeg(x) == Bang(x)
test_howManyBits(x) ==
  LET a == IF x < 0 THEN -x - 1 ELSE x
  IN  IF a = 0 THEN 1 ELSE TopBit(a) + 2

test_float_twice(u) ==
  LET m == Magnitude(u)
      twice == IF m < 2^F THEN 2 * m ELSE IF m + 2^F < Inf THEN m + 2^F ELSE Inf
  IN  IF IsNan(u) THEN u ELSE SignOf(u) + twice

(* The nearest float, and of two as near the even one.                     *)
test_float_i2f(x) ==
  LET top == TopBit(Abs(x))
      unit == IF top > F THEN 2^(top - F) ELSE 1
      kept == IF top > F THEN Abs(x) \div unit ELSE Abs(x) * 2^(F - top)
      rest == Abs(x) % unit
      up == IF 2 * rest > unit \/ (2 * rest = unit /\ kept % 2 = 1) THEN 1 ELSE 0
  IN  IF x = 0 THEN 0 ELSE SignOf(x) + (top + Bias) * 2^F + (kept + up - 2^F)

(* The conversion instruction gives TMin for what no int holds.            *)
test_float_f2i(u) ==
  LET exponent == Magnitude(u) \div 2^F - Bias
      whole == ((2^F + (Magnitude(u) % 2^F)) * 2^exponent) \div 2^F
  IN  IF exponent >= W-1 THEN TMin
      ELSE IF exponent < 0 THEN 0
      ELSE IF u < 0 THEN -whole ELSE whole
=============================================================================
