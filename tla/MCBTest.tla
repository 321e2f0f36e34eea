------------------------------- MODULE MCBTest -------------------------------
EXTENDS BTest

Text(value, float, clean) == [value |-> value, float |-> float, clean |-> clean]

(* 0, 1, 255 (an unsigned word), a number that no word holds, a float with *)
(* something after it.                                                     *)
SomeTexts == {Text(0, FALSE, TRUE), Text(1, FALSE, TRUE), Text(255, FALSE, FALSE),
              Text(256, FALSE, TRUE), Text(48, TRUE, FALSE)}
Roots == <<2, 1, 1>>
Randoms == {-30, 77}
Corners == {TMin, -1, 0, 1, 85, TMax}
SomeRatings == {-1, 2}
SomeLimits == {0}
=============================================================================
