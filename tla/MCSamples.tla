------------------------------ MODULE MCSamples ------------------------------
EXTENDS Samples

CONSTANTS c1, c2, c3

(* One of the messages is empty.                                           *)
Three == {c1, c2, c3}
ThreeLengths == c1 :> 1 @@ c2 :> 3 @@ c3 :> 0
=============================================================================
