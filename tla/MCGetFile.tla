------------------------------ MODULE MCGetFile ------------------------------
(* Instances of GetFile for TLC: two calls, which ask for one path.        *)
EXTENDS GetFile

CONSTANTS c1, c2, p1

TwoCalls == {c1, c2}
OnePath == {p1}
SamePath == [c \in Calls |-> p1]
=============================================================================
