------------------------------ MODULE MCFetch --------------------------------
(***************************************************************************)
(* Instances of Fetch for TLC: a client that asks twice, and one that asks *)
(* once.                                                                   *)
(***************************************************************************)
EXTENDS Fetch, TLC

CONSTANTS c1, c2, c3, p1, m1, m2

MCCalls == {c1, c2, c3}
MCMains == {m1, m2}
OnePath == {p1}
SamePath == [c \in Calls |-> p1]
MCRequestsOf == m1 :> <<c1, c2>> @@ m2 :> <<c3>>
=============================================================================
