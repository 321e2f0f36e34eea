------------------------------ MODULE MCSteque ------------------------------
(* Instances of Steque for TLC.                                            *)
EXTENDS Steque
=============================================================================
