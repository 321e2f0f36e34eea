------------------------------ MODULE MCContent ------------------------------
(***************************************************************************)
(* Instances of Content for TLC.  Of the two files, cutting the last       *)
(* character off the first gives the second: "a.jpg1" and "a.jpg".         *)
(***************************************************************************)
EXTENDS Content

MCKeys == 1 .. 3
MCFiles == {"ab", "a"}
MCCut(f) == IF f = "ab" THEN "a" ELSE "none"
=============================================================================
