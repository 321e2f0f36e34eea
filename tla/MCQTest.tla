------------------------------- MODULE MCQTest -------------------------------
(* Instances of QTest for TLC.  One block of memory is as good as another. *)
EXTENDS QTest, TLC

Symmetry == Permutations(Blocks)
=============================================================================
