--------------------------- MODULE MCGoldenImages ---------------------------
(* GoldenImages with interchangeable crons and classes.                                *)
EXTENDS GoldenImages, TLC

Symmetry == Permutations(Crons) \cup Permutations(Classes)
=============================================================================
