------------------------------ MODULE MCLinreg ------------------------------
(* LinregApi with regressions of two and four points. *)
EXTENDS LinregApi

MCOffsets == {-2, 0, 6}
MCGaps == {0, 4}
MCWeights == {0, 1}
MCInitialAdjs == {0, 10}
=============================================================================
