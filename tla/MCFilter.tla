------------------------------ MODULE MCFilter ------------------------------
(* Filter with a word of 4 bits, whose sums do wrap around, and equal,     *)
(* negative and odd-sum samples.                                           *)
EXTENDS Filter

MCValues == {-8, -3, 0, 1, 2, 7}
=============================================================================
