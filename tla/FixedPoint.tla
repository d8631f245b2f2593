----------------------------- MODULE FixedPoint -----------------------------
(***************************************************************************)
(* The doubles that multiply time values -- the weight of a sample, the    *)
(* rate ratio of the clocks -- as whole multiples of 1/One.                *)
(***************************************************************************)
EXTENDS Tmv

CONSTANT One        \* 1.0

ASSUME OneAssumption == One \in Nat \ {0}

\* x times f, without the fraction
Times(x, f) == TmvDiv(x * f, One)
=============================================================================
