---------------------------- MODULE FilterLength ----------------------------
(* What the two filters share: the length of their ring. *)
EXTENDS FilterEstimates

CONSTANT Length     \* filter_length

\* mmedian_create() refuses a length below 1, mave_create() does not check it
ASSUME LengthAssumption == Length \in Nat \ {0}

Slots == 0 .. Length - 1
=============================================================================
