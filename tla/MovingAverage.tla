--------------------------- MODULE MovingAverage ----------------------------
(***************************************************************************)
(* The moving average (mave.c): a ring of samples and their running sum,   *)
(* from which the sample that falls out is subtracted.  Samples and sum    *)
(* are signed words that wrap around (tmv_add, tmv_sub).                   *)
(***************************************************************************)
EXTENDS FilterLength

CONSTANT Modulus    \* values of a word, 2^64 in the code

VARIABLES cnt, index, sum, val, output

\* mave_create()
Init ==
    /\ cnt = 0 /\ index = 0 /\ sum = 0
    /\ val = [k \in Slots |-> 0]
    /\ output = 0

\* mave_accumulate()
Accumulate(v) ==
    /\ sum' = WrapTo(Modulus, WrapTo(Modulus, sum - val[index]) + v)
    /\ val' = [val EXCEPT ![index] = v]
    /\ index' = (1 + index) % Length
    /\ cnt' = IF cnt < Length THEN cnt + 1 ELSE cnt
    /\ output' = TmvDiv(sum', cnt')

\* Mutant: the old samples stay in the ring
ResetKeepsValues ==
    /\ cnt' = 0 /\ index' = 0 /\ sum' = 0
    /\ UNCHANGED <<val, output>>

\* mave_reset()
Reset ==
    /\ cnt' = 0 /\ index' = 0 /\ sum' = 0
    /\ val' = [k \in Slots |-> 0]
    /\ UNCHANGED output

-----------------------------------------------------------------------------
(* The domain of the state. *)
TypeOK ==
    /\ cnt \in 0 .. Length
    /\ index \in Slots
    /\ sum \in -(Modulus \div 2) .. Modulus \div 2 - 1
    /\ val \in [Slots -> Int]
    /\ output \in Int

=============================================================================
