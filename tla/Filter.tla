------------------------------- MODULE Filter -------------------------------
(***************************************************************************)
(* The filter interface (filter.c): a struct filter is one of the two      *)
(* filters, and the calls go to the functions of that one.  The structs    *)
(* have the ring in common; sum and order are fields of one of them each.  *)
(***************************************************************************)
EXTENDS FilterLength

CONSTANTS
    Modulus,    \* values of a word, 2^64 in the code
    Values      \* the samples

ASSUME FilterAssumption ==
    /\ Modulus \in Nat \ {0} /\ Modulus % 2 = 0
    /\ Values \subseteq -(Modulus \div 2) .. Modulus \div 2 - 1

VARIABLES type, cnt, index, samples, order, sum, output

vars == <<type, cnt, index, samples, order, sum, output>>

Types == {"moving_median", "moving_average"}

Mmedian == INSTANCE MovingMedian
Mave == INSTANCE MovingAverage WITH val <- samples

\* filter_create()
Init ==
    \/ /\ type = "moving_median" /\ Mmedian!Init
       /\ sum = 0
    \/ /\ type = "moving_average" /\ Mave!Init
       /\ order = [k \in Slots |-> 0]

\* filter_sample()
Sample(v) ==
    /\ UNCHANGED type
    /\ \/ type = "moving_median" /\ Mmedian!Sample(v) /\ UNCHANGED sum
       \/ type = "moving_average" /\ Mave!Accumulate(v) /\ UNCHANGED order

\* filter_reset()
Reset ==
    /\ UNCHANGED type
    /\ \/ type = "moving_median" /\ Mmedian!Reset /\ UNCHANGED sum
       \/ type = "moving_average" /\ Mave!Reset /\ UNCHANGED order

Next == (\E v \in Values : Sample(v)) \/ Reset

Spec == Init /\ [][Next]_vars
-----------------------------------------------------------------------------
(* The domain of the state. *)
TypeOK ==
    /\ type \in Types
    /\ type = "moving_median" => Mmedian!TypeOK
    /\ type = "moving_average" => Mave!TypeOK

(***************************************************************************)
(* Every slot in use occurs once among the first cnt entries of `order',   *)
(* and they are sorted by value; a search for the slot to be replaced can  *)
(* therefore not run past the end (mmedian.c:47).                          *)
(***************************************************************************)
OrderIsSorted == type = "moving_median" => Mmedian!OrderIsSorted

\* The samples in the ring, oldest first
Aged == [k \in 1 .. cnt |-> samples[(index - cnt + k - 1 + Length) % Length]]

Estimate(filter_type, w) ==
    IF filter_type = "moving_median" THEN Median(Modulus, w) ELSE Mean(Modulus, w)

Abstract == INSTANCE FilterWindow WITH Value <- Estimate, window <- Aged

(***************************************************************************)
(* Ring and order compute the median of the latest samples, also when      *)
(* samples are equal, when the ring is full and after a reset; ring and    *)
(* running sum compute their mean: the sum neither drifts when samples     *)
(* fall out nor when it wraps around meanwhile, and a reset leaves nothing *)
(* of the old samples in it.  Both estimates add in words (mmedian.c:67,   *)
(* mave.c:41); that this does not harm the median of delays is             *)
(* HalfOnEitherSide.                                                       *)
(***************************************************************************)
EstimatesWindow == Abstract!Spec

(***************************************************************************)
(* The moving median lies in the middle: at least half of the samples of   *)
(* the ring are not above the output and at least half are not below it,   *)
(* so that no outlier moves it past its neighbours.  That is so for every  *)
(* history of delays, each of which is half of a word (tsproc.c:105); the  *)
(* sum of two greater samples wraps around (mmedian.c:67), and the output  *)
(* has the wrong sign.                                                     *)
(***************************************************************************)
Halves == -(Modulus \div 4) .. Modulus \div 4 - 1

HalfOnEitherSide ==
    type = "moving_median" /\ cnt > 0 /\ (\A i \in 1 .. cnt : Aged[i] \in Halves) =>
        /\ 2 * Cardinality({i \in 1 .. cnt : Aged[i] <= output}) >= cnt
        /\ 2 * Cardinality({i \in 1 .. cnt : Aged[i] >= output}) >= cnt
=============================================================================
