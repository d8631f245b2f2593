-------------------------- MODULE FilterEstimates ---------------------------
(***************************************************************************)
(* Reference definitions of the two estimates of a window of samples, the  *)
(* mean and the median, both with sums that may wrap around in 64 bits.    *)
(***************************************************************************)
EXTENDS Tmv, Sequences, FiniteSets, SequencesExt

\* The sum of the samples
Total(w) ==
    LET sums[n \in 0 .. Len(w)] == IF n = 0 THEN 0 ELSE sums[n - 1] + w[n]
    IN  sums[Len(w)]

\* The mean, with C's division, of the samples' sum in a word of `modulus'
\* values
Mean(modulus, w) == TmvDiv(WrapTo(modulus, Total(w)), Len(w))

\* The k-th smallest sample
Smallest(w, k) ==
    CHOOSE x \in ToSet(w) :
        /\ Cardinality({i \in DOMAIN w : w[i] < x}) < k
        /\ Cardinality({i \in DOMAIN w : w[i] <= x}) >= k

\* The middle one, or half the sum, in such a word, of the two in the middle
Median(modulus, w) ==
    LET n == Len(w)
    IN  IF n % 2 = 1
        THEN Smallest(w, (n + 1) \div 2)
        ELSE TmvDiv(WrapTo(modulus, Smallest(w, n \div 2)
                                      + Smallest(w, n \div 2 + 1)), 2)
=============================================================================
