---------------------------- MODULE MovingMedian ----------------------------
(***************************************************************************)
(* The moving median (mmedian.c): the samples in a ring, and the indices   *)
(* of the ring sorted by the value of their sample.  Both arrays keep      *)
(* stale entries beyond cnt, in particular after a reset.  Samples are     *)
(* signed words, and their sums wrap around (tmv_add).                     *)
(***************************************************************************)
EXTENDS FilterLength

CONSTANT Modulus    \* values of a word, 2^64 in the code

VARIABLES cnt, index, order, samples, output

\* mmedian_create(): calloc() zeroes both arrays
Init ==
    /\ cnt = 0 /\ index = 0
    /\ order = [k \in Slots |-> 0]
    /\ samples = [k \in Slots |-> 0]
    /\ output = 0

\* Mutant: the replaced slot stays in `order'
RemovedNothing == order

\* `order' without the slot that is about to be written, once the ring is
\* full: the entries behind it move up
Removed ==
    IF cnt < Length THEN order
    ELSE LET found == {k \in Slots : order[k] = index}
             moves(k) == \E f \in found : f <= k
         IN  [k \in Slots |-> IF moves(k) /\ k + 1 < cnt
                              THEN order[k + 1] ELSE order[k]]

\* `kept' with `slot' inserted among its first n - 1 entries, in front of the
\* larger samples at the end
Inserted(kept, vals, slot, n) ==
    LET larger(p) == \A j \in p .. n - 2 : vals[kept[j]] > vals[slot]
        place     == CHOOSE p \in 0 .. n - 1 :
                         larger(p) /\ \A q \in 0 .. p - 1 : ~larger(q)
    IN  [k \in Slots |-> IF k = place THEN slot
                         ELSE IF place < k /\ k < n THEN kept[k - 1]
                         ELSE kept[k]]

\* Mutant: of an even number of samples the two above the middle
MiddleTooHigh(ord, vals, n) ==
    IF n % 2 = 1
    THEN vals[ord[n \div 2]]
    ELSE TmvDiv(WrapTo(Modulus, vals[ord[n \div 2]]
                                  + vals[ord[(n \div 2 + 1) % Length]]), 2)

\* The sample in the middle, or half the sum of the two in the middle
MiddleOf(ord, vals, n) ==
    IF n % 2 = 1
    THEN vals[ord[n \div 2]]
    ELSE TmvDiv(WrapTo(Modulus, vals[ord[n \div 2 - 1]] + vals[ord[n \div 2]]), 2)

\* Mutant: the index runs past the end of the ring
SampleNoWrap(v) ==
    /\ samples' = [samples EXCEPT ![index] = v]
    /\ cnt' = IF cnt < Length THEN cnt + 1 ELSE cnt
    /\ order' = Inserted(Removed, samples', index, cnt')
    /\ index' = 1 + index
    /\ output' = MiddleOf(order', samples', cnt')

\* mmedian_sample()
Sample(v) ==
    /\ samples' = [samples EXCEPT ![index] = v]
    /\ cnt' = IF cnt < Length THEN cnt + 1 ELSE cnt
    /\ order' = Inserted(Removed, samples', index, cnt')
    /\ index' = (1 + index) % Length
    /\ output' = MiddleOf(order', samples', cnt')

\* mmedian_reset()
Reset ==
    /\ cnt' = 0 /\ index' = 0
    /\ UNCHANGED <<order, samples, output>>

-----------------------------------------------------------------------------
(* The domain of the state. *)
TypeOK ==
    /\ cnt \in 0 .. Length
    /\ index \in Slots
    /\ order \in [Slots -> Slots]
    /\ samples \in [Slots -> Int]
    /\ output \in Int

(***************************************************************************)
(* Every slot in use occurs once among the first cnt entries of `order',   *)
(* and they are sorted by value; a search for the slot to be replaced can  *)
(* therefore not run past the end (mmedian.c:47).                          *)
(***************************************************************************)
OrderIsSorted ==
    /\ {order[k] : k \in 0 .. cnt - 1} = 0 .. cnt - 1
    /\ \A k \in 1 .. cnt - 1 : samples[order[k - 1]] <= samples[order[k]]

=============================================================================
