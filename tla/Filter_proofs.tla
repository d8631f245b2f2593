--------------------------- MODULE Filter_proofs ---------------------------
(* Proofs about the filters, for every length and all samples. *)
EXTENDS Filter, FiniteSetTheorems, WellFoundedInduction, SequenceTheorems, TLAPS

(***************************************************************************)
(* C's division of an integer is an integer.                               *)
(***************************************************************************)
LEMMA QuotientInt ==
    ASSUME NEW a \in Int, NEW b \in Nat \ {0}
    PROVE  TmvDiv(a, b) \in Int
<1>1. \A n \in Nat : n \div b \in Nat
  OBVIOUS
<1> QED
  BY <1>1 DEF TmvDiv

(* The index moves on to the next slot, behind the last one to the first. *)
LEMMA NextSlot ==
    ASSUME NEW i \in Slots
    PROVE  (1 + i) % Length = IF 1 + i < Length THEN 1 + i ELSE 0
<1>1. Length \in Nat \ {0} /\ i \in 0 .. Length - 1
  BY LengthAssumption DEF Slots
<1>2. CASE 1 + i < Length
  BY <1>1, <1>2
<1>3. CASE 1 + i = Length
  BY <1>1, <1>3
<1> QED
  BY <1>1, <1>2, <1>3

(* A number below twice the length is wrapped by at most one subtraction. *)
LEMMA WrapOnce ==
    ASSUME NEW x \in 0 .. 2 * Length - 1
    PROVE  x % Length = IF x < Length THEN x ELSE x - Length
<1>1. Length \in Nat \ {0}
  BY LengthAssumption
<1>2. CASE x < Length
  BY <1>1, <1>2
<1>3. CASE x >= Length
  <2>1. x - Length \in 0 .. Length - 1 /\ x = 1 * Length + (x - Length)
    BY <1>1, <1>3
  <2> QED
    BY <1>1, <1>3, <2>1
<1> QED
  BY <1>1, <1>2, <1>3

(***************************************************************************)
(* A sum is an integer in its word, and itself if it fits there.           *)
(***************************************************************************)
LEMMA WordOfSum ==
    ASSUME NEW x \in Int
    PROVE  /\ WrapTo(Modulus, x) \in Int
           /\ x \in -(Modulus \div 2) .. Modulus \div 2 - 1 => WrapTo(Modulus, x) = x
<1>1. Modulus \in Nat \ {0} /\ Modulus % 2 = 0
  BY FilterAssumption
<1>2. PICK h \in Nat \ {0} : h = Modulus \div 2 /\ Modulus = 2 * h
  BY <1>1, SMTT(30)
<1>3. WrapTo(Modulus, x) = ((x + h) % (2 * h)) - h
  BY <1>2 DEF WrapTo
<1>4. (x + h) % (2 * h) \in 0 .. 2 * h - 1
  BY <1>2
<1>5. ASSUME NEW m \in Nat, m < 2 * h
      PROVE  m % (2 * h) = m
  BY <1>2, <1>5
<1>6. ASSUME x \in -h .. h - 1
      PROVE  WrapTo(Modulus, x) = x
  <2>1. x + h \in Nat /\ x + h < 2 * h
    BY <1>2, <1>6
  <2>2. (x + h) % (2 * h) = x + h
    BY <1>5, <2>1
  <2> QED
    BY <1>2, <1>3, <2>2
<1> QED
  BY <1>2, <1>3, <1>4, <1>6

-----------------------------------------------------------------------------
(* The first m entries of ord are the slots of S, each once. *)
Lists(ord, m, S) ==
    /\ \A k \in 0 .. m - 1 : ord[k] \in S
    /\ \A s \in S : \E k \in 0 .. m - 1 : ord[k] = s
    /\ \A j, k \in 0 .. m - 1 : ord[j] = ord[k] => j = k

(* They are sorted by value. *)
Ascending(ord, vals, m) ==
    \A j, k \in 0 .. m - 1 : j <= k => vals[ord[j]] <= vals[ord[k]]

(***************************************************************************)
(* The entries behind the removed slot move up: what is left are the other *)
(* slots, still sorted (mmedian.c:45-58).                                  *)
(***************************************************************************)
LEMMA RemovalKeepsOrder ==
    ASSUME order \in [Slots -> Slots], index \in Slots,
           samples \in [Slots -> Int], cnt = Length,
           Lists(order, Length, Slots), Ascending(order, samples, Length)
    PROVE  /\ Mmedian!Removed \in [Slots -> Slots]
           /\ Lists(Mmedian!Removed, Length - 1, Slots \ {index})
           /\ Ascending(Mmedian!Removed, samples, Length - 1)
<1>1. Length \in Nat \ {0}
  BY LengthAssumption
<1>2. PICK f \in 0 .. Length - 1 : order[f] = index
  BY DEF Lists
<1>3. \A k \in Slots : order[k] = index <=> k = f
  BY <1>2 DEF Lists, Slots
<1> DEFINE kept == [k \in Slots |-> IF f <= k /\ k + 1 < Length
                                    THEN order[k + 1] ELSE order[k]]
<1>4. Mmedian!Removed = kept
  <2>1. \A k \in Slots : (\E g \in {h \in Slots : order[h] = index} : g <= k)
                          <=> f <= k
    BY <1>2, <1>3 DEF Slots
  <2>2. Mmedian!Removed =
           [k \in Slots |->
              IF (\E g \in {h \in Slots : order[h] = index} : g <= k)
                 /\ k + 1 < cnt THEN order[k + 1] ELSE order[k]]
    BY <1>1 DEF Mmedian!Removed, Slots, Mmedian!Slots
  <2> QED
    BY <2>1, <2>2
<1>5. \A k \in 0 .. Length - 2 :
         kept[k] = IF f <= k THEN order[k + 1] ELSE order[k]
  BY <1>1, SMTT(30) DEF Slots
<1>6. kept \in [Slots -> Slots]
  BY <1>1, SMTT(30) DEF Slots
<1>m. (Length - 1) - 1 = Length - 2
  BY <1>1
<1> HIDE DEF kept
<1>7. Lists(kept, Length - 1, Slots \ {index})
  <2>1. ASSUME NEW k \in 0 .. Length - 2
        PROVE  kept[k] \in Slots \ {index}
    <3> DEFINE a == IF f <= k THEN k + 1 ELSE k
    <3>1. a \in 0 .. Length - 1 /\ a # f
      BY <1>1, <1>2
    <3>2. kept[k] = order[a]
      BY <1>5, <2>1
    <3>3. order[a] \in Slots /\ order[a] # index
      BY <1>3, <3>1 DEF Slots
    <3> QED
      BY <3>2, <3>3
  <2>2. ASSUME NEW s \in Slots \ {index}
        PROVE  \E k \in 0 .. Length - 2 : kept[k] = s
    <3>1. PICK g \in 0 .. Length - 1 : order[g] = s
      BY DEF Lists
    <3>2. g # f
      BY <1>2, <3>1
    <3>3. CASE g < f
      <4>1. g \in 0 .. Length - 2 /\ kept[g] = s
        BY <1>1, <1>2, <1>5, <3>1, <3>3
      <4> QED
        BY <4>1
    <3>4. CASE f < g
      <4>1. g - 1 \in 0 .. Length - 2 /\ kept[g - 1] = s
        BY <1>1, <1>2, <1>5, <3>1, <3>4
      <4> QED
        BY <4>1
    <3> QED
      BY <1>2, <3>1, <3>2, <3>3, <3>4
  <2>3. ASSUME NEW j \in 0 .. Length - 2, NEW k \in 0 .. Length - 2,
               kept[j] = kept[k]
        PROVE  j = k
    <3>1. \A a, b \in 0 .. Length - 1 : order[a] = order[b] => a = b
      BY DEF Lists
    <3> QED
      BY <1>1, <1>2, <1>5, <2>3, <3>1
  <2> QED
    BY <1>m, <2>1, <2>2, <2>3 DEF Lists
<1>8. Ascending(kept, samples, Length - 1)
  <2>1. ASSUME NEW j \in 0 .. Length - 2, NEW k \in 0 .. Length - 2, j <= k
        PROVE  samples[kept[j]] <= samples[kept[k]]
    <3> DEFINE a == IF f <= j THEN j + 1 ELSE j
               b == IF f <= k THEN k + 1 ELSE k
    <3>1. a \in 0 .. Length - 1 /\ b \in 0 .. Length - 1 /\ a <= b
      BY <1>1, <1>2, <2>1
    <3>2. kept[j] = order[a]
      BY <1>5, <2>1
    <3>3. kept[k] = order[b]
      BY <1>5, <2>1
    <3> QED
      BY <3>1, <3>2, <3>3 DEF Ascending
  <2> QED
    BY <1>m, <2>1 DEF Ascending
<1> QED
  BY <1>4, <1>6, <1>7, <1>8

(* A set of natural numbers has a least one. *)
LEMMA LeastNumber ==
    ASSUME NEW T \in SUBSET Nat, T # {}
    PROVE  \E x \in T : \A y \in T : x <= y
<1> DEFINE R == {ss \in Nat \X Nat : ss[1] < ss[2]}
<1>1. IsWellFoundedOn(R, Nat)
  BY NatLessThanWellFounded DEF OpToRel
<1>2. \A x, y \in Nat : y < x => <<y, x>> \in R
  OBVIOUS
<1> HIDE DEF R
<1>3. PICK x \in T : \A y \in T : ~(<<y, x>> \in R)
  BY <1>1, WFMin
<1>4. ASSUME NEW y \in T
      PROVE  x <= y
  <2>1. x \in Nat /\ y \in Nat
    OBVIOUS
  <2>2. ~(<<y, x>> \in R)
    BY <1>3
  <2>3. ~(y < x)
    BY <1>2, <2>1, <2>2
  <2> QED
    BY <2>1, <2>3
<1> QED
  BY <1>4

(***************************************************************************)
(* A slot is inserted behind the samples that are not larger and in front  *)
(* of those that are, wherever that is (mmedian.c:60-69).                  *)
(***************************************************************************)
LEMMA InsertionKeepsOrder ==
    ASSUME NEW kept \in [Slots -> Slots], NEW vals \in [Slots -> Int],
           NEW slot \in Slots, NEW n \in 1 .. Length,
           NEW S \in SUBSET Slots, slot \notin S,
           Lists(kept, n - 1, S), Ascending(kept, vals, n - 1)
    PROVE  /\ Mmedian!Inserted(kept, vals, slot, n) \in [Slots -> Slots]
           /\ Lists(Mmedian!Inserted(kept, vals, slot, n), n, S \cup {slot})
           /\ Ascending(Mmedian!Inserted(kept, vals, slot, n), vals, n)
<1>1. Length \in Nat \ {0} /\ n \in Nat \ {0} /\ (n - 1) - 1 = n - 2
  BY LengthAssumption
<1>i. \A k \in 0 .. n - 2 : k \in Slots
  BY <1>1 DEF Slots
<1> DEFINE larger(p) == \A j \in p .. n - 2 : vals[kept[j]] > vals[slot]
           isPlace(p) == larger(p) /\ \A q \in 0 .. p - 1 : ~larger(q)
           place == CHOOSE p \in 0 .. n - 1 : isPlace(p)
           ord == [k \in Slots |-> IF k = place THEN slot
                                   ELSE IF place < k /\ k < n THEN kept[k - 1]
                                   ELSE kept[k]]
<1>2. Mmedian!Inserted(kept, vals, slot, n) = ord
  BY DEF Mmedian!Inserted, Slots, Mmedian!Slots
<1>3. place \in 0 .. n - 1 /\ isPlace(place)
  <2> DEFINE T == {p \in 0 .. n - 1 : larger(p)}
  <2>1. n - 1 \in T
    BY <1>1
  <2>2. T \in SUBSET Nat
    BY <1>1
  <2>3. PICK p \in T : \A q \in T : p <= q
    <3> HIDE DEF T
    <3> QED
      BY <2>1, <2>2, LeastNumber
  <2>4. p \in 0 .. n - 1 /\ larger(p)
    BY <2>3
  <2>5. ASSUME NEW q \in 0 .. p - 1
        PROVE  ~larger(q)
    <3>1. q \in 0 .. n - 1 /\ q < p
      BY <1>1, <2>4
    <3> QED
      BY <2>3, <3>1
  <2>6. \E x \in 0 .. n - 1 : isPlace(x)
    BY <2>4, <2>5
  <2> HIDE DEF isPlace
  <2> QED
    BY <2>6
<1>4. \A j \in 0 .. n - 2 : j >= place => vals[kept[j]] > vals[slot]
  BY <1>1, <1>3
<1>5. ASSUME NEW j \in 0 .. n - 2, j < place
      PROVE  vals[kept[j]] <= vals[slot]
  <2>1. ~larger(place - 1)
    BY <1>1, <1>3, <1>5
  <2>2. PICK i \in place - 1 .. n - 2 : ~(vals[kept[i]] > vals[slot])
    BY <2>1
  <2>i. i \in 0 .. n - 2 /\ i >= place - 1
    BY <1>1, <1>3, <1>5, <2>2
  <2>3. i = place - 1
    BY <1>1, <1>3, <1>4, <2>2, <2>i
  <2>4. i \in 0 .. n - 2 /\ j <= i
    BY <1>1, <1>3, <1>5, <2>2, <2>3
  <2>5. vals[kept[j]] <= vals[kept[i]]
    BY <1>1, <2>4 DEF Ascending
  <2>6. kept[i] \in Slots /\ kept[j] \in Slots
    BY <1>i, <2>4
  <2> QED
    BY <2>2, <2>5, <2>6
<1> HIDE DEF larger, place
<1>6. \A k \in Slots : ord[k] = IF k = place THEN slot
                                ELSE IF place < k /\ k < n THEN kept[k - 1]
                                ELSE kept[k]
  OBVIOUS
<1>7. ord \in [Slots -> Slots]
  <2>1. \A k \in Slots : k > place => k - 1 \in Slots
    BY <1>1, <1>3 DEF Slots
  <2> QED
    BY <2>1
<1> HIDE DEF ord
<1>8. ASSUME NEW k \in 0 .. n - 1
      PROVE  \/ k = place /\ ord[k] = slot
             \/ k < place /\ k \in 0 .. n - 2 /\ ord[k] = kept[k]
             \/ k > place /\ k - 1 \in 0 .. n - 2 /\ k - 1 >= place
                /\ ord[k] = kept[k - 1]
  <2>1. k \in Slots
    BY <1>1 DEF Slots
  <2> QED
    BY <1>1, <1>3, <1>6, <2>1
<1>9. Lists(ord, n, S \cup {slot})
  <2>1. \A k \in 0 .. n - 1 : ord[k] \in S \cup {slot}
    BY <1>1, <1>8 DEF Lists
  <2>2. ASSUME NEW s \in S \cup {slot}
        PROVE  \E k \in 0 .. n - 1 : ord[k] = s
    <3>1. CASE s = slot
      BY <1>3, <1>8, <3>1
    <3>2. CASE s \in S
      <4>1. PICK g \in 0 .. n - 2 : kept[g] = s
        BY <1>1, <3>2 DEF Lists
      <4>2. CASE g < place
        <5>1. g \in 0 .. n - 1 /\ ord[g] = kept[g]
          BY <1>1, <1>3, <1>8, <4>2
        <5> QED
          BY <4>1, <5>1
      <4>3. CASE g >= place
        <5>1. g + 1 \in 0 .. n - 1 /\ g + 1 > place /\ (g + 1) - 1 = g
          BY <1>1, <1>3, <4>3
        <5>2. ord[g + 1] = kept[g]
          BY <1>3, <1>8, <5>1
        <5> QED
          BY <4>1, <5>1, <5>2
      <4> QED
        BY <1>3, <4>2, <4>3
    <3> QED
      BY <3>1, <3>2
  <2>3. ASSUME NEW j \in 0 .. n - 1, NEW k \in 0 .. n - 1, ord[j] = ord[k]
        PROVE  j = k
    <3>1. \A a, b \in 0 .. n - 2 : kept[a] = kept[b] => a = b
      BY <1>1 DEF Lists
    <3>2. \A a \in 0 .. n - 2 : kept[a] # slot
      BY <1>1 DEF Lists
    <3> QED
      BY <1>3, <1>8, <2>3, <3>1, <3>2
  <2> QED
    BY <2>1, <2>2, <2>3 DEF Lists
<1>10. Ascending(ord, vals, n)
  <2>1. ASSUME NEW j \in 0 .. n - 1, NEW k \in 0 .. n - 1, j <= k
        PROVE  vals[ord[j]] <= vals[ord[k]]
    <3>1. \A a, b \in 0 .. n - 2 : a <= b => vals[kept[a]] <= vals[kept[b]]
      BY <1>1 DEF Ascending
    <3>2. \A a \in 0 .. n - 2 : vals[kept[a]] \in Int
      BY <1>i
    <3>3. vals[slot] \in Int
      OBVIOUS
    <3>4. CASE j = k
      <4>1. vals[ord[k]] \in Int
        BY <1>8, <3>2, <3>3
      <4> QED
        BY <3>4, <4>1
    <3>5. CASE j < k /\ j < place /\ k < place
      <4>1. ord[j] = kept[j] /\ ord[k] = kept[k]
            /\ j \in 0 .. n - 2 /\ k \in 0 .. n - 2
        BY <1>1, <1>3, <1>8, <3>5
      <4> QED
        BY <2>1, <3>1, <4>1
    <3>6. CASE j < place /\ k = place
      <4>1. ord[j] = kept[j] /\ ord[k] = slot /\ j \in 0 .. n - 2
        BY <1>1, <1>3, <1>8, <3>6
      <4> QED
        BY <1>5, <3>6, <4>1
    <3>7. CASE j < place /\ k > place
      <4>1. ord[j] = kept[j] /\ ord[k] = kept[k - 1]
            /\ j \in 0 .. n - 2 /\ k - 1 \in 0 .. n - 2 /\ j <= k - 1
        BY <1>1, <1>3, <1>8, <3>7
      <4> QED
        BY <3>1, <4>1
    <3>8. CASE j = place /\ k > place
      <4>1. ord[j] = slot /\ ord[k] = kept[k - 1]
            /\ k - 1 \in 0 .. n - 2 /\ k - 1 >= place
        BY <1>1, <1>3, <1>8, <3>8
      <4> QED
        BY <1>4, <3>2, <3>3, <4>1
    <3>9. CASE j < k /\ j > place
      <4>1. ord[j] = kept[j - 1] /\ ord[k] = kept[k - 1]
            /\ j - 1 \in 0 .. n - 2 /\ k - 1 \in 0 .. n - 2
            /\ j - 1 <= k - 1
        BY <1>1, <1>3, <1>8, <3>9
      <4> QED
        BY <3>1, <4>1
    <3> QED
      BY <1>1, <1>3, <2>1, <3>4, <3>5, <3>6, <3>7, <3>8, <3>9
  <2> QED
    BY <2>1 DEF Ascending
<1> QED
  BY <1>2, <1>7, <1>9, <1>10 DEF ord

-----------------------------------------------------------------------------
(* The ring: until it is full the index is the number of samples in it. *)
RingOK ==
    /\ cnt \in 0 .. Length /\ index \in Slots /\ samples \in [Slots -> Int]
    /\ cnt < Length => index = cnt

(* The domain of all of the state. *)
FilterTypeOK ==
    /\ type \in Types /\ RingOK
    /\ order \in [Slots -> Slots]
    /\ sum \in -(Modulus \div 2) .. Modulus \div 2 - 1
    /\ output \in Int

(* `order' lists the slots in use in the order of their samples. *)
OrderInv ==
    type = "moving_median" =>
        Lists(order, cnt, 0 .. cnt - 1) /\ Ascending(order, samples, cnt)

(* What both filters do with their ring. *)
RingSample(v) ==
    /\ samples' = [samples EXCEPT ![index] = v]
    /\ cnt' = IF cnt < Length THEN cnt + 1 ELSE cnt
    /\ index' = (1 + index) % Length

(* A sample fills the next slot. *)
LEMMA RingMoves ==
    ASSUME RingOK, NEW v \in Int, RingSample(v)
    PROVE  RingOK' /\ cnt' \in 1 .. Length
<1>1. Length \in Nat \ {0} /\ 0 \in Slots
  BY LengthAssumption DEF Slots
<1>2. cnt \in 0 .. Length /\ index \in Slots /\ (cnt < Length => index = cnt)
  BY DEF RingOK
<1>3. index' = IF 1 + index < Length THEN 1 + index ELSE 0
  BY <1>2, NextSlot DEF RingSample
<1>4. cnt' = IF cnt < Length THEN cnt + 1 ELSE cnt
  BY DEF RingSample
<1>5. cnt' \in 1 .. Length
  BY <1>1, <1>2, <1>4
<1>6. index' \in Slots /\ (cnt' < Length => index' = cnt')
  BY <1>1, <1>2, <1>3, <1>4 DEF Slots
<1>7. samples' \in [Slots -> Int]
  BY DEF RingOK, RingSample
<1> QED
  BY <1>5, <1>6, <1>7 DEF RingOK

(* A write to another slot leaves a sorted list sorted. *)
LEMMA OtherSlot ==
    ASSUME NEW ord, NEW vals, NEW new, NEW m \in Nat, NEW S,
           Lists(ord, m, S), Ascending(ord, vals, m),
           \A s \in S : new[s] = vals[s]
    PROVE  Ascending(ord, new, m)
  BY DEF Lists, Ascending

(***************************************************************************)
(* A sample leaves every slot in use listed once, in the order of the      *)
(* samples.                                                                *)
(***************************************************************************)
LEMMA SampleKeepsOrder ==
    ASSUME FilterTypeOK, OrderInv, type = "moving_median",
           NEW v \in Int, Mmedian!Sample(v)
    PROVE  /\ order' \in [Slots -> Slots]
           /\ Lists(order', cnt', 0 .. cnt' - 1)
           /\ Ascending(order', samples', cnt')
<1>1. Length \in Nat \ {0} /\ 0 \in Slots
  BY LengthAssumption DEF Slots
<1>2. cnt \in 0 .. Length /\ index \in Slots /\ (cnt < Length => index = cnt)
  BY DEF FilterTypeOK, RingOK
<1>3. samples \in [Slots -> Int] /\ order \in [Slots -> Slots]
  BY DEF FilterTypeOK, RingOK
<1>4. samples' = [samples EXCEPT ![index] = v]
  BY DEF Mmedian!Sample
<1>5. cnt' = IF cnt < Length THEN cnt + 1 ELSE cnt
  BY DEF Mmedian!Sample
<1>6. order' = Mmedian!Inserted(Mmedian!Removed, samples', index, cnt')
  BY DEF Mmedian!Sample
<1>7. RingSample(v)
  BY DEF Mmedian!Sample, RingSample
<1>8. cnt' \in 1 .. Length
  BY <1>7, RingMoves DEF FilterTypeOK
<1>10. samples' \in [Slots -> Int]
  BY <1>7, RingMoves DEF FilterTypeOK, RingOK
<1>11. Lists(order, cnt, 0 .. cnt - 1) /\ Ascending(order, samples, cnt)
  BY DEF OrderInv
<1>12. CASE cnt < Length
  <2>1. Mmedian!Removed = order
    BY <1>12 DEF Mmedian!Removed
  <2>2. cnt' = cnt + 1 /\ cnt' - 1 = cnt /\ index = cnt
    BY <1>2, <1>5, <1>12
  <2>3. \A s \in 0 .. cnt - 1 : samples'[s] = samples[s]
    BY <1>1, <1>2, <1>3, <1>4, <2>2 DEF Slots
  <2>4. Ascending(order, samples', cnt)
    BY <1>2, <1>11, <2>3, OtherSlot
  <2>5. 0 .. cnt - 1 \in SUBSET Slots /\ index \notin 0 .. cnt - 1
    BY <1>1, <1>2, <2>2 DEF Slots
  <2>6. (0 .. cnt - 1) \cup {index} = 0 .. cnt' - 1
    BY <1>2, <2>2
  <2>7. /\ order' \in [Slots -> Slots]
        /\ Lists(order', cnt', (0 .. cnt - 1) \cup {index})
        /\ Ascending(order', samples', cnt')
    <3>1. Lists(order, cnt' - 1, 0 .. cnt - 1)
      BY <1>11, <2>2
    <3>2. Ascending(order, samples', cnt' - 1)
      BY <2>2, <2>4
    <3> QED
      BY <1>2, <1>3, <1>6, <1>8, <1>10, <2>1, <2>5, <3>1, <3>2,
         InsertionKeepsOrder
  <2> QED
    BY <2>6, <2>7
<1>13. CASE cnt = Length
  <2>1. cnt' = Length /\ Slots = 0 .. cnt - 1
    BY <1>1, <1>5, <1>13 DEF Slots
  <2>2. Lists(order, Length, Slots) /\ Ascending(order, samples, Length)
    BY <1>11, <1>13, <2>1
  <2>3. /\ Mmedian!Removed \in [Slots -> Slots]
        /\ Lists(Mmedian!Removed, Length - 1, Slots \ {index})
        /\ Ascending(Mmedian!Removed, samples, Length - 1)
    BY <1>2, <1>3, <1>13, <2>2, RemovalKeepsOrder
  <2>4. \A s \in Slots \ {index} : samples'[s] = samples[s]
    BY <1>3, <1>4
  <2>5. Ascending(Mmedian!Removed, samples', Length - 1)
    BY <1>1, <2>3, <2>4, OtherSlot
  <2>6. (Slots \ {index}) \cup {index} = 0 .. cnt' - 1
    BY <1>2, <1>13, <2>1
  <2>7. /\ order' \in [Slots -> Slots]
        /\ Lists(order', cnt', (Slots \ {index}) \cup {index})
        /\ Ascending(order', samples', cnt')
    BY <1>2, <1>6, <1>8, <1>10, <2>1, <2>3, <2>5, InsertionKeepsOrder
  <2> QED
    BY <2>6, <2>7
<1> QED
  BY <1>1, <1>2, <1>12, <1>13

-----------------------------------------------------------------------------
(* The slot of the k-th oldest sample, as in Aged. *)
SlotOf(k) == (index - cnt + k - 1 + Length) % Length

(***************************************************************************)
(* Until the ring is full the samples are in the first slots; then the     *)
(* oldest one is where the next one will be written.                       *)
(***************************************************************************)
LEMMA SlotOfAge ==
    ASSUME RingOK, NEW k \in 1 .. cnt
    PROVE  /\ SlotOf(k) = IF index - cnt + k - 1 < 0
                          THEN index - cnt + k - 1 + Length
                          ELSE index - cnt + k - 1
           /\ SlotOf(k) \in 0 .. cnt - 1
<1>1. Length \in Nat \ {0} /\ cnt \in 0 .. Length /\ index \in 0 .. Length - 1
      /\ (cnt < Length => index = cnt)
  BY LengthAssumption DEF RingOK, Slots
<1> DEFINE x == index - cnt + k - 1 + Length
<1>2. x \in 0 .. 2 * Length - 1
  BY <1>1
<1> HIDE DEF x
<1>3. x % Length = IF x < Length THEN x ELSE x - Length
  BY <1>2, WrapOnce
<1>4. SlotOf(k) = IF x < Length THEN x ELSE x - Length
  BY <1>3 DEF SlotOf, x
<1> QED
  BY <1>1, <1>4 DEF x

(* Every slot in use has an age, and no two ages share a slot. *)
LEMMA AgesAndSlots ==
    ASSUME RingOK
    PROVE  /\ \A s \in 0 .. cnt - 1 : \E k \in 1 .. cnt : SlotOf(k) = s
           /\ \A j, k \in 1 .. cnt : SlotOf(j) = SlotOf(k) => j = k
<1>1. Length \in Nat \ {0} /\ cnt \in 0 .. Length /\ index \in 0 .. Length - 1
      /\ (cnt < Length => index = cnt)
  BY LengthAssumption DEF RingOK, Slots
<1>2. ASSUME NEW s \in 0 .. cnt - 1
      PROVE  \E k \in 1 .. cnt : SlotOf(k) = s
  <2> DEFINE k == IF s < index THEN s + 1 + cnt - index
                  ELSE s + 1 + cnt - index - Length
  <2>1. k \in 1 .. cnt /\ k \in Int
    BY <1>1
  <2>2. index - cnt + k - 1 = IF s < index THEN s ELSE s - Length
    BY <1>1
  <2> HIDE DEF k
  <2>3. SlotOf(k) = s
    BY <1>1, <2>1, <2>2, SlotOfAge
  <2> QED
    BY <2>1, <2>3
<1>3. ASSUME NEW j \in 1 .. cnt, NEW k \in 1 .. cnt, SlotOf(j) = SlotOf(k)
      PROVE  j = k
  <2>1. SlotOf(j) = IF index - cnt + j - 1 < 0
                    THEN index - cnt + j - 1 + Length
                    ELSE index - cnt + j - 1
    BY SlotOfAge
  <2>2. SlotOf(k) = IF index - cnt + k - 1 < 0
                    THEN index - cnt + k - 1 + Length
                    ELSE index - cnt + k - 1
    BY SlotOfAge
  <2> DEFINE a == index - cnt + j - 1
             b == index - cnt + k - 1
  <2>3. /\ a \in Int /\ b \in Int /\ b - a = k - j
        /\ k - j < Length /\ j - k < Length
    BY <1>1
  <2>4. a = b
    <3> HIDE DEF a, b
    <3>1. (IF a < 0 THEN a + Length ELSE a) = (IF b < 0 THEN b + Length ELSE b)
      BY <1>3, <2>1, <2>2 DEF a, b
    <3>2. Length \in Int /\ j \in Int /\ k \in Int
      BY <1>1
    <3> QED
      BY <2>3, <3>1, <3>2
  <2> QED
    BY <1>1, <2>3, <2>4
<1> QED
  BY <1>2, <1>3

(* The window is a sequence of integers. *)
LEMMA AgedType ==
    ASSUME RingOK
    PROVE  /\ Aged \in Seq(Int) /\ Len(Aged) = cnt
           /\ \A k \in 1 .. cnt : Aged[k] = samples[SlotOf(k)]
<1>1. cnt \in Nat /\ samples \in [Slots -> Int] /\ cnt \in 0 .. Length
      /\ Length \in Nat \ {0}
  BY LengthAssumption DEF RingOK
<1>2. Aged = [k \in 1 .. cnt |-> samples[SlotOf(k)]]
  BY DEF Aged, SlotOf
<1>3. ASSUME NEW k \in 1 .. cnt
      PROVE  samples[SlotOf(k)] \in Int
  <2>1. SlotOf(k) \in Slots
    BY <1>1, SlotOfAge DEF Slots
  <2> QED
    BY <1>1, <2>1
<1>4. Aged \in [1 .. cnt -> Int]
  BY <1>2, <1>3
<1> QED
  BY <1>1, <1>2, <1>4, LenProperties

(* What has been shown of the window on the ring. *)
WindowOnRing ==
    /\ Aged \in Seq(Int) /\ Len(Aged) = cnt
    /\ \A k \in 1 .. cnt :
          /\ Aged[k] = samples[SlotOf(k)]
          /\ SlotOf(k) \in 0 .. cnt - 1
          /\ SlotOf(k) = IF index - cnt + k - 1 < 0
                         THEN index - cnt + k - 1 + Length
                         ELSE index - cnt + k - 1
    /\ \A s \in 0 .. cnt - 1 : \E k \in 1 .. cnt : SlotOf(k) = s
    /\ \A j, k \in 1 .. cnt : SlotOf(j) = SlotOf(k) => j = k

LEMMA WindowIsOnRing == RingOK => WindowOnRing
  BY AgedType, SlotOfAge, AgesAndSlots DEF WindowOnRing

(* It holds after a step, too. *)
LEMMA WindowStaysOnRing == RingOK' => WindowOnRing'
  BY WindowIsOnRing, PTL

(***************************************************************************)
(* A sample is pushed into the window, and the oldest one leaves it when   *)
(* the ring is full, wherever the index is.                                *)
(***************************************************************************)
LEMMA SampleIsPushed ==
    ASSUME RingOK, NEW v \in Int, RingSample(v)
    PROVE  Aged' = Abstract!Pushed(Aged, v, Length)
<1>1. Length \in Nat \ {0} /\ cnt \in 0 .. Length /\ index \in 0 .. Length - 1
      /\ (cnt < Length => index = cnt) /\ index \in Slots
      /\ samples \in [Slots -> Int]
  BY LengthAssumption DEF RingOK, Slots
<1>2. /\ Aged \in Seq(Int) /\ Len(Aged) = cnt
      /\ \A k \in 1 .. cnt :
            /\ Aged[k] = samples[SlotOf(k)]
            /\ SlotOf(k) \in 0 .. cnt - 1
            /\ SlotOf(k) = IF index - cnt + k - 1 < 0
                           THEN index - cnt + k - 1 + Length
                           ELSE index - cnt + k - 1
  BY WindowIsOnRing DEF WindowOnRing
<1>3. /\ Aged' \in Seq(Int) /\ Len(Aged') = cnt'
      /\ \A k \in 1 .. cnt' :
            /\ Aged'[k] = samples'[SlotOf(k)']
            /\ SlotOf(k)' \in 0 .. cnt' - 1
            /\ SlotOf(k)' = IF index' - cnt' + k - 1 < 0
                            THEN index' - cnt' + k - 1 + Length
                            ELSE index' - cnt' + k - 1
  BY RingMoves, WindowStaysOnRing DEF WindowOnRing
<1>4. samples' = [samples EXCEPT ![index] = v]
  BY DEF RingSample
<1>5. index' = IF 1 + index < Length THEN 1 + index ELSE 0
  BY <1>1, NextSlot DEF RingSample
<1>6. cnt' = IF cnt < Length THEN cnt + 1 ELSE cnt
  BY DEF RingSample
<1> DEFINE longer == Append(Aged, v)
<1>7. /\ longer \in Seq(Int) /\ longer # <<>> /\ Len(longer) = cnt + 1
      /\ \A k \in 1 .. cnt : longer[k] = Aged[k]
      /\ longer[cnt + 1] = v
  BY <1>2, AppendProperties
<1> HIDE DEF longer
<1>8. CASE cnt < Length
  <2>1. Abstract!Pushed(Aged, v, Length) = longer
    BY <1>1, <1>2, <1>7, <1>8 DEF Abstract!Pushed, longer
  <2>2. cnt' = cnt + 1 /\ index = cnt
    BY <1>1, <1>6, <1>8
  <2>3. ASSUME NEW k \in 1 .. cnt + 1
        PROVE  Aged'[k] = longer[k]
    <3>1. Aged'[k] = samples'[SlotOf(k)'] /\ SlotOf(k)' = k - 1
      BY <1>1, <1>3, <1>5, <2>2
    <3>2. CASE k = cnt + 1
      <4>1. samples'[k - 1] = v
        BY <1>1, <1>4, <2>2, <3>2
      <4> QED
        BY <1>7, <3>1, <3>2, <4>1
    <3>3. CASE k \in 1 .. cnt
      <4>1. Aged[k] = samples[SlotOf(k)] /\ SlotOf(k) = k - 1
        BY <1>1, <1>2, <2>2, <3>3
      <4>2. k - 1 \in Slots /\ k - 1 # index
        BY <1>1, <2>2, <3>3 DEF Slots
      <4>3. samples'[k - 1] = samples[k - 1]
        BY <1>1, <1>4, <4>2
      <4> QED
        BY <1>7, <3>1, <3>3, <4>1, <4>3
    <3>4. k = cnt + 1 \/ k \in 1 .. cnt
      BY <1>1
    <3> QED
      BY <3>2, <3>3, <3>4
  <2> QED
    BY <1>3, <1>7, <2>1, <2>2, <2>3, SeqEqual
<1>9. CASE cnt = Length
  <2>1. Abstract!Pushed(Aged, v, Length) = Tail(longer)
    BY <1>1, <1>2, <1>7, <1>9 DEF Abstract!Pushed, longer
  <2>2. /\ Tail(longer) \in Seq(Int) /\ Len(Tail(longer)) = cnt
        /\ \A k \in 1 .. cnt : Tail(longer)[k] = longer[k + 1]
    BY <1>1, <1>7, HeadTailProperties
  <2>3. cnt' = cnt
    BY <1>1, <1>6, <1>9
  <2>4. ASSUME NEW k \in 1 .. cnt
        PROVE  Aged'[k] = longer[k + 1]
    <3>1. CASE k = cnt
      <4>1. SlotOf(k)' = index
        BY <1>1, <1>3, <1>5, <1>9, <2>3, <3>1
      <4>2. samples'[index] = v
        BY <1>1, <1>4
      <4> QED
        BY <1>3, <1>7, <2>3, <3>1, <4>1, <4>2
    <3>2. CASE k + 1 \in 1 .. cnt
      <4>1. SlotOf(k)' = SlotOf(k + 1)
        <5>1. SlotOf(k + 1) = IF index - cnt + (k + 1) - 1 < 0
                              THEN index - cnt + (k + 1) - 1 + Length
                              ELSE index - cnt + (k + 1) - 1
          BY <1>2, <3>2
        <5>2. SlotOf(k)' = IF index' - cnt' + k - 1 < 0
                           THEN index' - cnt' + k - 1 + Length
                           ELSE index' - cnt' + k - 1
          BY <1>3, <2>3
        <5> QED
          BY <1>1, <1>5, <1>9, <2>3, <3>2, <5>1, <5>2
      <4>2. SlotOf(k + 1) \in Slots /\ SlotOf(k + 1) # index
        <5>1. /\ SlotOf(k + 1) \in 0 .. cnt - 1
              /\ SlotOf(k + 1) = IF index - cnt + (k + 1) - 1 < 0
                                 THEN index - cnt + (k + 1) - 1 + Length
                                 ELSE index - cnt + (k + 1) - 1
          BY <1>2, <3>2
        <5>2. SlotOf(k + 1) # index
          BY <1>1, <1>9, <3>2, <5>1
        <5> QED
          BY <1>9, <5>1, <5>2 DEF Slots
      <4>3. samples'[SlotOf(k + 1)] = samples[SlotOf(k + 1)]
        BY <1>1, <1>4, <4>2
      <4> QED
        BY <1>2, <1>3, <1>7, <2>3, <3>2, <4>1, <4>3
    <3>3. k = cnt \/ k + 1 \in 1 .. cnt
      BY <1>1
    <3> QED
      BY <3>1, <3>2, <3>3
  <2> QED
    BY <1>3, <2>1, <2>2, <2>3, <2>4, SeqEqual
<1> QED
  BY <1>1, <1>8, <1>9

-----------------------------------------------------------------------------
(* pos lists the places of the window w in the order of their samples. *)
Sorts(pos, w) ==
    LET n == Len(w)
    IN  /\ pos \in [0 .. n - 1 -> 1 .. n]
        /\ \A i \in 1 .. n : \E j \in 0 .. n - 1 : pos[j] = i
        /\ \A i, j \in 0 .. n - 1 : pos[i] = pos[j] => i = j
        /\ \A i, j \in 0 .. n - 1 : i <= j => w[pos[i]] <= w[pos[j]]

(***************************************************************************)
(* The k-th place in a list sorted by samples has the k-th smallest one.   *)
(***************************************************************************)
LEMMA SmallestBySorting ==
    ASSUME NEW w \in Seq(Int), NEW pos, Sorts(pos, w), NEW k \in 1 .. Len(w)
    PROVE  Smallest(w, k) = w[pos[k - 1]]
<1>n. PICK n \in Nat : Len(w) = n
  BY LenProperties
<1>s. /\ pos \in [0 .. n - 1 -> 1 .. n]
      /\ \A i \in 1 .. n : \E j \in 0 .. n - 1 : pos[j] = i
      /\ \A i, j \in 0 .. n - 1 : pos[i] = pos[j] => i = j
      /\ \A i, j \in 0 .. n - 1 : i <= j => w[pos[i]] <= w[pos[j]]
      /\ k \in 1 .. n
  BY <1>n DEF Sorts
<1> USE <1>s
<1> DEFINE below(x) == {i \in 1 .. n : w[i] < x}
           upto(x) == {i \in 1 .. n : w[i] <= x}
           isSmallest(x) == Cardinality(below(x)) < k /\ Cardinality(upto(x)) >= k
           first(m) == [j \in 0 .. m - 1 |-> pos[j]]
           places(m) == {pos[j] : j \in 0 .. m - 1}
<1>1. DOMAIN w = 1 .. n /\ \A i \in 1 .. n : w[i] \in Int
  BY <1>n, LenProperties
<1>2. ToSet(w) = {w[i] : i \in 1 .. n}
  BY <1>1 DEF ToSet
<1>3. Smallest(w, k) = CHOOSE x \in {w[i] : i \in 1 .. n} : isSmallest(x)
  BY <1>1, <1>2 DEF Smallest
<1>4. ASSUME NEW S, S \subseteq 1 .. n
      PROVE  IsFiniteSet(S) /\ Cardinality(S) \in Nat
  <2>1. IsFiniteSet(1 .. n)
    BY FS_Interval
  <2>2. IsFiniteSet(S)
    BY <1>4, <2>1, FS_Subset
  <2> QED
    BY <2>2, FS_CardinalityType
<1>5. ASSUME NEW m \in 0 .. n
      PROVE  /\ places(m) \subseteq 1 .. n
             /\ Cardinality(places(m)) = m
  <2>1. places(m) \subseteq 1 .. n
    OBVIOUS
  <2>2. first(m) \in Surjection(0 .. m - 1, places(m))
    BY DEF Surjection
  <2>3. first(m) \in Injection(0 .. m - 1, places(m))
    <3>1. first(m) \in [0 .. m - 1 -> places(m)]
          /\ DOMAIN first(m) = 0 .. m - 1
      OBVIOUS
    <3>2. ASSUME NEW i \in 0 .. m - 1, NEW j \in 0 .. m - 1,
                 first(m)[i] = first(m)[j]
          PROVE  i = j
      <4>1. i \in 0 .. n - 1 /\ j \in 0 .. n - 1 /\ pos[i] = pos[j]
        BY <3>2
      <4> QED
        BY <4>1
    <3> HIDE DEF first, places
    <3> QED
      BY <3>1, <3>2 DEF Injection, IsInjective
  <2>4. IsFiniteSet(0 .. m - 1) /\ Cardinality(0 .. m - 1) = m
    <3>1. 0 \in Int /\ m - 1 \in Int /\ m \in Nat
      OBVIOUS
    <3>2. Cardinality(0 .. m - 1) = IF 0 > m - 1 THEN 0 ELSE m - 1 - 0 + 1
      BY <3>1, FS_Interval
    <3> QED
      BY <3>1, <3>2, FS_Interval
  <2> HIDE DEF first, places
  <2> QED
    BY <2>1, <2>2, <2>3, <2>4, FS_Surjection
<1> DEFINE x == w[pos[k - 1]]
<1>6. k - 1 \in 0 .. n - 1 /\ pos[k - 1] \in 1 .. n /\ x \in Int
  BY <1>1, SMTT(30)
<1>7. isSmallest(x)
  <2>1. below(x) \subseteq places(k - 1)
    <3>1. ASSUME NEW i \in below(x)
          PROVE  i \in places(k - 1)
      <4>1. PICK j \in 0 .. n - 1 : pos[j] = i
        OBVIOUS
      <4>2. ~(k - 1 <= j)
        BY <1>1, <1>6, <4>1
      <4> QED
        BY <4>1, <4>2
    <3> QED
      BY <3>1
  <2>2. places(k) \subseteq upto(x)
    <3>1. ASSUME NEW p \in places(k)
          PROVE  p \in upto(x)
      <4>1. PICK j \in 0 .. k - 1 : p = pos[j]
        OBVIOUS
      <4>2. j \in 0 .. n - 1 /\ j <= k - 1
        OBVIOUS
      <4> QED
        BY <1>6, <4>1, <4>2
    <3> QED
      BY <3>1
  <2>0. k - 1 \in 0 .. n /\ k \in 0 .. n
    OBVIOUS
  <2>3. Cardinality(below(x)) <= Cardinality(places(k - 1))
    <3>1. IsFiniteSet(places(k - 1))
      BY <1>4, <1>5, <2>0
    <3> HIDE DEF below, places
    <3> QED
      BY <2>1, <3>1, FS_Subset
  <2>4. Cardinality(places(k)) <= Cardinality(upto(x))
    BY <1>4, <2>2, FS_Subset
  <2>5. Cardinality(places(k - 1)) = k - 1 /\ Cardinality(places(k)) = k
    <3> HIDE DEF places
    <3> QED
      BY <1>5, <2>0
  <2>6. Cardinality(below(x)) \in Nat /\ Cardinality(upto(x)) \in Nat
    BY <1>4
  <2> HIDE DEF below, upto, places, x
  <2> QED
    BY <2>3, <2>4, <2>5, <2>6
<1>8. ASSUME NEW y \in Int, NEW z \in Int, isSmallest(y), isSmallest(z)
      PROVE  ~(y < z)
  <2>1. SUFFICES ASSUME y < z PROVE FALSE
    OBVIOUS
  <2>2. upto(y) \subseteq below(z)
    BY <1>1, <2>1, SMTT(30)
  <2>3. Cardinality(upto(y)) <= Cardinality(below(z))
    BY <1>4, <2>2, FS_Subset
  <2>4. Cardinality(upto(y)) \in Nat /\ Cardinality(below(z)) \in Nat
    BY <1>4
  <2>5. Cardinality(upto(y)) >= k /\ Cardinality(below(z)) < k
    BY <1>8
  <2> HIDE DEF below, upto
  <2> QED
    BY <2>3, <2>4, <2>5
<1>9. ASSUME NEW y \in {w[i] : i \in 1 .. n}, isSmallest(y)
      PROVE  y = x
  <2>1. y \in Int
    BY <1>1
  <2> HIDE DEF isSmallest, x
  <2> QED
    BY <1>6, <1>7, <1>8, <1>9, <2>1
<1>10. x \in {w[i] : i \in 1 .. n}
  BY <1>6
<1> HIDE DEF isSmallest, x
<1> QED
  BY <1>3, <1>7, <1>9, <1>10 DEF x

(***************************************************************************)
(* The middle of `order' is the median of the window (mmedian.c:71-77).    *)
(***************************************************************************)
LEMMA MiddleIsMedian ==
    ASSUME RingOK, order \in [Slots -> Slots], cnt > 0,
           Lists(order, cnt, 0 .. cnt - 1), Ascending(order, samples, cnt)
    PROVE  /\ Mmedian!MiddleOf(order, samples, cnt) = Median(Modulus, Aged)
           /\ Median(Modulus, Aged) \in Int
<1>1. /\ Aged \in Seq(Int) /\ Len(Aged) = cnt
      /\ \A k \in 1 .. cnt :
            /\ Aged[k] = samples[SlotOf(k)]
            /\ SlotOf(k) \in 0 .. cnt - 1
      /\ \A s \in 0 .. cnt - 1 : \E k \in 1 .. cnt : SlotOf(k) = s
      /\ \A j, k \in 1 .. cnt : SlotOf(j) = SlotOf(k) => j = k
  BY WindowIsOnRing DEF WindowOnRing
<1>2. cnt \in Nat \ {0}
  BY LengthAssumption DEF RingOK
<1> DEFINE pos == [j \in 0 .. cnt - 1 |->
                     CHOOSE k \in 1 .. cnt : SlotOf(k) = order[j]]
<1>3. ASSUME NEW j \in 0 .. cnt - 1
      PROVE  pos[j] \in 1 .. cnt /\ SlotOf(pos[j]) = order[j]
  <2>1. \E k \in 1 .. cnt : SlotOf(k) = order[j]
    BY <1>1 DEF Lists
  <2> QED
    BY <2>1
<1>4. pos \in [0 .. cnt - 1 -> 1 .. cnt]
  BY <1>3
<1> HIDE DEF pos
<1>5. ASSUME NEW i \in 1 .. cnt
      PROVE  \E j \in 0 .. cnt - 1 : pos[j] = i
  <2>1. PICK j \in 0 .. cnt - 1 : order[j] = SlotOf(i)
    BY <1>1 DEF Lists
  <2>2. pos[j] \in 1 .. cnt /\ SlotOf(pos[j]) = SlotOf(i)
    BY <1>3, <2>1
  <2>3. pos[j] = i
    BY <1>1, <2>2
  <2> QED
    BY <2>3
<1>6. \A i, j \in 0 .. cnt - 1 : pos[i] = pos[j] => i = j
  BY <1>3 DEF Lists
<1>7. \A j \in 0 .. cnt - 1 : Aged[pos[j]] = samples[order[j]]
  BY <1>1, <1>3
<1>8. \A i, j \in 0 .. cnt - 1 : i <= j => Aged[pos[i]] <= Aged[pos[j]]
  BY <1>7 DEF Ascending
<1>9. ASSUME NEW k \in 1 .. cnt
      PROVE  /\ Smallest(Aged, k) = samples[order[k - 1]]
             /\ samples[order[k - 1]] \in Int
  <2>1. Smallest(Aged, k) = Aged[pos[k - 1]]
    <3>1. Aged \in Seq(Int) /\ Len(Aged) = cnt
      BY <1>1
    <3>2. Sorts(pos, Aged)
      BY <1>4, <1>5, <1>6, <1>8, <3>1 DEF Sorts
    <3> QED
      BY <3>1, <3>2, SmallestBySorting
  <2>2. k - 1 \in 0 .. cnt - 1
    BY <1>2
  <2>3. Aged[pos[k - 1]] \in Int
    BY <1>1, <1>3, <2>2, ElementOfSeq
  <2> QED
    BY <1>7, <2>1, <2>2, <2>3
<1> DEFINE n == cnt
           h == n \div 2
<1>10. h \in Nat /\ (n % 2 = 0 \/ n % 2 = 1) /\ n % 2 = n - 2 * h
  <2>1. \A m \in Nat : /\ m \div 2 \in Nat /\ (m % 2 = 0 \/ m % 2 = 1)
                       /\ m % 2 = m - 2 * (m \div 2)
    OBVIOUS
  <2> QED
    BY <1>2, <2>1
<1> HIDE DEF h
<1>11. CASE n % 2 = 1
  <2>1. (n + 1) \div 2 = h + 1 /\ h + 1 \in 1 .. n /\ (h + 1) - 1 = h
    BY <1>2, <1>10, <1>11 DEF h
  <2>2. Smallest(Aged, h + 1) = samples[order[h]] /\ samples[order[h]] \in Int
    BY <1>9, <2>1
  <2>3. Median(Modulus, Aged) = Smallest(Aged, h + 1)
    BY <1>1, <1>11, <2>1 DEF Median
  <2>4. Mmedian!MiddleOf(order, samples, cnt) = samples[order[h]]
    BY <1>11 DEF Mmedian!MiddleOf, h
  <2> QED
    BY <2>2, <2>3, <2>4
<1>12. CASE n % 2 = 0
  <2>1. h \in 1 .. n /\ h + 1 \in 1 .. n /\ (h + 1) - 1 = h
    BY <1>2, <1>10, <1>12
  <2>2. /\ Smallest(Aged, h + 1) = samples[order[h]]
        /\ samples[order[h]] \in Int
    BY <1>9, <2>1
  <2>3. /\ Smallest(Aged, h) = samples[order[h - 1]]
        /\ samples[order[h - 1]] \in Int
    BY <1>9, <2>1
  <2>4. Median(Modulus, Aged) =
           TmvDiv(WrapTo(Modulus, Smallest(Aged, h) + Smallest(Aged, h + 1)), 2)
    BY <1>1, <1>12 DEF Median, h
  <2>5. Mmedian!MiddleOf(order, samples, cnt) =
           TmvDiv(WrapTo(Modulus, samples[order[h - 1]] + samples[order[h]]), 2)
    BY <1>12 DEF Mmedian!MiddleOf, Mmedian!TmvDiv, TmvDiv, Mmedian!WrapTo, WrapTo, h
  <2>6. TmvDiv(WrapTo(Modulus, samples[order[h - 1]] + samples[order[h]]), 2) \in Int
    <3>1. samples[order[h - 1]] + samples[order[h]] \in Int
      BY <2>2, <2>3
    <3>2. WrapTo(Modulus, samples[order[h - 1]] + samples[order[h]]) \in Int
      BY <3>1, WordOfSum
    <3> QED
      BY <3>2, QuotientInt
  <2> QED
    BY <2>2, <2>3, <2>4, <2>5, <2>6
<1> QED
  BY <1>10, <1>11, <1>12

(* It is so after a step, too. *)
LEMMA MiddleStaysMedian ==
    /\ RingOK' /\ order' \in [Slots -> Slots] /\ cnt' > 0
    /\ Lists(order', cnt', 0 .. cnt' - 1) /\ Ascending(order', samples', cnt')
    =>
    /\ Mmedian!MiddleOf(order', samples', cnt') = Median(Modulus, Aged')
    /\ Median(Modulus, Aged') \in Int
<1>1. (/\ RingOK /\ order \in [Slots -> Slots] /\ cnt > 0
       /\ Lists(order, cnt, 0 .. cnt - 1) /\ Ascending(order, samples, cnt))
      => (/\ Mmedian!MiddleOf(order, samples, cnt) = Median(Modulus, Aged)
          /\ Median(Modulus, Aged) \in Int)
  BY MiddleIsMedian
<1>2. (/\ RingOK /\ order \in [Slots -> Slots] /\ cnt > 0
       /\ Lists(order, cnt, 0 .. cnt - 1) /\ Ascending(order, samples, cnt))'
      => (/\ Mmedian!MiddleOf(order, samples, cnt) = Median(Modulus, Aged)
          /\ Median(Modulus, Aged) \in Int)'
  BY <1>1, PTL
<1> QED
  BY <1>2

-----------------------------------------------------------------------------
(* f holds the sums of the first samples of the window w. *)
Adds(f, w) ==
    /\ f \in [0 .. Len(w) -> Int]
    /\ f[0] = 0
    /\ \A n \in 1 .. Len(w) : f[n] = f[n - 1] + w[n]

(* There are such sums. *)
LEMMA SumsExist ==
    ASSUME NEW w \in Seq(Int)
    PROVE  \E f : Adds(f, w)
<1>1. PICK len \in Nat : Len(w) = len
  BY LenProperties
<1>2. \A n \in 1 .. len : w[n] \in Int
  BY <1>1, ElementOfSeq
<1> DEFINE fits(f, m) == /\ f \in [0 .. m -> Int] /\ f[0] = 0
                         /\ \A n \in 1 .. m : f[n] = f[n - 1] + w[n]
           T == {m \in 0 .. len : ~ \E f : fits(f, m)}
<1>3. SUFFICES \E f : fits(f, len)
  BY <1>1 DEF Adds
<1>4. SUFFICES ASSUME T # {} PROVE FALSE
  <2>1. len \in 0 .. len
    OBVIOUS
  <2>2. len \notin T => \E f : fits(f, len)
    <3> HIDE DEF fits
    <3> QED
      BY <2>1
  <2> HIDE DEF T, fits
  <2> QED
    BY <2>2
<1>5. PICK m \in T : \A k \in T : m <= k
  <2>1. T \in SUBSET Nat
    OBVIOUS
  <2> HIDE DEF T
  <2> QED
    BY <1>4, <2>1, LeastNumber
<1>6. m \in 0 .. len /\ ~ \E f : fits(f, m)
  BY <1>5
<1>7. m # 0
  <2>1. fits([n \in 0 .. 0 |-> 0], 0)
    OBVIOUS
  <2> HIDE DEF fits
  <2> QED
    BY <1>6, <2>1
<1>8. m - 1 \in 0 .. len /\ ~(m <= m - 1) /\ m \in Nat \ {0}
  BY <1>1, <1>6, <1>7
<1>9. PICK g : fits(g, m - 1)
  BY <1>5, <1>8
<1> DEFINE f == [n \in 0 .. m |-> IF n = m THEN g[m - 1] + w[m] ELSE g[n]]
<1>10. fits(f, m)
  <2>1. w[m] \in Int /\ g[m - 1] \in Int
    BY <1>2, <1>6, <1>8, <1>9
  <2>2. f \in [0 .. m -> Int]
    BY <1>8, <1>9, <2>1
  <2>3. f[0] = 0
    BY <1>8, <1>9
  <2>4. ASSUME NEW n \in 1 .. m
        PROVE  f[n] = f[n - 1] + w[n]
    <3>1. CASE n = m
      BY <1>8, <3>1
    <3>2. CASE n \in 1 .. m - 1
      <4>1. g[n] = g[n - 1] + w[n]
        BY <1>9, <3>2
      <4>2. f[n] = g[n] /\ f[n - 1] = g[n - 1]
        BY <1>8, <3>2
      <4> QED
        BY <4>1, <4>2
    <3>3. n = m \/ n \in 1 .. m - 1
      BY <1>8
    <3> QED
      BY <3>1, <3>2, <3>3
  <2> QED
    BY <2>2, <2>3, <2>4
<1> QED
  BY <1>6, <1>10

(***************************************************************************)
(* The recursive sum ends in the last of them.                             *)
(***************************************************************************)
LEMMA TotalIsLastSum ==
    ASSUME NEW w \in Seq(Int), NEW f, Adds(f, w)
    PROVE  Total(w) = f[Len(w)] /\ Total(w) \in Int
<1> DEFINE def(s) ==
             s = [n \in 0 .. Len(w) |-> IF n = 0 THEN 0 ELSE s[n - 1] + w[n]]
           sums == CHOOSE s : def(s)
<1>1. Len(w) \in Nat /\ \A n \in 1 .. Len(w) : w[n] \in Int
  BY LenProperties
<1>2. Total(w) = sums[Len(w)]
  BY DEF Total
<1>3. def(f)
  BY <1>1 DEF Adds
<1>4. def(sums)
  <2> HIDE DEF def
  <2> QED
    BY <1>3
<1> HIDE DEF sums
<1>5. Len(w) \in 0 .. Len(w) /\ 0 \in 0 .. Len(w)
  BY <1>1
<1> DEFINE T == {n \in 0 .. Len(w) : sums[n] # f[n]}
<1>6. T = {}
  <2>1. SUFFICES ASSUME T # {} PROVE FALSE
    OBVIOUS
  <2>2. PICK m \in T : \A k \in T : m <= k
    <3>1. T \in SUBSET Nat
      OBVIOUS
    <3> HIDE DEF T
    <3> QED
      BY <2>1, <3>1, LeastNumber
  <2>3. m \in 0 .. Len(w) /\ sums[m] # f[m]
    BY <2>2
  <2>4. sums[m] = IF m = 0 THEN 0 ELSE sums[m - 1] + w[m]
    BY <1>4, <2>3
  <2>5. f[m] = IF m = 0 THEN 0 ELSE f[m - 1] + w[m]
    BY <1>3, <2>3
  <2>6. m # 0 /\ sums[m - 1] # f[m - 1]
    BY <2>3, <2>4, <2>5
  <2>7. m - 1 \in 0 .. Len(w) /\ ~(m <= m - 1)
    BY <1>1, <2>3, <2>6
  <2> QED
    BY <2>2, <2>6, <2>7
<1>7. sums[Len(w)] = f[Len(w)]
  BY <1>5, <1>6
<1>8. f[Len(w)] \in Int
  BY <1>5 DEF Adds
<1> QED
  BY <1>2, <1>7, <1>8

(* The sum of no samples. *)
LEMMA TotalOfNone == Total(<<>>) = 0
<1>1. <<>> \in Seq(Int) /\ Len(<<>>) = 0
  BY EmptySeq
<1>2. Adds([n \in 0 .. 0 |-> 0], <<>>)
  BY <1>1 DEF Adds
<1>3. Total(<<>>) = [n \in 0 .. 0 |-> 0][Len(<<>>)]
  BY <1>1, <1>2, TotalIsLastSum
<1> QED
  BY <1>1, <1>3

(* A sample at the end is added. *)
LEMMA TotalOfAppend ==
    ASSUME NEW w \in Seq(Int), NEW v \in Int
    PROVE  Total(Append(w, v)) = Total(w) + v
<1> DEFINE longer == Append(w, v)
<1>1. PICK len \in Nat : Len(w) = len
  BY LenProperties
<1>2. /\ longer \in Seq(Int) /\ Len(longer) = len + 1
      /\ \A n \in 1 .. len : longer[n] = w[n]
      /\ longer[len + 1] = v
  BY <1>1, AppendProperties
<1> HIDE DEF longer
<1>3. PICK g : Adds(g, w)
  BY SumsExist
<1>4. Total(w) = g[len] /\ Total(w) \in Int
  BY <1>1, <1>3, TotalIsLastSum
<1>5. /\ g \in [0 .. len -> Int] /\ g[0] = 0
      /\ \A n \in 1 .. len : g[n] = g[n - 1] + w[n]
  BY <1>1, <1>3 DEF Adds
<1> DEFINE f == [n \in 0 .. len + 1 |->
                   IF n = len + 1 THEN g[len] + v ELSE g[n]]
<1>6. Adds(f, longer)
  <2>1. f \in [0 .. len + 1 -> Int] /\ f[0] = 0
    BY <1>4, <1>5
  <2>2. ASSUME NEW n \in 1 .. len + 1
        PROVE  f[n] = f[n - 1] + longer[n]
    <3>1. CASE n = len + 1
      BY <1>2, <3>1
    <3>2. CASE n \in 1 .. len
      <4>1. f[n] = g[n] /\ f[n - 1] = g[n - 1]
        BY <3>2
      <4> QED
        BY <1>2, <1>5, <3>2, <4>1
    <3>3. n = len + 1 \/ n \in 1 .. len
      OBVIOUS
    <3> QED
      BY <3>1, <3>2, <3>3
  <2> HIDE DEF f
  <2> QED
    BY <1>2, <2>1, <2>2 DEF Adds
<1>7. Total(longer) = f[len + 1]
  BY <1>2, <1>6, TotalIsLastSum
<1> QED
  BY <1>4, <1>7 DEF longer

(* Without the first sample the sum is smaller by it. *)
LEMMA TotalOfTail ==
    ASSUME NEW w \in Seq(Int), w # <<>>
    PROVE  Total(Tail(w)) = Total(w) - w[1] /\ w[1] \in Int
<1>1. PICK len \in Nat \ {0} : Len(w) = len
  BY EmptySeq
<1>2. /\ Tail(w) \in Seq(Int) /\ Len(Tail(w)) = len - 1
      /\ \A n \in 1 .. len - 1 : Tail(w)[n] = w[n + 1]
  BY <1>1, HeadTailProperties
<1>3. PICK g : Adds(g, w)
  BY SumsExist
<1>4. Total(w) = g[len]
  BY <1>1, <1>3, TotalIsLastSum
<1>5. /\ g \in [0 .. len -> Int] /\ g[0] = 0
      /\ \A n \in 1 .. len : g[n] = g[n - 1] + w[n]
  BY <1>1, <1>3 DEF Adds
<1>6. w[1] \in Int /\ g[1] = w[1]
  <2>1. w[1] \in Int
    BY <1>1, ElementOfSeq
  <2>2. g[1] = g[1 - 1] + w[1]
    BY <1>5
  <2> QED
    BY <1>5, <2>1, <2>2
<1> DEFINE f == [n \in 0 .. len - 1 |-> g[n + 1] - w[1]]
<1>7. Adds(f, Tail(w))
  <2>0. \A n \in 0 .. len - 1 : g[n + 1] - w[1] \in Int
    BY <1>5, <1>6
  <2>1. f \in [0 .. len - 1 -> Int] /\ f[0] = 0
    <3>1. f \in [0 .. len - 1 -> Int]
      BY <2>0
    <3>2. f[0] = g[0 + 1] - w[1] /\ 0 + 1 = 1
      OBVIOUS
    <3> QED
      BY <1>6, <3>1, <3>2
  <2>2. ASSUME NEW n \in 1 .. len - 1
        PROVE  f[n] = f[n - 1] + Tail(w)[n]
    <3>1. g[n + 1] = g[(n + 1) - 1] + w[n + 1]
      BY <1>5
    <3>2. (n + 1) - 1 = n /\ (n - 1) + 1 = n
      OBVIOUS
    <3>3. f[n] = g[n + 1] - w[1] /\ f[n - 1] = g[n] - w[1]
      BY <3>2
    <3>4. g[n] \in Int /\ g[n + 1] \in Int /\ w[n + 1] \in Int
      <4>1. w[n + 1] \in Int
        BY <1>1, ElementOfSeq
      <4> QED
        BY <1>5, <4>1
    <3>5. Tail(w)[n] = w[n + 1]
      BY <1>2
    <3>6. g[n + 1] = g[n] + w[n + 1]
      BY <3>1, <3>2
    <3> DEFINE a == g[n] b == g[n + 1] c == w[n + 1] d == w[1]
    <3>7. /\ a \in Int /\ b \in Int /\ c \in Int /\ d \in Int /\ b = a + c
          /\ f[n] = b - d /\ f[n - 1] = a - d /\ Tail(w)[n] = c
      BY <1>6, <3>3, <3>4, <3>5, <3>6
    <3> HIDE DEF f, a, b, c, d
    <3>8. b - d = (a - d) + c
      BY <3>7
    <3> QED
      BY <3>7, <3>8, Zenon
  <2> HIDE DEF f
  <2> QED
    BY <1>2, <2>1, <2>2 DEF Adds
<1>8. Total(Tail(w)) = f[len - 1]
  BY <1>2, <1>7, TotalIsLastSum
<1>9. f[len - 1] = g[len] - w[1]
  OBVIOUS
<1> QED
  BY <1>4, <1>6, <1>8, <1>9

-----------------------------------------------------------------------------
(* A wrapped value is one of the word. *)
LEMMA WrapRange ==
    ASSUME NEW m \in Nat \ {0}, m % 2 = 0, NEW x \in Int
    PROVE  WrapTo(m, x) \in -(m \div 2) .. m \div 2 - 1
<1>1. PICK h \in Nat : h = m \div 2 /\ m = 2 * h
  BY SMTT(30)
<1>2. (x + h) % m \in 0 .. m - 1
  BY <1>1
<1>3. WrapTo(m, x) = ((x + h) % m) - h
  BY <1>1 DEF WrapTo
<1> QED
  BY <1>1, <1>2, <1>3

(* Whole turns of the word do not change the remainder. *)
LEMMA WholeTurns ==
    ASSUME NEW m \in Nat \ {0}, NEW a \in Int, NEW k \in Int
    PROVE  (a + m * k) % m = a % m
<1>1. \A c \in Int : /\ c % m \in 0 .. m - 1 /\ c \div m \in Int
                     /\ c % m = c - m * (c \div m)
  OBVIOUS
<1>2. PICK b \in Int : b = a + m * k
  OBVIOUS
<1>3. PICK q \in Int, r \in 0 .. m - 1 : r = a % m /\ r = a - m * q
  BY <1>1
<1>4. PICK p \in Int, s \in 0 .. m - 1 : s = b % m /\ s = b - m * p
  BY <1>1
<1>5. PICK d \in Int : d = q + k - p
  OBVIOUS
<1>6. m * d = m * q + m * k - m * p
  BY <1>5
<1>7. s - r = m * d
  BY <1>2, <1>3, <1>4, <1>6
<1>8. CASE d = 0
  BY <1>2, <1>3, <1>4, <1>7, <1>8
<1>9. CASE d >= 1
  <2>1. m * d >= m
    BY <1>9
  <2> QED
    BY <1>7, <2>1
<1>10. CASE d <= -1
  <2>1. m * d <= -m
    BY <1>10
  <2> QED
    BY <1>7, <2>1
<1> QED
  BY <1>8, <1>9, <1>10

(***************************************************************************)
(* To wrap around in between makes no difference to a sum.                 *)
(***************************************************************************)
LEMMA WrapInBetween ==
    ASSUME NEW m \in Nat \ {0}, NEW x \in Int, NEW y \in Int
    PROVE  WrapTo(m, WrapTo(m, x) + y) = WrapTo(m, x + y)
<1> DEFINE h == m \div 2
<1>1. h \in Int
  OBVIOUS
<1> HIDE DEF h
<1>2. \A c \in Int : /\ c % m \in Int /\ c \div m \in Int
                     /\ c % m = c - m * (c \div m)
  OBVIOUS
<1>3. PICK k \in Int : (x + h) % m = (x + h) - m * k
  <2>1. x + h \in Int
    BY <1>1
  <2>2. (x + h) \div m \in Int /\ (x + h) % m = (x + h) - m * ((x + h) \div m)
    BY <1>2, <2>1
  <2> QED
    BY <2>2
<1>4. WrapTo(m, x) = x - m * k
  BY <1>1, <1>3 DEF WrapTo, h
<1>5. WrapTo(m, x) + y + h = (x + y + h) + m * (-k)
  BY <1>1, <1>4
<1>6. (WrapTo(m, x) + y + h) % m = (x + y + h) % m
  <2>1. x + y + h \in Int /\ -k \in Int
    BY <1>1
  <2>2. ((x + y + h) + m * (-k)) % m = (x + y + h) % m
    BY <2>1, WholeTurns
  <2> QED
    BY <1>5, <2>2
<1> QED
  BY <1>6 DEF WrapTo, h

-----------------------------------------------------------------------------
(* The running sum is the one of the window, and what is subtracted before *)
(* the ring is full is 0.                                                  *)
AverageInv ==
    type = "moving_average" =>
        /\ sum = WrapTo(Modulus, Total(Aged))
        /\ \A k \in Slots : k >= cnt => samples[k] = 0

FilterInv == FilterTypeOK /\ OrderInv /\ AverageInv

(* The word has zero in it. *)
LEMMA WordHasZero ==
    /\ Modulus \in Nat \ {0} /\ Modulus % 2 = 0 /\ Values \subseteq Int
    /\ 0 \in -(Modulus \div 2) .. Modulus \div 2 - 1
    /\ WrapTo(Modulus, 0) = 0
<1>1. Modulus \in Nat \ {0} /\ Modulus % 2 = 0
  BY FilterAssumption
<1>2. PICK h \in Nat : h = Modulus \div 2 /\ Modulus = 2 * h
  BY <1>1, SMTT(30)
<1>3. Values \subseteq Int
  BY <1>2, FilterAssumption
<1>4. (0 + h) % Modulus = h
  BY <1>1, <1>2
<1>5. WrapTo(Modulus, 0) = 0
  BY <1>2, <1>4 DEF WrapTo
<1> QED
  BY <1>1, <1>2, <1>3, <1>5

(* The window of an empty ring is empty, also after a step. *)
LEMMA NothingAged == RingOK /\ cnt = 0 => Aged = <<>>
<1> SUFFICES ASSUME RingOK, cnt = 0 PROVE Aged = <<>>
  OBVIOUS
<1>1. Aged \in Seq(Int) /\ Len(Aged) = 0
  BY WindowIsOnRing DEF WindowOnRing
<1> QED
  BY <1>1, EmptySeq

LEMMA NothingAgedAfter == RingOK' /\ cnt' = 0 => Aged' = <<>>
<1>1. (RingOK /\ cnt = 0)' => (Aged = <<>>)'
  BY NothingAged, PTL
<1> QED
  BY <1>1

(* filter_create() *)
LEMMA FilterInit ==
    ASSUME Init
    PROVE  FilterInv /\ Aged = <<>> /\ output = 0
<1>1. /\ type \in Types /\ cnt = 0 /\ index = 0 /\ output = 0 /\ sum = 0
      /\ order = [k \in Slots |-> 0] /\ samples = [k \in Slots |-> 0]
  BY DEF Init, Types, Mmedian!Init, Mave!Init, Slots, Mmedian!Slots,
         Mave!Slots
<1>2. Length \in Nat \ {0} /\ 0 \in Slots
  BY LengthAssumption DEF Slots
<1>3. RingOK
  BY <1>1, <1>2 DEF RingOK
<1>4. Aged = <<>>
  BY <1>1, <1>3, NothingAged
<1>5. FilterTypeOK
  BY <1>1, <1>2, <1>3, WordHasZero DEF FilterTypeOK
<1>6. OrderInv
  BY <1>1 DEF OrderInv, Lists, Ascending
<1>7. AverageInv
  BY <1>1, <1>4, WordHasZero, TotalOfNone DEF AverageInv
<1> QED
  BY <1>1, <1>4, <1>5, <1>6, <1>7 DEF FilterInv

(***************************************************************************)
(* The running sum follows the window: the sample that falls out is the    *)
(* one in the slot that is written, and 0 is subtracted if none does.      *)
(***************************************************************************)
LEMMA SumFollowsWindow ==
    ASSUME FilterInv, type = "moving_average", NEW v \in Int,
           Mave!Accumulate(v)
    PROVE  sum' = WrapTo(Modulus, Total(Aged'))
<1>1. RingOK /\ sum = WrapTo(Modulus, Total(Aged))
      /\ \A k \in Slots : k >= cnt => samples[k] = 0
  BY DEF FilterInv, FilterTypeOK, AverageInv
<1>2. RingSample(v)
  BY DEF RingSample, Mave!Accumulate
<1>3. Length \in Nat \ {0} /\ cnt \in 0 .. Length /\ index \in Slots
      /\ index \in 0 .. Length - 1
      /\ (cnt < Length => index = cnt) /\ samples[index] \in Int
  BY <1>1, LengthAssumption DEF RingOK, Slots
<1>4. Modulus \in Nat \ {0}
  BY WordHasZero
<1>5. /\ Aged \in Seq(Int) /\ Len(Aged) = cnt
      /\ \A k \in 1 .. cnt :
            /\ Aged[k] = samples[SlotOf(k)]
            /\ SlotOf(k) = IF index - cnt + k - 1 < 0
                           THEN index - cnt + k - 1 + Length
                           ELSE index - cnt + k - 1
  BY <1>1, WindowIsOnRing DEF WindowOnRing
<1> DEFINE t == Total(Aged) out == samples[index]
<1>6. t \in Int /\ out \in Int
  BY <1>3, <1>5, SumsExist, TotalIsLastSum
<1>7. sum' = WrapTo(Modulus, WrapTo(Modulus, sum - out) + v)
  BY DEF Mave!Accumulate, Mave!WrapTo, WrapTo
<1>8. Total(Aged') = (t - out) + v
  <2>1. Aged' = Abstract!Pushed(Aged, v, Length)
    BY <1>1, <1>2, SampleIsPushed
  <2> DEFINE longer == Append(Aged, v)
  <2>2. /\ longer \in Seq(Int) /\ longer # <<>> /\ Len(longer) = cnt + 1
        /\ \A k \in 1 .. cnt : longer[k] = Aged[k]
    BY <1>5, AppendProperties
  <2>3. Total(longer) = t + v
    BY <1>5, TotalOfAppend
  <2>4. CASE cnt < Length
    <3>1. out = 0
      BY <1>1, <1>3, <2>4
    <3>2. Aged' = longer
      BY <1>3, <2>1, <2>2, <2>4 DEF Abstract!Pushed
    <3> HIDE DEF longer, t, out
    <3> QED
      BY <1>6, <2>3, <3>1, <3>2
  <2>5. CASE cnt = Length
    <3>1. Aged' = Tail(longer)
      BY <1>3, <2>1, <2>2, <2>5 DEF Abstract!Pushed
    <3>2. 1 \in 1 .. cnt
      BY <1>3, <2>5
    <3>3. SlotOf(1) = index
      BY <1>3, <1>5, <2>5, <3>2
    <3>4. longer[1] = out
      BY <1>5, <2>2, <3>2, <3>3
    <3>5. Total(Tail(longer)) = Total(longer) - longer[1]
      <4> HIDE DEF longer
      <4> QED
        BY <2>2, TotalOfTail
    <3> HIDE DEF longer, t, out
    <3> QED
      BY <1>6, <2>3, <3>1, <3>4, <3>5
  <2> QED
    BY <1>3, <2>4, <2>5
<1>9. WrapTo(Modulus, sum - out) = WrapTo(Modulus, t - out)
  <2>1. sum - out = WrapTo(Modulus, t) + (-out)
    <3>1. WrapTo(Modulus, t) \in Int
      BY <1>4, <1>6 DEF WrapTo
    <3> HIDE DEF t, out
    <3> QED
      BY <1>1, <1>6, <3>1 DEF t
  <2>2. t - out = t + (-out) /\ -out \in Int
    BY <1>6
  <2> HIDE DEF t, out
  <2>3. WrapTo(Modulus, WrapTo(Modulus, t) + (-out))
           = WrapTo(Modulus, t + (-out))
    BY <1>4, <1>6, <2>2, WrapInBetween
  <2> QED
    BY <2>1, <2>2, <2>3
<1>10. WrapTo(Modulus, WrapTo(Modulus, t - out) + v)
          = WrapTo(Modulus, (t - out) + v)
  <2>1. t - out \in Int
    BY <1>6
  <2> HIDE DEF t, out
  <2> QED
    BY <1>4, <2>1, WrapInBetween
<1> QED
  BY <1>7, <1>8, <1>9, <1>10

(***************************************************************************)
(* filter_sample(): the window slides, and the output is its estimate.     *)
(***************************************************************************)
LEMMA SampleStep ==
    ASSUME FilterInv, NEW v \in Values, Sample(v)
    PROVE  /\ FilterInv'
           /\ Aged' = Abstract!Pushed(Aged, v, Length)
           /\ output' = Estimate(type, Aged')
<1>1. v \in Int /\ Modulus \in Nat \ {0} /\ Modulus % 2 = 0
  BY WordHasZero
<1>2. RingOK /\ FilterTypeOK
  BY DEF FilterInv, FilterTypeOK
<1>3. RingSample(v) /\ type' = type
  BY DEF Sample, Mmedian!Sample, Mave!Accumulate, RingSample
<1>4. RingOK' /\ cnt' \in 1 .. Length
  BY <1>1, <1>2, <1>3, RingMoves
<1>5. Aged' = Abstract!Pushed(Aged, v, Length)
  BY <1>1, <1>2, <1>3, SampleIsPushed
<1>6. Aged' \in Seq(Int) /\ Len(Aged') = cnt' /\ cnt' \in Nat \ {0}
  <2>1. cnt' \in Nat \ {0}
    BY <1>4, LengthAssumption
  <2> QED
    BY <1>4, <2>1, WindowStaysOnRing DEF WindowOnRing
<1>7. CASE type = "moving_median"
  <2>1. Mmedian!Sample(v) /\ sum' = sum
    BY <1>7 DEF Sample
  <2>2. /\ order' \in [Slots -> Slots]
        /\ Lists(order', cnt', 0 .. cnt' - 1)
        /\ Ascending(order', samples', cnt')
    BY <1>1, <1>2, <1>7, <2>1, SampleKeepsOrder DEF FilterInv
  <2>3. Mmedian!MiddleOf(order', samples', cnt') = Median(Modulus, Aged')
        /\ Median(Modulus, Aged') \in Int
    BY <1>4, <1>6, <2>2, MiddleStaysMedian
  <2>4. output' = Median(Modulus, Aged')
    BY <2>1, <2>3 DEF Mmedian!Sample
  <2>5. output' = Estimate(type, Aged')
    BY <1>7, <2>4 DEF Estimate
  <2>6. FilterTypeOK'
    BY <1>2, <1>3, <1>4, <2>1, <2>2, <2>3, <2>4 DEF FilterTypeOK
  <2>7. OrderInv' /\ AverageInv'
    BY <1>3, <1>7, <2>2 DEF OrderInv, AverageInv
  <2> QED
    BY <1>5, <2>5, <2>6, <2>7 DEF FilterInv
<1>8. CASE type = "moving_average"
  <2>1. Mave!Accumulate(v) /\ order' = order
    BY <1>8 DEF Sample
  <2>2. sum' = WrapTo(Modulus, Total(Aged'))
    BY <1>1, <1>8, <2>1, SumFollowsWindow
  <2>3. Total(Aged') \in Int
    BY <1>6, SumsExist, TotalIsLastSum
  <2>4. sum' \in -(Modulus \div 2) .. Modulus \div 2 - 1
    BY <1>1, <2>2, <2>3, WrapRange
  <2>5. output' = TmvDiv(sum', cnt')
    BY <2>1 DEF Mave!Accumulate, Mave!TmvDiv, TmvDiv
  <2>6. output' = Estimate(type, Aged')
    BY <1>6, <1>8, <2>2, <2>5 DEF Estimate, Mean
  <2>7. output' \in Int
    <3>1. sum' \in Int
      BY <1>1, <2>2, <2>3 DEF WrapTo
    <3> QED
      BY <1>6, <2>5, <3>1, QuotientInt
  <2>8. FilterTypeOK'
    BY <1>2, <1>3, <1>4, <2>1, <2>4, <2>7 DEF FilterTypeOK
  <2>9. ASSUME NEW k \in Slots, k >= cnt'
        PROVE  samples'[k] = 0
    <3>1. Length \in Nat \ {0} /\ cnt \in 0 .. Length
          /\ (cnt < Length => index = cnt) /\ samples \in [Slots -> Int]
      BY <1>2, LengthAssumption DEF RingOK
    <3>2. samples' = [samples EXCEPT ![index] = v]
          /\ cnt' = IF cnt < Length THEN cnt + 1 ELSE cnt
      BY <1>3 DEF RingSample
    <3>3. k < Length /\ k \in Nat
      BY <3>1 DEF Slots
    <3>4. cnt < Length /\ k > cnt
      BY <2>9, <3>1, <3>2, <3>3
    <3>5. k # index /\ samples[k] = 0
      BY <1>8, <3>1, <3>3, <3>4 DEF FilterInv, AverageInv
    <3> QED
      BY <3>1, <3>2, <3>5
  <2>10. OrderInv' /\ AverageInv'
    BY <1>3, <1>8, <2>2, <2>9 DEF OrderInv, AverageInv
  <2> QED
    BY <1>5, <2>6, <2>8, <2>10 DEF FilterInv
<1> QED
  BY <1>2, <1>7, <1>8 DEF FilterTypeOK, Types

(* filter_reset(): nothing of the old samples is left in the window. *)
LEMMA ResetStep ==
    ASSUME FilterInv, Reset
    PROVE  FilterInv' /\ Aged' = <<>> /\ type' = type /\ output' = output
<1>1. FilterTypeOK /\ RingOK /\ Length \in Nat \ {0} /\ 0 \in Slots
  BY LengthAssumption DEF FilterInv, FilterTypeOK, Slots
<1>2. /\ cnt' = 0 /\ index' = 0 /\ type' = type /\ output' = output
      /\ order' = order
  BY DEF Reset, Mmedian!Reset, Mave!Reset
<1>3. \/ type = "moving_median" /\ samples' = samples /\ sum' = sum
      \/ /\ type = "moving_average" /\ samples' = [k \in Slots |-> 0]
         /\ sum' = 0
  BY DEF Reset, Mmedian!Reset, Mave!Reset, Slots, Mave!Slots
<1>4. RingOK'
  BY <1>1, <1>2, <1>3 DEF RingOK
<1>5. Aged' = <<>>
  BY <1>2, <1>4, NothingAgedAfter
<1>6. FilterTypeOK'
  BY <1>1, <1>2, <1>3, <1>4, WordHasZero DEF FilterTypeOK
<1>7. OrderInv'
  BY <1>2 DEF OrderInv, Lists, Ascending
<1>8. AverageInv'
  <2>1. Total(Aged') = 0
    BY <1>5, TotalOfNone
  <2> QED
    BY <1>2, <1>3, <2>1, WordHasZero DEF AverageInv
<1> QED
  BY <1>2, <1>5, <1>6, <1>7, <1>8 DEF FilterInv

(* The invariant holds in every reachable state. *)
LEMMA FilterInvariance == Spec => []FilterInv
<1>1. Init => FilterInv
  BY FilterInit
<1>2. FilterInv /\ [Next]_vars => FilterInv'
  <2> SUFFICES ASSUME FilterInv, [Next]_vars PROVE FilterInv'
    OBVIOUS
  <2>1. ASSUME NEW v \in Values, Sample(v) PROVE FilterInv'
    BY <2>1, SampleStep
  <2>2. CASE Reset
    BY <2>2, ResetStep
  <2>3. CASE UNCHANGED vars
    BY <2>3 DEF vars, FilterInv, FilterTypeOK, RingOK, OrderInv, AverageInv,
                Lists, Ascending, Aged
  <2> QED
    BY <2>1, <2>2, <2>3 DEF Next
<1> QED
  BY <1>1, <1>2, PTL DEF Spec

(***************************************************************************)
(* The filters are type correct, for every length of their ring, every     *)
(* word and all samples and resets (mmedian.c, mave.c).                    *)
(***************************************************************************)
THEOREM FilterTypes == Spec => []TypeOK
<1>1. FilterInv => TypeOK
  BY DEF FilterInv, FilterTypeOK, RingOK, TypeOK, Mmedian!TypeOK, Mave!TypeOK,
         Slots, Mmedian!Slots, Mave!Slots
<1> QED
  BY <1>1, FilterInvariance, PTL

(***************************************************************************)
(* `order' has every slot in use once among its first cnt entries, in the  *)
(* order of their samples, however often the ring has wrapped or was       *)
(* reset: the search of mmedian.c:47 always finds the slot it looks for.   *)
(***************************************************************************)
THEOREM OrderStaysSorted == Spec => []OrderIsSorted
<1>1. FilterInv => OrderIsSorted
  <2> SUFFICES ASSUME FilterInv, type = "moving_median"
               PROVE  Mmedian!OrderIsSorted
    BY DEF OrderIsSorted
  <2>1. cnt \in Nat /\ Lists(order, cnt, 0 .. cnt - 1)
        /\ Ascending(order, samples, cnt)
    BY LengthAssumption DEF FilterInv, FilterTypeOK, RingOK, OrderInv
  <2>2. {order[k] : k \in 0 .. cnt - 1} = 0 .. cnt - 1
    BY <2>1 DEF Lists
  <2>3. ASSUME NEW k \in 1 .. cnt - 1
        PROVE  samples[order[k - 1]] <= samples[order[k]]
    <3>1. k - 1 \in 0 .. cnt - 1 /\ k \in 0 .. cnt - 1 /\ k - 1 <= k
      BY <2>1
    <3> QED
      BY <2>1, <3>1 DEF Ascending
  <2> QED
    BY <2>2, <2>3 DEF Mmedian!OrderIsSorted
<1> QED
  BY <1>1, FilterInvariance, PTL

(***************************************************************************)
(* Both filters implement the abstract one: ring and order array give the  *)
(* median of the latest samples, ring and running sum their mean, for      *)
(* every length and every word, in which the sum of the two samples in the *)
(* middle and the running sum wrap around; a reset empties the window.     *)
(***************************************************************************)
THEOREM FiltersEstimateWindow == Spec => EstimatesWindow
<1>1. Init => Abstract!Init
  BY FilterInit DEF Abstract!Init, FilterInv, FilterTypeOK
<1>2. FilterInv /\ [Next]_vars => [Abstract!Next]_<<type, Aged, output>>
  <2> SUFFICES ASSUME FilterInv, [Next]_vars
               PROVE  [Abstract!Next]_<<type, Aged, output>>
    OBVIOUS
  <2>1. ASSUME NEW v \in Values, Sample(v) PROVE Abstract!Next
    <3>1. Aged' = Abstract!Pushed(Aged, v, Length)
          /\ output' = Estimate(type, Aged') /\ type' = type
      BY <2>1, SampleStep DEF Sample
    <3>2. Abstract!Sample(v)
      BY <3>1 DEF Abstract!Sample
    <3> QED
      BY <3>2 DEF Abstract!Next
  <2>2. CASE Reset
    <3>1. Abstract!Reset
      BY <2>2, ResetStep DEF Abstract!Reset
    <3> QED
      BY <3>1 DEF Abstract!Next
  <2>3. CASE UNCHANGED vars
    BY <2>3 DEF vars, Aged
  <2> QED
    BY <2>1, <2>2, <2>3 DEF Next
<1> QED
  BY <1>1, <1>2, FilterInvariance, PTL DEF Spec, EstimatesWindow, Abstract!Spec

-----------------------------------------------------------------------------
(* The places whose samples are at most, or less than, x. *)
UpTo(w, x) == {i \in 1 .. Len(w) : w[i] <= x}
Below(w, x) == {i \in 1 .. Len(w) : w[i] < x}

(* They can be counted, and a subset has no more of them. *)
LEMMA PlacesAreFinite ==
    ASSUME NEW w \in Seq(Int), NEW S, S \subseteq 1 .. Len(w)
    PROVE  /\ IsFiniteSet(S) /\ Cardinality(S) \in Nat
           /\ \A T : T \subseteq S => Cardinality(T) <= Cardinality(S)
           /\ \A T : T \subseteq S /\ T # S => Cardinality(T) < Cardinality(S)
<1>1. IsFiniteSet(1 .. Len(w))
  BY LenProperties, FS_Interval
<1>2. IsFiniteSet(S)
  BY <1>1, FS_Subset
<1>3. Cardinality(S) \in Nat
  BY <1>2, FS_CardinalityType
<1>4. ASSUME NEW T, T \subseteq S
      PROVE  /\ Cardinality(T) \in Nat /\ Cardinality(T) <= Cardinality(S)
             /\ Cardinality(S) = Cardinality(T) => S = T
  <2>1. IsFiniteSet(T) /\ Cardinality(T) <= Cardinality(S)
        /\ (Cardinality(S) = Cardinality(T) => S = T)
    BY <1>2, <1>4, FS_Subset
  <2> QED
    BY <2>1, FS_CardinalityType
<1>5. ASSUME NEW T, T \subseteq S, T # S
      PROVE  Cardinality(T) < Cardinality(S)
  <2>1. /\ Cardinality(T) \in Nat /\ Cardinality(T) <= Cardinality(S)
        /\ Cardinality(S) # Cardinality(T)
    BY <1>4, <1>5
  <2> QED
    BY <1>3, <2>1
<1> QED
  BY <1>2, <1>3, <1>4, <1>5

(* Among some places one has the largest sample. *)
LEMMA LargestSample ==
    ASSUME NEW w \in Seq(Int), NEW B, B \subseteq 1 .. Len(w), B # {}
    PROVE  \E j \in B : \A i \in B : w[i] <= w[j]
<1>1. PICK n \in Nat : Len(w) = n
  BY LenProperties
<1>2. \A i \in 1 .. n : w[i] \in Int
  BY <1>1, ElementOfSeq
<1> DEFINE rank(i) == Cardinality(UpTo(w, w[i]))
<1>3. Cardinality(1 .. n) = n
  BY FS_Interval
<1>4. ASSUME NEW i \in 1 .. n
      PROVE  rank(i) \in 0 .. n
  <2>1. UpTo(w, w[i]) \subseteq 1 .. Len(w)
    BY <1>1 DEF UpTo
  <2>2. rank(i) \in Nat /\ rank(i) <= Cardinality(1 .. Len(w))
    BY <2>1, PlacesAreFinite
  <2> QED
    BY <1>1, <1>3, <2>2
<1>5. ASSUME NEW i \in 1 .. n, NEW j \in 1 .. n, w[i] < w[j]
      PROVE  rank(i) < rank(j)
  <2>1. UpTo(w, w[i]) \subseteq UpTo(w, w[j])
    BY <1>1, <1>2, <1>5 DEF UpTo
  <2>2. j \in UpTo(w, w[j]) /\ j \notin UpTo(w, w[i])
    BY <1>1, <1>2, <1>5 DEF UpTo
  <2>3. UpTo(w, w[j]) \subseteq 1 .. Len(w)
    BY DEF UpTo
  <2> QED
    BY <2>1, <2>2, <2>3, PlacesAreFinite
<1> HIDE DEF rank
<1> DEFINE T == {n - rank(i) : i \in B}
<1>6. T \in SUBSET Nat /\ T # {}
  <2>1. ASSUME NEW i \in B
        PROVE  n - rank(i) \in Nat
    <3>1. rank(i) \in 0 .. n
      BY <1>1, <1>4
    <3> QED
      BY <3>1
  <2>2. T \in SUBSET Nat
    BY <2>1
  <2>3. PICK i \in B : TRUE
    OBVIOUS
  <2>4. n - rank(i) \in T
    OBVIOUS
  <2> QED
    BY <2>2, <2>4
<1>7. PICK m \in T : \A k \in T : m <= k
  <2> HIDE DEF T
  <2> QED
    BY <1>6, LeastNumber
<1>8. PICK j \in B : m = n - rank(j)
  BY <1>7
<1>9. ASSUME NEW i \in B
      PROVE  w[i] <= w[j]
  <2>1. n - rank(j) <= n - rank(i)
    BY <1>7, <1>8
  <2>2. i \in 1 .. n /\ j \in 1 .. n
    BY <1>1
  <2>3. rank(i) \in Int /\ rank(j) \in Int
    BY <1>4, <2>2
  <2>4. ~(rank(j) < rank(i))
    BY <1>1, <2>1, <2>3
  <2> QED
    BY <1>2, <1>5, <2>2, <2>4
<1> QED
  BY <1>9

(***************************************************************************)
(* Every window that is not empty has a k-th smallest sample: fewer than k *)
(* are below it, and at least k are not above it.                          *)
(***************************************************************************)
LEMMA SmallestExists ==
    ASSUME NEW w \in Seq(Int), NEW k \in 1 .. Len(w)
    PROVE  /\ \E i \in 1 .. Len(w) : Smallest(w, k) = w[i]
           /\ Cardinality(Below(w, Smallest(w, k))) < k
           /\ Cardinality(UpTo(w, Smallest(w, k))) >= k
<1>1. PICK n \in Nat : Len(w) = n
  BY LenProperties
<1>2. DOMAIN w = 1 .. n /\ \A i \in 1 .. n : w[i] \in Int
  BY <1>1, LenProperties
<1> DEFINE isSmallest(x) == Cardinality(Below(w, x)) < k
                            /\ Cardinality(UpTo(w, x)) >= k
<1>3. Smallest(w, k) = CHOOSE x \in {w[i] : i \in 1 .. n} : isSmallest(x)
  BY <1>1, <1>2 DEF Smallest, ToSet, Below, UpTo
<1>4. k \in 1 .. n
  BY <1>1
<1>5. \A x \in Int : /\ UpTo(w, x) \subseteq 1 .. Len(w)
                     /\ Below(w, x) \subseteq 1 .. Len(w)
                     /\ Cardinality(UpTo(w, x)) \in Nat
                     /\ Cardinality(Below(w, x)) \in Nat
  BY PlacesAreFinite DEF UpTo, Below
<1> DEFINE T == {Cardinality(UpTo(w, w[i])) :
                   i \in {j \in 1 .. n : Cardinality(UpTo(w, w[j])) >= k}}
<1>6. T \in SUBSET Nat /\ T # {}
  <2>1. T \in SUBSET Nat
    BY <1>2, <1>5
  <2>2. PICK j \in 1 .. n : \A i \in 1 .. n : w[i] <= w[j]
    <3>1. 1 .. n # {}
      BY <1>4
    <3> QED
      BY <1>1, <3>1, LargestSample
  <2>3. UpTo(w, w[j]) = 1 .. n
    BY <1>1, <2>2 DEF UpTo
  <2>4. Cardinality(1 .. n) = n
    BY FS_Interval
  <2>5. Cardinality(UpTo(w, w[j])) >= k
    BY <1>4, <2>3, <2>4
  <2> QED
    BY <2>1, <2>5
<1>7. PICK m \in T : \A r \in T : m <= r
  <2> HIDE DEF T
  <2> QED
    BY <1>6, LeastNumber
<1>8. PICK i \in 1 .. n : /\ m = Cardinality(UpTo(w, w[i]))
                          /\ Cardinality(UpTo(w, w[i])) >= k
  BY <1>7
<1>9. Cardinality(Below(w, w[i])) < k
  <2>0. /\ Cardinality(Below(w, w[i])) \in Nat
        /\ Cardinality(UpTo(w, w[i])) \in Nat
    BY <1>2, <1>5
  <2>1. SUFFICES ASSUME Cardinality(Below(w, w[i])) >= k PROVE FALSE
    BY <1>4, <2>0
  <2>2. Below(w, w[i]) # {}
    <3>1. Below(w, w[i]) = {} => Cardinality(Below(w, w[i])) = 0
      BY FS_EmptySet
    <3> QED
      BY <1>4, <2>1, <3>1
  <2>3. PICK j \in Below(w, w[i]) : \A l \in Below(w, w[i]) : w[l] <= w[j]
    BY <1>2, <1>5, <2>2, LargestSample
  <2>4. j \in 1 .. n /\ w[j] < w[i] /\ w[j] \in Int /\ w[i] \in Int
    BY <1>1, <1>2 DEF Below
  <2>5. Below(w, w[i]) \subseteq UpTo(w, w[j])
    BY <2>3 DEF Below, UpTo
  <2>6. Cardinality(UpTo(w, w[j])) >= k
    <3>1. Cardinality(Below(w, w[i])) <= Cardinality(UpTo(w, w[j]))
      BY <1>5, <2>4, <2>5, PlacesAreFinite
    <3>2. Cardinality(UpTo(w, w[j])) \in Nat
      BY <1>5, <2>4
    <3> QED
      BY <1>4, <2>0, <2>1, <3>1, <3>2
  <2>7. UpTo(w, w[j]) \subseteq UpTo(w, w[i])
        /\ UpTo(w, w[j]) # UpTo(w, w[i])
    <3>1. i \in UpTo(w, w[i]) /\ i \notin UpTo(w, w[j])
      BY <1>1, <2>4 DEF UpTo
    <3>2. UpTo(w, w[j]) \subseteq UpTo(w, w[i])
      BY <1>1, <1>2, <2>4 DEF UpTo
    <3> QED
      BY <3>1, <3>2
  <2>8. Cardinality(UpTo(w, w[j])) < Cardinality(UpTo(w, w[i]))
    BY <1>5, <2>4, <2>7, PlacesAreFinite
  <2>9. Cardinality(UpTo(w, w[j])) \in T
    BY <2>4, <2>6
  <2>10. Cardinality(UpTo(w, w[j])) \in Nat
    BY <1>5, <2>4
  <2>11. m <= Cardinality(UpTo(w, w[j]))
    BY <1>7, <2>9
  <2> HIDE DEF T
  <2> QED
    BY <1>8, <2>0, <2>8, <2>10, <2>11
<1>10. isSmallest(w[i]) /\ w[i] \in {w[j] : j \in 1 .. n}
  BY <1>8, <1>9
<1> HIDE DEF isSmallest
<1>11. Smallest(w, k) \in {w[j] : j \in 1 .. n} /\ isSmallest(Smallest(w, k))
  BY <1>3, <1>10
<1> QED
  BY <1>1, <1>11 DEF isSmallest

(***************************************************************************)
(* The median of a window is an integer, and of samples that are all the   *)
(* same it is that sample as long as its double fits into the word.        *)
(***************************************************************************)
THEOREM MedianAgrees ==
    ASSUME NEW w \in Seq(Int), Len(w) > 0
    PROVE  /\ Median(Modulus, w) \in Int
           /\ \A v \in Int :
                 /\ \A i \in 1 .. Len(w) : w[i] = v
                 /\ 2 * v \in -(Modulus \div 2) .. Modulus \div 2 - 1
                 => Median(Modulus, w) = v
<1>1. PICK n \in Nat \ {0} : Len(w) = n
  BY LenProperties
<1>2. PICK h \in Nat : h = n \div 2 /\ n % 2 = n - 2 * h
                       /\ (n % 2 = 0 \/ n % 2 = 1)
  <2>1. \A m \in Nat : /\ m \div 2 \in Nat /\ (m % 2 = 0 \/ m % 2 = 1)
                       /\ m % 2 = m - 2 * (m \div 2)
    OBVIOUS
  <2> QED
    BY <2>1
<1>3. ASSUME NEW k \in 1 .. n
      PROVE  /\ Smallest(w, k) \in Int
             /\ \A v \in Int : (\A i \in 1 .. n : w[i] = v) => Smallest(w, k) = v
  <2>1. PICK i \in 1 .. n : Smallest(w, k) = w[i]
    BY <1>1, SmallestExists
  <2>2. w[i] \in Int
    BY <1>1, ElementOfSeq
  <2> QED
    BY <2>1, <2>2
<1>4. CASE n % 2 = 1
  <2>1. (n + 1) \div 2 = h + 1 /\ h + 1 \in 1 .. n
    BY <1>2, <1>4
  <2>2. Median(Modulus, w) = Smallest(w, h + 1)
    BY <1>1, <1>4, <2>1 DEF Median
  <2> QED
    BY <1>1, <1>3, <2>1, <2>2
<1>5. CASE n % 2 = 0
  <2>1. h \in 1 .. n /\ h + 1 \in 1 .. n
    BY <1>2, <1>5
  <2> DEFINE a == Smallest(w, h)
             b == Smallest(w, h + 1)
  <2>2. Median(Modulus, w) = TmvDiv(WrapTo(Modulus, a + b), 2)
    BY <1>1, <1>2, <1>5 DEF Median
  <2>3. /\ a \in Int /\ b \in Int
        /\ \A v \in Int : (\A i \in 1 .. n : w[i] = v) => a = v /\ b = v
    BY <1>3, <2>1
  <2> HIDE DEF a, b
  <2>4. a + b \in Int
    BY <2>3
  <2>5. Median(Modulus, w) \in Int
    <3>1. WrapTo(Modulus, a + b) \in Int
      BY <2>4, WordOfSum
    <3> QED
      BY <2>2, <3>1, QuotientInt
  <2>6. ASSUME NEW v \in Int, \A i \in 1 .. n : w[i] = v,
               2 * v \in -(Modulus \div 2) .. Modulus \div 2 - 1
        PROVE  Median(Modulus, w) = v
    <3>1. a + b = 2 * v
      <4>1. a = v /\ b = v
        BY <2>3, <2>6
      <4> QED
        BY <4>1
    <3>2. Median(Modulus, w) = TmvDiv(2 * v, 2)
      <4>1. WrapTo(Modulus, 2 * v) = 2 * v
        BY <2>6, WordOfSum
      <4> QED
        BY <2>2, <3>1, <4>1
    <3>3. TmvDiv(2 * v, 2) = v
      <4>1. \A m \in Nat : (2 * m) \div 2 = m
        OBVIOUS
      <4>2. CASE v >= 0
        BY <4>1, <4>2 DEF TmvDiv
      <4>3. CASE v < 0
        <5>1. -(2 * v) = 2 * (-v) /\ -v \in Nat
          BY <4>3
        <5> QED
          BY <4>1, <4>3, <5>1 DEF TmvDiv
      <4> QED
        BY <4>2, <4>3
    <3> QED
      BY <3>2, <3>3
  <2> QED
    BY <1>1, <2>5, <2>6
<1> QED
  BY <1>2, <1>4, <1>5

(***************************************************************************)
(* The mean of a window is an integer, and of samples that are all the     *)
(* same it is that sample as long as their sum fits into the word.         *)
(***************************************************************************)
THEOREM MeanAgrees ==
    ASSUME NEW w \in Seq(Int), Len(w) > 0
    PROVE  /\ Mean(Modulus, w) \in Int
           /\ \A v \in Int :
                 /\ \A i \in 1 .. Len(w) : w[i] = v
                 /\ Len(w) * v \in -(Modulus \div 2) .. Modulus \div 2 - 1
                 => Mean(Modulus, w) = v
<1>1. PICK n \in Nat \ {0} : Len(w) = n
  BY LenProperties
<1>2. Modulus \in Nat \ {0} /\ Modulus % 2 = 0
  BY FilterAssumption
<1>3. PICK h \in Nat : h = Modulus \div 2 /\ Modulus = 2 * h
  BY <1>2, SMTT(30)
<1>4. Total(w) \in Int
  BY SumsExist, TotalIsLastSum
<1>5. Mean(Modulus, w) = TmvDiv(WrapTo(Modulus, Total(w)), n)
  BY <1>1 DEF Mean
<1>6. Mean(Modulus, w) \in Int
  <2>1. WrapTo(Modulus, Total(w)) \in Int
    BY <1>2, <1>4 DEF WrapTo
  <2> QED
    BY <1>5, <2>1, QuotientInt
<1>7. ASSUME NEW v \in Int, \A i \in 1 .. n : w[i] = v, n * v \in -h .. h - 1
      PROVE  Mean(Modulus, w) = v
  <2> DEFINE f == [i \in 0 .. n |-> i * v]
  <2>1. Adds(f, w)
    <3>1. f \in [0 .. n -> Int]
      OBVIOUS
    <3>2. f[0] = 0
      OBVIOUS
    <3>3. ASSUME NEW i \in 1 .. n
          PROVE  f[i] = f[i - 1] + w[i]
      <4>1. i * v = (i - 1) * v + v
        OBVIOUS
      <4>2. f[i] = i * v /\ f[i - 1] = (i - 1) * v /\ w[i] = v
        BY <1>7
      <4> QED
        BY <4>1, <4>2
    <3> HIDE DEF f
    <3> QED
      BY <1>1, <3>1, <3>2, <3>3 DEF Adds
  <2>2. Total(w) = n * v
    BY <1>1, <2>1, TotalIsLastSum
  <2>3. PICK t \in Int : t = n * v
    OBVIOUS
  <2>4. WrapTo(Modulus, t) = t
    <3>1. t + h \in 0 .. Modulus - 1
      BY <1>3, <1>7, <2>3
    <3>2. (t + h) % Modulus = t + h
      BY <1>2, <3>1
    <3> QED
      BY <1>3, <3>2 DEF WrapTo
  <2>5. TmvDiv(n * v, n) = v
    <3>1. ASSUME NEW m \in Nat PROVE (n * m) \div n = m
      OBVIOUS
    <3>2. CASE v >= 0
      <4>1. n * v >= 0 /\ v \in Nat
        BY <3>2
      <4> QED
        BY <3>1, <4>1 DEF TmvDiv
    <3>3. CASE v < 0
      <4>1. -(n * v) = n * (-v) /\ -v \in Nat /\ n * v < 0
        BY <3>3
      <4>2. (-(n * v)) \div n = -v
        BY <3>1, <4>1
      <4> QED
        BY <4>1, <4>2 DEF TmvDiv
    <3> QED
      BY <3>2, <3>3
  <2> QED
    BY <1>5, <2>2, <2>3, <2>4, <2>5
<1> QED
  BY <1>1, <1>3, <1>6, <1>7

-----------------------------------------------------------------------------
(* The places whose samples are at least x. *)
From(w, x) == {i \in 1 .. Len(w) : w[i] >= x}

(* They are the ones whose sample is not less than x. *)
LEMMA FromOrBelow ==
    ASSUME NEW w \in Seq(Int), NEW x \in Int
    PROVE  /\ Cardinality(From(w, x)) \in Nat
           /\ Cardinality(From(w, x)) = Len(w) - Cardinality(Below(w, x))
<1>1. PICK n \in Nat : Len(w) = n
  BY LenProperties
<1>2. \A i \in 1 .. n : w[i] \in Int
  BY <1>1, ElementOfSeq
<1>3. From(w, x) = (1 .. n) \ Below(w, x) /\ (1 .. n) \cap Below(w, x) = Below(w, x)
  BY <1>1, <1>2 DEF From, Below
<1>4. IsFiniteSet(1 .. n) /\ Cardinality(1 .. n) = n
  BY FS_Interval
<1>5. Cardinality(From(w, x)) = n - Cardinality(Below(w, x))
  BY <1>3, <1>4, FS_Difference
<1>6. Cardinality(From(w, x)) \in Nat
  BY <1>3, <1>4, FS_Difference, FS_CardinalityType
<1> QED
  BY <1>1, <1>5, <1>6

(* Half the sum of two numbers lies between them. *)
LEMMA HalfTheSum ==
    ASSUME NEW a \in Int, NEW b \in Int, a <= b
    PROVE  a <= TmvDiv(a + b, 2) /\ TmvDiv(a + b, 2) <= b
<1>1. ASSUME NEW m \in Nat
      PROVE  m \div 2 \in Nat /\ (m = 2 * (m \div 2) \/ m = 2 * (m \div 2) + 1)
  OBVIOUS
<1>2. CASE a + b >= 0
  <2>1. PICK c \in Nat : c = a + b
    BY <1>2
  <2>2. TmvDiv(a + b, 2) = c \div 2
    BY <1>2, <2>1 DEF TmvDiv
  <2> QED
    BY <1>1, <2>1, <2>2
<1>3. CASE a + b < 0
  <2>1. PICK c \in Nat : c = -(a + b)
    BY <1>3
  <2>2. TmvDiv(a + b, 2) = -(c \div 2)
    BY <1>3, <2>1 DEF TmvDiv
  <2> QED
    BY <1>1, <2>1, <2>2
<1> QED
  BY <1>2, <1>3

(***************************************************************************)
(* A median of samples that are halves of words has at least half of them  *)
(* on either side (mmedian.c:64-67).                                       *)
(***************************************************************************)
LEMMA MedianHalves ==
    ASSUME NEW w \in Seq(Int), Len(w) > 0, \A i \in 1 .. Len(w) : w[i] \in Halves
    PROVE  /\ 2 * Cardinality(UpTo(w, Median(Modulus, w))) >= Len(w)
           /\ 2 * Cardinality(From(w, Median(Modulus, w))) >= Len(w)
<1>1. PICK n \in Nat \ {0} : Len(w) = n
  BY LenProperties
<1>2. PICK h \in Nat : h = n \div 2 /\ n % 2 = n - 2 * h
                       /\ (n % 2 = 0 \/ n % 2 = 1)
  <2>1. \A m \in Nat : /\ m \div 2 \in Nat /\ (m % 2 = 0 \/ m % 2 = 1)
                       /\ m % 2 = m - 2 * (m \div 2)
    OBVIOUS
  <2> QED
    BY <2>1
<1>3. \A i \in 1 .. n : w[i] \in Int
  BY <1>1, ElementOfSeq
<1> DEFINE upto(x) == Cardinality(UpTo(w, x))
           below(x) == Cardinality(Below(w, x))
           from(x) == Cardinality(From(w, x))
<1>4. ASSUME NEW x \in Int
      PROVE  /\ upto(x) \in Nat /\ below(x) \in Nat /\ from(x) \in Nat
             /\ from(x) = n - below(x)
  <2>1. UpTo(w, x) \subseteq 1 .. Len(w) /\ Below(w, x) \subseteq 1 .. Len(w)
    BY DEF UpTo, Below
  <2> QED
    BY <1>1, <2>1, PlacesAreFinite, FromOrBelow
<1>5. ASSUME NEW x \in Int, NEW y \in Int, x <= y
      PROVE  upto(x) <= upto(y) /\ from(y) <= from(x)
  <2>1. UpTo(w, x) \subseteq UpTo(w, y) /\ UpTo(w, y) \subseteq 1 .. Len(w)
    BY <1>1, <1>3, <1>5 DEF UpTo
  <2>2. From(w, y) \subseteq From(w, x) /\ From(w, x) \subseteq 1 .. Len(w)
    BY <1>1, <1>3, <1>5 DEF From
  <2> QED
    BY <2>1, <2>2, PlacesAreFinite
<1>6. ASSUME NEW x \in Int, NEW y \in Int, x < y
      PROVE  upto(x) <= below(y)
  <2>1. UpTo(w, x) \subseteq Below(w, y) /\ Below(w, y) \subseteq 1 .. Len(w)
    BY <1>1, <1>3, <1>6 DEF UpTo, Below
  <2> QED
    BY <2>1, PlacesAreFinite
<1>7. ASSUME NEW k \in 1 .. n
      PROVE  /\ Smallest(w, k) \in Int /\ Smallest(w, k) \in Halves
             /\ below(Smallest(w, k)) < k /\ upto(Smallest(w, k)) >= k
  <2>1. PICK i \in 1 .. n : Smallest(w, k) = w[i]
    BY <1>1, SmallestExists
  <2>2. below(Smallest(w, k)) < k /\ upto(Smallest(w, k)) >= k
    BY <1>1, SmallestExists
  <2> QED
    BY <1>1, <1>3, <2>1, <2>2
<1> HIDE DEF upto, below, from
<1>8. CASE n % 2 = 1
  <2>1. (n + 1) \div 2 = h + 1 /\ h + 1 \in 1 .. n
    BY <1>2, <1>8
  <2>2. Median(Modulus, w) = Smallest(w, h + 1)
    BY <1>1, <1>8, <2>1 DEF Median
  <2>3. PICK x \in Int : /\ x = Median(Modulus, w)
                         /\ below(x) < h + 1 /\ upto(x) >= h + 1
    BY <1>7, <2>1, <2>2
  <2>4. 2 * upto(x) >= n /\ 2 * from(x) >= n
    <3>1. PICK u, l, g \in Nat : u = upto(x) /\ l = below(x) /\ g = from(x)
      BY <1>4
    <3>2. g = n - l /\ l < h + 1 /\ u >= h + 1 /\ n = 2 * h + 1
      BY <1>2, <1>4, <1>8, <2>3, <3>1
    <3>3. 2 * u >= n /\ 2 * g >= n
      BY <3>2
    <3> QED
      BY <3>1, <3>3
  <2> QED
    BY <1>1, <2>3, <2>4 DEF upto, from
<1>9. CASE n % 2 = 0
  <2>1. h \in 1 .. n /\ h + 1 \in 1 .. n
    BY <1>2, <1>9
  <2>2. PICK a \in Int : /\ a = Smallest(w, h) /\ a \in Halves
                         /\ below(a) < h /\ upto(a) >= h
    BY <1>7, <2>1
  <2>3. PICK b \in Int : /\ b = Smallest(w, h + 1) /\ b \in Halves
                         /\ below(b) < h + 1 /\ upto(b) >= h + 1
    BY <1>7, <2>1
  <2>4. a <= b
    <3>1. SUFFICES ASSUME b < a PROVE FALSE
      OBVIOUS
    <3>2. upto(b) <= below(a)
      BY <1>6, <3>1
    <3>3. upto(b) \in Nat /\ below(a) \in Nat
      BY <1>4
    <3> QED
      BY <2>2, <2>3, <3>2, <3>3
  <2>5. WrapTo(Modulus, a + b) = a + b
    <3>1. Modulus \in Nat \ {0} /\ Modulus % 2 = 0
      BY FilterAssumption
    <3>2. PICK q \in Nat : q = Modulus \div 4 /\ 4 * q <= Modulus
      <4>1. \A m \in Nat : m \div 4 \in Nat /\ 4 * (m \div 4) <= m
        OBVIOUS
      <4> QED
        BY <3>1, <4>1
    <3>3. PICK g \in Nat : g = Modulus \div 2 /\ Modulus = 2 * g
      BY <3>1, SMTT(30)
    <3>4. a \in -q .. q - 1 /\ b \in -q .. q - 1
      BY <2>2, <2>3, <3>2 DEF Halves
    <3>5. a + b \in -g .. g - 1
      BY <3>2, <3>3, <3>4
    <3>6. a + b \in Int
      OBVIOUS
    <3> QED
      BY <3>3, <3>5, <3>6, WordOfSum
  <2>6. Median(Modulus, w) = TmvDiv(a + b, 2)
    BY <1>1, <1>2, <1>9, <2>2, <2>3, <2>5 DEF Median
  <2>7. PICK x \in Int : x = Median(Modulus, w) /\ a <= x /\ x <= b
    <3>1. a + b \in Int
      OBVIOUS
    <3>2. TmvDiv(a + b, 2) \in Int
      BY <3>1, QuotientInt
    <3> QED
      BY <2>4, <2>6, <3>2, HalfTheSum
  <2>8. upto(x) >= h /\ from(x) >= h /\ upto(x) \in Nat /\ from(x) \in Nat
    <3>1. upto(a) <= upto(x) /\ from(b) <= from(x)
      BY <1>5, <2>7
    <3>2. /\ upto(a) \in Nat /\ upto(x) \in Nat /\ from(b) \in Nat /\ from(x) \in Nat
          /\ below(b) \in Nat /\ from(b) = n - below(b)
      BY <1>4
    <3> QED
      BY <1>2, <1>9, <2>2, <2>3, <3>1, <3>2
  <2>9. 2 * upto(x) >= n /\ 2 * from(x) >= n
    BY <1>2, <1>9, <2>8
  <2> QED
    BY <1>1, <2>7, <2>9 DEF upto, from
<1> QED
  BY <1>2, <1>8, <1>9

(* The output of the moving median belongs to the samples of its ring. *)
OutputInv ==
    type = "moving_median" /\ cnt > 0 => output = Median(Modulus, Aged)

(***************************************************************************)
(* The output stays the median of the ring until the next sample, or until *)
(* a reset empties the ring.                                               *)
(***************************************************************************)
LEMMA OutputStays == Spec => [](FilterInv /\ OutputInv)
<1>1. Init => FilterInv /\ OutputInv
  BY FilterInit DEF OutputInv, Init, Mmedian!Init, Mave!Init
<1>2. FilterInv /\ OutputInv /\ FilterInv' /\ [Next]_vars => OutputInv'
  <2> SUFFICES ASSUME FilterInv, OutputInv, [Next]_vars PROVE OutputInv'
    OBVIOUS
  <2>1. ASSUME NEW v \in Values, Sample(v) PROVE OutputInv'
    <3>1. output' = Estimate(type, Aged') /\ type' = type
      BY <2>1, SampleStep DEF Sample
    <3> QED
      BY <3>1 DEF OutputInv, Estimate
  <2>2. CASE Reset
    BY <2>2 DEF Reset, Mmedian!Reset, Mave!Reset, OutputInv
  <2>3. CASE UNCHANGED vars
    BY <2>3 DEF vars, OutputInv, Aged
  <2> QED
    BY <2>1, <2>2, <2>3 DEF Next
<1> QED
  BY <1>1, <1>2, FilterInvariance, PTL DEF Spec

(***************************************************************************)
(* The moving median lies in the middle of its ring, for every length,     *)
(* every word and every history of samples and resets whose ring holds     *)
(* halves of words: no sum wraps around between sorting and output.        *)
(***************************************************************************)
THEOREM MedianInTheMiddle == Spec => []HalfOnEitherSide
<1>1. FilterInv /\ OutputInv => HalfOnEitherSide
  <2> SUFFICES ASSUME FilterInv, OutputInv, type = "moving_median", cnt > 0,
                      \A i \in 1 .. cnt : Aged[i] \in Halves
               PROVE  /\ 2 * Cardinality({i \in 1 .. cnt : Aged[i] <= output}) >= cnt
                      /\ 2 * Cardinality({i \in 1 .. cnt : Aged[i] >= output}) >= cnt
    BY DEF HalfOnEitherSide
  <2>1. Aged \in Seq(Int) /\ Len(Aged) = cnt
    BY WindowIsOnRing DEF WindowOnRing, FilterInv, FilterTypeOK
  <2>2. output = Median(Modulus, Aged)
    BY DEF OutputInv
  <2>3. /\ UpTo(Aged, output) = {i \in 1 .. cnt : Aged[i] <= output}
        /\ From(Aged, output) = {i \in 1 .. cnt : Aged[i] >= output}
    BY <2>1 DEF UpTo, From
  <2>4. /\ 2 * Cardinality(UpTo(Aged, Median(Modulus, Aged))) >= Len(Aged)
        /\ 2 * Cardinality(From(Aged, Median(Modulus, Aged))) >= Len(Aged)
    BY <2>1, MedianHalves
  <2> QED
    BY <2>1, <2>2, <2>3, <2>4
<1> QED
  BY <1>1, OutputStays, PTL
=============================================================================
