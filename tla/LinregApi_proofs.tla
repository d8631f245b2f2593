-------------------------- MODULE LinregApi_proofs --------------------------
(***************************************************************************)
(* Proofs that the properties of LinregApi hold for every value of the     *)
(* thresholds, sizes and inputs, and for any number of calls.              *)
(***************************************************************************)
EXTENDS LinregApi, WellFoundedInduction, SequenceTheorems, TLAPS

(***************************************************************************)
(* C's division is an integer with the sign of the dividend, and not       *)
(* farther from 0.                                                         *)
(***************************************************************************)
LEMMA QuotientSign ==
    ASSUME NEW a \in Int, NEW b \in Nat \ {0}
    PROVE  /\ TmvDiv(a, b) \in Int
           /\ a >= 0 => TmvDiv(a, b) \in 0 .. a
           /\ a < 0 => TmvDiv(a, b) \in a .. 0
<1>1. \A n \in Nat : n \div b \in 0 .. n
  OBVIOUS
<1>2. CASE a >= 0
  BY <1>1, <1>2 DEF TmvDiv
<1>3. CASE a < 0
  <2>1. -a \in Nat
    BY <1>3
  <2>2. (-a) \div b \in 0 .. -a
    BY <1>1, <2>1
  <2> QED
    BY <1>3, <2>2 DEF TmvDiv
<1> QED
  BY <1>2, <1>3

(***************************************************************************)
(* Every non-empty set of natural numbers has a least element: a statement *)
(* on numbers that fails somewhere fails for a least one.                  *)
(***************************************************************************)
LEMMA LeastNumber ==
    ASSUME NEW T \in SUBSET Nat, T # {}
    PROVE  \E x \in T : \A y \in T : x <= y
<1> DEFINE R == {ss \in Nat \X Nat : ss[1] < ss[2]}
<1>1. IsWellFoundedOn(R, Nat)
  BY NatLessThanWellFounded DEF OpToRel
<1>2. \A x, y \in Nat : y < x => <<y, x>> \in R
  OBVIOUS
<1> HIDE DEF R
<1>3. PICK x \in T : \A y \in T : ~(<<y, x>> \in R)
  BY <1>1, WFMin
<1>4. ASSUME NEW y \in T PROVE x <= y
  <2>1. x \in Nat /\ y \in Nat /\ ~(<<y, x>> \in R)
    BY <1>3
  <2> QED
    BY <1>2, <2>1
<1> QED
  BY <1>4

(* A recursion over 0 .. hi whose values are in V. *)
Runs(f, V, start, hi, step) ==
    /\ f \in [0 .. hi -> V] /\ f[0] = start
    /\ \A n \in 1 .. hi : f[n] = step[n][f[n - 1]]

(***************************************************************************)
(* The values of a recursion exist, if each step leads from a value to a   *)
(* value.                                                                  *)
(***************************************************************************)
LEMMA RecursionExists ==
    \A V, step : \A start \in V, hi \in Nat :
        (\A n \in 1 .. hi, v \in V : step[n][v] \in V)
            => \E f : Runs(f, V, start, hi, step)
<1> SUFFICES ASSUME NEW V, NEW step, NEW start \in V, NEW hi \in Nat,
                    \A n \in 1 .. hi, v \in V : step[n][v] \in V
             PROVE  \E f : Runs(f, V, start, hi, step)
  OBVIOUS
<1> DEFINE fits(f, m) == /\ f \in [0 .. m -> V] /\ f[0] = start
                         /\ \A n \in 1 .. m : f[n] = step[n][f[n - 1]]
           T == {m \in 0 .. hi : ~ \E f : fits(f, m)}
<1>0. SUFFICES \E f : fits(f, hi)
  BY DEF Runs
<1>1. SUFFICES ASSUME T # {} PROVE FALSE
  <2>1. hi \in 0 .. hi
    OBVIOUS
  <2>2. hi \notin T => \E f : fits(f, hi)
    <3> HIDE DEF fits
    <3> QED
      BY <2>1
  <2> HIDE DEF T
  <2> QED
    BY <2>2
<1>2. PICK m \in T : \A k \in T : m <= k
  <2>1. T \in SUBSET Nat
    OBVIOUS
  <2> HIDE DEF T
  <2> QED
    BY <1>1, <2>1, LeastNumber
<1>3. m \in 0 .. hi /\ ~ \E f : fits(f, m)
  BY <1>2
<1>4. m # 0
  <2>1. fits([n \in 0 .. 0 |-> start], 0)
    OBVIOUS
  <2> HIDE DEF fits
  <2> QED
    BY <1>3, <2>1
<1>5. m - 1 \in 0 .. hi /\ ~(m <= m - 1) /\ m \in Nat \ {0}
  BY <1>3, <1>4
<1>6. PICK g : fits(g, m - 1)
  BY <1>2, <1>5
<1> DEFINE f == [n \in 0 .. m |-> IF n = m THEN step[m][g[m - 1]] ELSE g[n]]
<1>7. fits(f, m)
  <2>1. step[m][g[m - 1]] \in V
    BY <1>3, <1>5, <1>6
  <2>2. f \in [0 .. m -> V] /\ f[0] = start
    BY <1>5, <1>6, <2>1
  <2>3. ASSUME NEW n \in 1 .. m PROVE f[n] = step[n][f[n - 1]]
    <3>1. CASE n = m
      BY <1>5, <3>1
    <3>2. CASE n \in 1 .. m - 1
      <4>1. f[n] = g[n] /\ f[n - 1] = g[n - 1] /\ g[n] = step[n][g[n - 1]]
        BY <1>5, <1>6, <3>2
      <4> QED
        BY <4>1
    <3>3. n = m \/ n \in 1 .. m - 1
      BY <1>5
    <3> QED
      BY <3>1, <3>2, <3>3
  <2> QED
    BY <2>2, <2>3
<1> QED
  BY <1>3, <1>7

(* The number of points doubles with the size. *)
LEMMA PointsDouble ==
    /\ Points[0] = 1
    /\ \A n \in 1 .. MaxSize : Points[n] = 2 * Points[n - 1]
    /\ \A n \in 0 .. MaxSize : Points[n] \in Nat \ {0}
<1> DEFINE def(s) == s = [size \in 0 .. MaxSize |->
                             IF size = 0 THEN 1 ELSE 2 * s[size - 1]]
           step == [n \in 1 .. MaxSize |-> [v \in Nat \ {0} |-> 2 * v]]
<1>1. MaxSize \in Nat
  BY LinregAssumption
<1>2. PICK f : Runs(f, Nat \ {0}, 1, MaxSize, step)
  <2>1. \A n \in 1 .. MaxSize, v \in Nat \ {0} : step[n][v] \in Nat \ {0}
    OBVIOUS
  <2>2. 1 \in Nat \ {0}
    OBVIOUS
  <2> HIDE DEF step
  <2> QED
    BY <1>1, <2>1, <2>2, RecursionExists
<1>3. def(f)
  <2>1. ASSUME NEW n \in 0 .. MaxSize
        PROVE  f[n] = IF n = 0 THEN 1 ELSE 2 * f[n - 1]
    <3>1. CASE n = 0
      BY <1>2, <3>1 DEF Runs
    <3>2. CASE n # 0
      <4>1. n \in 1 .. MaxSize /\ f[n - 1] \in Nat \ {0}
        BY <1>1, <1>2, <3>2 DEF Runs
      <4>2. f[n] = step[n][f[n - 1]]
        BY <1>2, <4>1 DEF Runs
      <4> QED
        BY <3>2, <4>1, <4>2
    <3> QED
      BY <3>1, <3>2
  <2>2. f \in [0 .. MaxSize -> Nat \ {0}]
    BY <1>2 DEF Runs
  <2> QED
    BY <2>1, <2>2
<1>4. Points = CHOOSE s : def(s)
  BY DEF Points
<1>5. def(Points)
  <2> HIDE DEF def
  <2> QED
    BY <1>3, <1>4
<1>6. Points[0] = 1 /\ \A n \in 1 .. MaxSize : Points[n] = 2 * Points[n - 1]
  BY <1>1, <1>5
<1> DEFINE T == {n \in 0 .. MaxSize : Points[n] \notin Nat \ {0}}
<1>7. T = {}
  <2>1. SUFFICES ASSUME T # {} PROVE FALSE
    OBVIOUS
  <2>2. PICK m \in T : \A k \in T : m <= k
    <3>1. T \in SUBSET Nat
      OBVIOUS
    <3> HIDE DEF T
    <3> QED
      BY <2>1, <3>1, LeastNumber
  <2>3. m # 0 /\ m - 1 \in 0 .. MaxSize /\ ~(m <= m - 1) /\ m \in 1 .. MaxSize
    BY <1>1, <1>6, <2>2
  <2>4. Points[m - 1] \in Nat \ {0}
    BY <2>2, <2>3
  <2>5. Points[m] = 2 * Points[m - 1]
    BY <1>6, <2>3
  <2> QED
    BY <2>2, <2>4, <2>5
<1> QED
  BY <1>6, <1>7

(* A larger size uses all the points of a smaller one. *)
LEMMA PointsGrow ==
    ASSUME NEW m \in 0 .. MaxSize, NEW n \in 0 .. MaxSize, m <= n
    PROVE  Points[m] <= Points[n]
<1> DEFINE T == {k \in 0 .. MaxSize : m <= k /\ ~(Points[m] <= Points[k])}
<1>0. MaxSize \in Nat
  BY LinregAssumption
<1>1. T = {}
  <2>1. SUFFICES ASSUME T # {} PROVE FALSE
    OBVIOUS
  <2>2. PICK k \in T : \A j \in T : k <= j
    <3>1. T \in SUBSET Nat
      OBVIOUS
    <3> HIDE DEF T
    <3> QED
      BY <2>1, <3>1, LeastNumber
  <2>3. Points[m] \in Nat
    BY PointsDouble
  <2>4. k # m /\ k - 1 \in 0 .. MaxSize /\ m <= k - 1 /\ ~(k <= k - 1)
    BY <1>0, <2>2, <2>3
  <2>5. Points[m] <= Points[k - 1]
    BY <2>2, <2>4
  <2>6. Points[k] = 2 * Points[k - 1] /\ Points[k - 1] \in Nat
    BY <1>0, <2>2, <2>4, PointsDouble
  <2> QED
    BY <2>2, <2>3, <2>5, <2>6
<1> QED
  BY <1>1

-----------------------------------------------------------------------------
(***************************************************************************)
(* The regression.  Running sums, step by step.                            *)
(***************************************************************************)
Adds(f, w) ==
    /\ f \in [0 .. Len(w) -> Int] /\ f[0] = 0
    /\ \A n \in 1 .. Len(w) : f[n] = f[n - 1] + w[n]

(* The running sum of integers exists, and Total is its last value. *)
LEMMA SumsExist ==
    ASSUME NEW w \in Seq(Int)
    PROVE  \E f : Adds(f, w) /\ Total(w) = f[Len(w)] /\ Total(w) \in Int
<1> DEFINE len == Len(w)
           step == [n \in 1 .. len |-> [v \in Int |-> v + w[n]]]
           def(s) ==
             s = [n \in 0 .. Len(w) |-> IF n = 0 THEN 0 ELSE s[n - 1] + w[n]]
           sums == CHOOSE s : def(s)
<1>1. len \in Nat /\ \A n \in 1 .. len : w[n] \in Int
  BY LenProperties
<1>2. PICK g : Runs(g, Int, 0, len, step)
  <2>1. \A n \in 1 .. len, v \in Int : step[n][v] \in Int
    BY <1>1
  <2>2. 0 \in Int
    OBVIOUS
  <2> HIDE DEF step, len
  <2> QED
    BY <1>1, <2>1, <2>2, RecursionExists
<1>3. g \in [0 .. len -> Int] /\ g[0] = 0
  BY <1>2 DEF Runs
<1>4. ASSUME NEW n \in 1 .. len
      PROVE  g[n] = g[n - 1] + w[n]
  <2>1. g[n] = step[n][g[n - 1]]
    BY <1>2 DEF Runs
  <2>2. g[n - 1] \in Int
    BY <1>1, <1>3
  <2> QED
    BY <2>1, <2>2
<1>5. def(g)
  BY <1>1, <1>3, <1>4
<1>6. def(sums)
  <2> HIDE DEF def
  <2> QED
    BY <1>5
<1>7. Total(w) = sums[Len(w)]
  BY DEF Total
<1> HIDE DEF sums
<1>8. /\ DOMAIN sums = 0 .. Len(w) /\ sums = [n \in DOMAIN sums |-> sums[n]]
      /\ \A n \in 0 .. Len(w) :
            sums[n] = IF n = 0 THEN 0 ELSE sums[n - 1] + w[n]
  BY <1>6
<1> DEFINE T == {n \in 0 .. len : sums[n] \notin Int}
<1>9. T = {}
  <2>1. SUFFICES ASSUME T # {} PROVE FALSE
    OBVIOUS
  <2>2. PICK m \in T : \A k \in T : m <= k
    <3>1. T \in SUBSET Nat
      OBVIOUS
    <3> HIDE DEF T
    <3> QED
      BY <2>1, <3>1, LeastNumber
  <2>3. m \in 0 .. len /\ sums[m] \notin Int
    BY <2>2
  <2>4. m # 0
    BY <1>8, <2>3
  <2>5. m - 1 \in 0 .. len /\ ~(m <= m - 1) /\ m \in 1 .. len
    BY <1>1, <2>3, <2>4
  <2>6. sums[m - 1] \in Int /\ w[m] \in Int
    BY <1>1, <2>2, <2>5
  <2> QED
    BY <1>8, <2>3, <2>4, <2>6
<1>10. sums \in [0 .. len -> Int]
  BY <1>8, <1>9
<1>11. Adds(sums, w)
  BY <1>1, <1>8, <1>10 DEF Adds
<1>12. len \in 0 .. len
  BY <1>1
<1> QED
  BY <1>7, <1>10, <1>11, <1>12

(* Points to run a regression through. *)
Weighted(points) ==
    /\ Len(points) \in Nat \ {0}
    /\ points \in Seq([x : Int, y : Int, w : Nat])

(***************************************************************************)
(* The sums of a regression are integers.                                  *)
(***************************************************************************)
LEMMA SumTypes ==
    ASSUME NEW points, Weighted(points)
    PROVE  /\ WSum(points) \in Int /\ XSum(points) \in Int
           /\ YSum(points) \in Int /\ XYSum(points) \in Int
           /\ X2Sum(points) \in Int
<1> DEFINE n == Len(points)
<1>1. n \in Nat /\ DOMAIN points = 1 .. n
  BY DEF Weighted
<1>2. \A i \in 1 .. n :
         points[i].x \in Int /\ points[i].y \in Int /\ points[i].w \in Int
  <2> TAKE i \in 1 .. n
  <2>1. points[i] \in [x : Int, y : Int, w : Nat]
    BY <1>1, ElementOfSeq DEF Weighted
  <2> QED
    BY <2>1
<1>3. /\ [i \in DOMAIN points |-> points[i].w] \in Seq(Int)
      /\ [i \in DOMAIN points |-> points[i].x * points[i].w] \in Seq(Int)
      /\ [i \in DOMAIN points |-> points[i].y * points[i].w] \in Seq(Int)
      /\ [i \in DOMAIN points |-> points[i].x * points[i].y * points[i].w]
            \in Seq(Int)
      /\ [i \in DOMAIN points |-> points[i].x * points[i].x * points[i].w]
            \in Seq(Int)
  <2>1. \A i \in 1 .. n :
           /\ points[i].x * points[i].w \in Int
           /\ points[i].y * points[i].w \in Int
           /\ points[i].x * points[i].y \in Int
           /\ points[i].x * points[i].x \in Int
    BY <1>2
  <2>2. \A i \in 1 .. n :
           /\ points[i].x * points[i].y * points[i].w \in Int
           /\ points[i].x * points[i].x * points[i].w \in Int
    <3> TAKE i \in 1 .. n
    <3> DEFINE xy == points[i].x * points[i].y
               xx == points[i].x * points[i].x
    <3>1. xy \in Int /\ xx \in Int /\ points[i].w \in Int
      BY <1>2, <2>1
    <3> HIDE DEF xy, xx
    <3>2. xy * points[i].w \in Int /\ xx * points[i].w \in Int
      BY <3>1
    <3> QED
      BY <3>2 DEF xy, xx
  <2> HIDE DEF n
  <2>3. \A g : g \in [1 .. n -> Int] => g \in Seq(Int)
    BY <1>1, SeqDef
  <2> QED
    BY <1>1, <1>2, <2>1, <2>2, <2>3
<1> QED
  BY <1>3, SumsExist DEF WSum, XSum, YSum, XYSum, X2Sum

(* A square is not negative, and 0 only for 0. *)
LEMMA Square ==
    ASSUME NEW a \in Int
    PROVE  a * a \in Nat /\ (a * a = 0 => a = 0)
  OBVIOUS

(* A product of a positive number has the sign of the other factor. *)
LEMMA ProductSign ==
    ASSUME NEW a \in Nat \ {0}, NEW b \in Int
    PROVE  /\ a * b \in Int
           /\ a * b >= 0 => b >= 0
           /\ b >= 0 => a * b >= 0
           /\ a * b = 0 => b = 0
  OBVIOUS

(***************************************************************************)
(* One more point does not diminish the spread, and leaves it 0 only if it *)
(* lies where the weighted mean of the others does.                        *)
(***************************************************************************)
LEMMA SpreadStep ==
    ASSUME NEW W \in Nat, NEW X \in Int, NEW Q \in Int,
           NEW x \in Int, NEW w \in Nat,
           Q * W - X * X >= 0, W = 0 => X = 0 /\ Q = 0
    PROVE  LET more == (Q + x * x * w) * (W + w) - (X + x * w) * (X + x * w)
           IN  /\ more >= Q * W - X * X
               /\ W + w = 0 => X + x * w = 0 /\ Q + x * x * w = 0
               /\ more = 0 /\ w # 0 => X = x * W
<1> DEFINE S    == Q * W - X * X
           D    == Q - 2 * (x * X) + x * x * W
           off  == X - x * W
           more == (Q + x * x * w) * (W + w) - (X + x * w) * (X + x * w)
<1>1. S \in Int /\ D \in Int /\ off \in Int /\ S >= 0
  OBVIOUS
<1>2. more = S + w * D
  OBVIOUS
<1>3. W * D = S + off * off
  OBVIOUS
<1>4. W = 0 => D = 0 /\ off = 0
  OBVIOUS
<1>5. W + w = 0 => X + x * w = 0 /\ Q + x * x * w = 0
  OBVIOUS
<1>6. off = 0 => X = x * W
  OBVIOUS
<1> HIDE DEF S, D, off, more
<1>7. off * off \in Nat /\ (off * off = 0 => off = 0)
  BY <1>1, Square
<1>8. D >= 0 /\ (S = 0 /\ D = 0 => off = 0)
  <2>1. CASE W = 0
    BY <1>4, <2>1
  <2>2. CASE W # 0
    <3>1. W * D >= 0
      BY <1>1, <1>3, <1>7
    <3>2. D >= 0
      BY <1>1, <2>2, <3>1, ProductSign
    <3>3. ASSUME S = 0, D = 0 PROVE off = 0
      <4>1. W * D = 0
        BY <3>3
      <4> QED
        BY <1>3, <1>7, <3>3, <4>1
    <3> QED
      BY <3>2, <3>3
  <2> QED
    BY <2>1, <2>2
<1>9. CASE w = 0
  <2>1. w * D = 0
    BY <1>1, <1>9
  <2>2. more >= S
    BY <1>1, <1>2, <2>1
  <2> QED
    BY <1>5, <1>9, <2>2 DEF S, more
<1>10. CASE w # 0
  <2>1. w * D \in Int /\ w * D >= 0 /\ (w * D = 0 => D = 0)
    BY <1>1, <1>8, <1>10, ProductSign
  <2>2. more >= S
    BY <1>1, <1>2, <2>1
  <2>3. more = 0 => S = 0 /\ D = 0
    BY <1>1, <1>2, <2>1
  <2>4. more = 0 => X = x * W
    BY <1>6, <1>8, <2>3
  <2> QED
    BY <1>5, <2>2, <2>4 DEF S, more
<1> QED
  BY <1>9, <1>10

(***************************************************************************)
(* The spread of points is not negative (x2_sum * w_sum is at least the    *)
(* square of x_sum), and 0 only if those that have any weight lie at one   *)
(* x: then, and only then, the code divides 0.0 by 0.0.                    *)
(***************************************************************************)
LEMMA SpreadSign ==
    ASSUME NEW points, Weighted(points)
    PROVE  /\ Spread(points) \in Nat /\ WSum(points) \in Nat
           /\ Spread(points) # 0 => WSum(points) # 0
           /\ Spread(points) = 0 =>
                 \A i, j \in 1 .. Len(points) :
                    \/ points[i].w = 0 \/ points[j].w = 0
                    \/ points[i].x = points[j].x
<1> DEFINE n  == Len(points)
           ws == [i \in DOMAIN points |-> points[i].w]
           xs == [i \in DOMAIN points |-> points[i].x * points[i].w]
           qs == [i \in DOMAIN points |-> points[i].x * points[i].x * points[i].w]
<1>1. n \in Nat \ {0} /\ DOMAIN points = 1 .. n
  BY DEF Weighted
<1>2. \A i \in 1 .. n : points[i].x \in Int /\ points[i].w \in Nat
  <2> TAKE i \in 1 .. n
  <2>1. points[i] \in [x : Int, y : Int, w : Nat]
    BY <1>1, ElementOfSeq DEF Weighted
  <2> QED
    BY <2>1
<1>3. /\ ws \in Seq(Int) /\ xs \in Seq(Int) /\ qs \in Seq(Int)
      /\ Len(ws) = n /\ Len(xs) = n /\ Len(qs) = n
  <2>1. \A i \in 1 .. n : /\ points[i].x * points[i].w \in Int
                          /\ points[i].x * points[i].x \in Int
    BY <1>2
  <2>2. \A i \in 1 .. n : points[i].x * points[i].x * points[i].w \in Int
    BY <1>2, <2>1
  <2> HIDE DEF n
  <2>3. \A g : g \in [1 .. n -> Int] => g \in Seq(Int) /\ Len(g) = n
    BY <1>1, SeqDef, LenProperties
  <2> QED
    BY <1>1, <1>2, <2>1, <2>2, <2>3
<1>4. \A i \in 1 .. n : /\ ws[i] = points[i].w
                        /\ xs[i] = points[i].x * points[i].w
                        /\ qs[i] = points[i].x * points[i].x * points[i].w
  BY <1>1
<1>5. /\ WSum(points) = Total(ws) /\ XSum(points) = Total(xs)
      /\ X2Sum(points) = Total(qs)
  BY DEF WSum, XSum, X2Sum
<1> HIDE DEF ws, xs, qs, n
<1>6. PICK W : Adds(W, ws) /\ Total(ws) = W[n]
  BY <1>3, SumsExist
<1>7. PICK X : Adds(X, xs) /\ Total(xs) = X[n]
  BY <1>3, SumsExist
<1>8. PICK Q : Adds(Q, qs) /\ Total(qs) = Q[n]
  BY <1>3, SumsExist
<1>9. /\ W[0] = 0 /\ X[0] = 0 /\ Q[0] = 0
      /\ \A k \in 0 .. n : W[k] \in Int /\ X[k] \in Int /\ Q[k] \in Int
  BY <1>3, <1>6, <1>7, <1>8 DEF Adds
<1>10. \A k \in 1 .. n :
          /\ W[k] = W[k - 1] + points[k].w
          /\ X[k] = X[k - 1] + points[k].x * points[k].w
          /\ Q[k] = Q[k - 1] + points[k].x * points[k].x * points[k].w
  BY <1>3, <1>4, <1>6, <1>7, <1>8 DEF Adds
<1> DEFINE good(k) ==
             /\ W[k] \in Nat /\ Q[k] * W[k] - X[k] * X[k] >= 0
             /\ W[k] = 0 => X[k] = 0 /\ Q[k] = 0
             /\ \A i \in 1 .. k : points[i].w # 0 => W[k] # 0
             /\ Q[k] * W[k] - X[k] * X[k] = 0 =>
                   \A i \in 1 .. k :
                      points[i].w # 0 => X[k] = points[i].x * W[k]
           T == {k \in 0 .. n : ~good(k)}
<1>11. good(0)
  BY <1>9
<1>12. ASSUME NEW k \in 1 .. n, good(k - 1)
       PROVE  good(k)
  <2> DEFINE W0 == W[k - 1] X0 == X[k - 1] Q0 == Q[k - 1]
             x == points[k].x w == points[k].w
  <2>1. k - 1 \in 0 .. n /\ k \in 0 .. n
    BY <1>1
  <2>2. W0 \in Nat /\ X0 \in Int /\ Q0 \in Int /\ x \in Int /\ w \in Nat
    BY <1>2, <1>9, <1>12, <2>1
  <2>3. /\ W[k] = W0 + w /\ X[k] = X0 + x * w /\ Q[k] = Q0 + x * x * w
    BY <1>10
  <2>4. Q0 * W0 - X0 * X0 >= 0 /\ (W0 = 0 => X0 = 0 /\ Q0 = 0)
    BY <1>12
  <2>5. \A i \in 1 .. k : i = k \/ i \in 1 .. k - 1
    BY <1>1
  <2>6. /\ \A i \in 1 .. k - 1 : points[i].w # 0 => W0 # 0
        /\ Q0 * W0 - X0 * X0 = 0 => \A i \in 1 .. k - 1 :
              points[i].w # 0 => X0 = points[i].x * W0
    BY <1>12
  <2> DEFINE more == (Q0 + x * x * w) * (W0 + w) - (X0 + x * w) * (X0 + x * w)
             less == Q0 * W0 - X0 * X0
  <2>7. Q[k] * W[k] - X[k] * X[k] = more
    BY <2>3
  <2>8. less \in Int /\ more \in Int
    BY <2>2
  <2>9. \A i \in 1 .. k - 1 : points[i].x \in Int
    BY <1>1, <1>2
  <2> HIDE DEF W0, X0, Q0, x, w
  <2>10. /\ more >= less
         /\ W0 + w = 0 => X0 + x * w = 0 /\ Q0 + x * x * w = 0
         /\ more = 0 /\ w # 0 => X0 = x * W0
    BY <2>2, <2>4, SpreadStep
  <2>11. \A i \in 1 .. k : points[i].w # 0 => W[k] # 0
    <3> TAKE i \in 1 .. k
    <3>1. CASE i = k
      BY <2>2, <2>3, <3>1 DEF w
    <3>2. CASE i \in 1 .. k - 1
      BY <2>2, <2>3, <2>6, <3>2
    <3> QED
      BY <2>5, <3>1, <3>2
  <2>12. ASSUME more = 0, NEW i \in 1 .. k, points[i].w # 0
         PROVE  X[k] = points[i].x * W[k]
    <3>1. less = 0
      <4> HIDE DEF less, more
      <4> QED
        BY <2>4, <2>8, <2>10, <2>12 DEF less
    <3>2. CASE i = k
      <4>1. w # 0 /\ points[i].x = x
        BY <2>12, <3>2 DEF w, x
      <4>2. X0 = x * W0
        BY <2>10, <2>12, <4>1
      <4>3. X0 + x * w = x * (W0 + w)
        BY <2>2, <4>2
      <4> QED
        BY <2>3, <4>1, <4>3
    <3>3. CASE i \in 1 .. k - 1
      <4>1. X0 = points[i].x * W0 /\ W0 # 0
        BY <2>6, <2>12, <3>1, <3>3
      <4>2. CASE w = 0
        <5>1. W[k] = W0 /\ X[k] = X0
          BY <2>2, <2>3, <4>2
        <5> QED
          BY <4>1, <5>1
      <4>3. CASE w # 0
        <5>1. X0 = x * W0
          BY <2>10, <2>12, <4>3
        <5> DEFINE xi == points[i].x
        <5>2. xi \in Int
          BY <2>9, <3>3
        <5>3. xi * W0 = x * W0
          BY <4>1, <5>1
        <5> HIDE DEF xi
        <5>4. W0 * (xi - x) = 0 /\ xi - x \in Int
          BY <2>2, <5>2, <5>3
        <5>5. xi = x
          BY <2>2, <4>1, <5>2, <5>4, ProductSign
        <5>6. X0 + x * w = x * (W0 + w)
          BY <2>2, <5>1
        <5> QED
          BY <2>3, <5>5, <5>6 DEF xi
      <4> QED
        BY <4>2, <4>3
    <3> QED
      BY <2>5, <3>2, <3>3
  <2>13. W[k] \in Nat
    BY <2>2, <2>3
  <2>14. more >= 0
    <3> HIDE DEF more
    <3> QED
      BY <2>4, <2>8, <2>10 DEF less
  <2>15. W[k] = 0 => X[k] = 0 /\ Q[k] = 0
    BY <2>3, <2>10
  <2> HIDE DEF more, less
  <2> QED
    BY <2>7, <2>11, <2>12, <2>13, <2>14, <2>15
<1>13. T = {}
  <2>1. SUFFICES ASSUME T # {} PROVE FALSE
    OBVIOUS
  <2>2. PICK m \in T : \A k \in T : m <= k
    <3>1. T \in SUBSET Nat
      BY <1>1
    <3> HIDE DEF T
    <3> QED
      BY <2>1, <3>1, LeastNumber
  <2>3. m \in 0 .. n /\ ~good(m)
    BY <2>2
  <2>4. m # 0
    BY <1>11, <2>3
  <2> HIDE DEF good
  <2>5. m - 1 \in 0 .. n /\ ~(m <= m - 1) /\ m \in 1 .. n
    BY <1>1, <2>3, <2>4
  <2>6. good(m - 1)
    BY <2>2, <2>5
  <2> QED
    BY <1>12, <2>3, <2>5, <2>6
<1>14. good(n)
  <2>1. n \in 0 .. n
    BY <1>1
  <2> HIDE DEF good
  <2> QED
    BY <1>13, <2>1
<1>15. Spread(points) = Q[n] * W[n] - X[n] * X[n]
  BY <1>5, <1>6, <1>7, <1>8 DEF Spread
<1>16. n \in 0 .. n /\ W[n] \in Nat /\ X[n] \in Int /\ Q[n] \in Int
  BY <1>1, <1>9, <1>14
<1>17. Q[n] * W[n] - X[n] * X[n] \in Int
  BY <1>16
<1>18. Spread(points) \in Nat /\ WSum(points) \in Nat
  BY <1>5, <1>6, <1>14, <1>15, <1>17
<1>19. Spread(points) # 0 => WSum(points) # 0
  BY <1>5, <1>6, <1>14, <1>15, <1>16
<1>20. ASSUME Spread(points) = 0, NEW i \in 1 .. n, NEW j \in 1 .. n,
              points[i].w # 0, points[j].w # 0
       PROVE  points[i].x = points[j].x
  <2> DEFINE a == points[i].x b == points[j].x
  <2>1. W[n] # 0 /\ X[n] = a * W[n] /\ X[n] = b * W[n]
    BY <1>14, <1>15, <1>20
  <2>2. a \in Int /\ b \in Int
    BY <1>2
  <2> HIDE DEF a, b
  <2>3. W[n] * (a - b) = 0 /\ a - b \in Int
    BY <1>16, <2>1, <2>2
  <2>4. a = b
    BY <1>16, <2>1, <2>2, <2>3, ProductSign
  <2> QED
    BY <2>4 DEF a, b
<1> QED
  BY <1>18, <1>19, <1>20 DEF n

(* The line through points that are not all at one x, or without weight. *)
LEMMA LineType ==
    ASSUME NEW points, Weighted(points), Spread(points) # 0
    PROVE  Line(points).slope \in Int /\ Line(points).intercept \in Int
<1> DEFINE top == One * (XYSum(points) * WSum(points) - XSum(points) * YSum(points))
           slope == TmvDiv(top, Spread(points))
           rest == One * YSum(points) - slope * XSum(points)
<1>1. /\ Spread(points) \in Nat \ {0} /\ WSum(points) \in Nat \ {0}
      /\ One \in Nat \ {0}
  BY SpreadSign, OneAssumption
<1>2. top \in Int
  BY <1>1, SumTypes
<1>3. slope \in Int
  <2> HIDE DEF top
  <2> QED
    BY <1>1, <1>2, QuotientSign
<1>4. rest \in Int
  <2>1. YSum(points) \in Int /\ XSum(points) \in Int
    BY SumTypes
  <2> HIDE DEF slope
  <2> QED
    BY <1>1, <1>3, <2>1
<1>5. One * WSum(points) \in Nat \ {0}
  BY <1>1
<1>6. TmvDiv(rest, One * WSum(points)) \in Int
  <2> HIDE DEF rest
  <2> QED
    BY <1>4, <1>5, QuotientSign
<1>7. /\ Line(points).slope = slope
      /\ Line(points).intercept = TmvDiv(rest, One * WSum(points))
  BY DEF Line
<1> QED
  BY <1>3, <1>6, <1>7

-----------------------------------------------------------------------------
(***************************************************************************)
(* The struct.  Its domain is the type of the variable, but that the       *)
(* remainder of x is never negative, because time does not go back between *)
(* two samples.                                                            *)
(***************************************************************************)
Point == [x : Int, y : Int, w : Nat]
Result == [slope : Int, intercept : Int, err : Nat,
           err_updates : 0 .. InitialUpdates]
LinregRecord ==
    [points : [0 .. MaxPoints - 1 -> Point], reference : [x : Int, y : Int],
     num_points : 0 .. MaxPoints, last_point : 0 .. MaxPoints - 1,
     x_remainder : 0 .. One - 1, last_update : Int,
     results : [Sizes -> Result], size : {0} \union Sizes,
     clock_freq : -MaxFrequency .. MaxFrequency, frequency_ratio : Int]

SameRing(s, r) ==
    /\ r.points = s.points
    /\ r.num_points = s.num_points /\ r.last_point = s.last_point

\* The results differ in their intercepts at most
SameLines(s, r) ==
    \A z \in Sizes : /\ r.results[z].slope = s.results[z].slope
                     /\ r.results[z].err_updates = s.results[z].err_updates

(* The constants, as the proofs need them. *)
LEMMA ConstantTypes ==
    /\ One \in Nat \ {0} /\ NsPerSec \in Nat /\ MaxFrequency \in Nat
    /\ MinSize \in Nat \ {0} /\ MaxSize \in Nat /\ MinSize <= MaxSize
    /\ MaxPoints \in Nat \ {0}
    /\ \A freq \in -MaxFrequency .. MaxFrequency :
          NsPerSec + freq \in Nat \ {0} /\ NsPerSec - (-freq) = NsPerSec + freq
    /\ \A z \in Sizes : Points[z] \in 1 .. MaxPoints
<1>1. /\ One \in Nat \ {0} /\ NsPerSec \in Nat /\ MaxFrequency \in Nat
      /\ MinSize \in Nat \ {0} /\ MaxSize \in Nat /\ MinSize <= MaxSize
      /\ MaxFrequency < NsPerSec
  BY OneAssumption, LinregAssumption, ServoAssumption
<1>2. MaxPoints \in Nat \ {0}
  BY <1>1, PointsDouble DEF MaxPoints
<1>3. \A z \in Sizes : Points[z] \in 1 .. MaxPoints
  <2> TAKE z \in Sizes
  <2>1. z \in 0 .. MaxSize /\ MaxSize \in 0 .. MaxSize /\ z <= MaxSize
    BY <1>1 DEF Sizes
  <2>2. Points[z] \in Nat \ {0} /\ Points[z] <= MaxPoints
    BY <2>1, PointsDouble, PointsGrow DEF MaxPoints
  <2> QED
    BY <1>2, <2>2
<1> QED
  BY <1>1, <1>2, <1>3

(* What linreg_servo_create() makes. *)
LEMMA NewLinregType ==
    ASSUME NEW initial_adj \in -MaxFrequency .. MaxFrequency
    PROVE  NewLinreg(initial_adj) \in LinregRecord
<1>1. -initial_adj \in -MaxFrequency .. MaxFrequency
  BY ConstantTypes
<1>2. NoResult \in Result
  BY LinregAssumption DEF NoResult, Result
<1> QED
  BY <1>1, <1>2, ConstantTypes DEF NewLinreg, LinregRecord, Point

MovedBy(s, r, x, y) ==
    /\ r \in LinregRecord
    /\ r.reference = [x |-> s.reference.x + x, y |-> s.reference.y + y]
    /\ r = [s EXCEPT !.reference = r.reference, !.results = r.results]
    /\ SameLines(s, r)

(* move_reference() moves the reference and the intercepts. *)
LEMMA MoveReferenceFacts ==
    ASSUME NEW s \in LinregRecord, NEW x \in Int, NEW y \in Int
    PROVE  MovedBy(s, MoveReference(s, x, y), x, y)
<1> DEFINE moved(i) ==
             [s.results[i] EXCEPT
                 !.intercept = @ + Times(x, s.results[i].slope) - y]
           ref == [x |-> s.reference.x + x, y |-> s.reference.y + y]
           res == [i \in Sizes |-> moved(i)]
           r   == MoveReference(s, x, y)
<1>1. ASSUME NEW i \in Sizes
      PROVE  /\ moved(i) \in Result
             /\ moved(i).slope = s.results[i].slope
             /\ moved(i).err_updates = s.results[i].err_updates
  <2>1. s.results[i] \in Result
    BY DEF LinregRecord
  <2>2. x * s.results[i].slope \in Int
    BY <2>1 DEF Result
  <2>3. Times(x, s.results[i].slope) \in Int
    BY <2>2, OneAssumption, QuotientSign DEF Times
  <2> QED
    BY <2>1, <2>3 DEF Result
<1> HIDE DEF moved
<1>2. ref \in [x : Int, y : Int]
  BY DEF LinregRecord
<1>3. res \in [Sizes -> Result]
  BY <1>1
<1>4. r = [s EXCEPT !.reference = ref, !.results = res]
  BY DEF MoveReference, moved
<1> HIDE DEF r, ref, res
<1>5. r \in LinregRecord /\ r.reference = ref /\ r.results = res
  BY <1>2, <1>3, <1>4 DEF LinregRecord
<1>6. SameLines(s, r)
  BY <1>1, <1>5 DEF SameLines, res
<1> QED
  BY <1>4, <1>5, <1>6 DEF r, ref, MovedBy

(* A number is its whole units and the part of one that is left. *)
LEMMA WholeAndRest ==
    ASSUME NEW a \in Nat
    PROVE  TmvDiv(a, One) \in Nat /\ a - One * TmvDiv(a, One) \in 0 .. One - 1
<1>1. One \in Nat \ {0}
  BY OneAssumption
<1>2. a = One * (a \div One) + (a % One) /\ a % One \in 0 .. One - 1
      /\ a \div One \in Nat
  BY <1>1
<1>3. TmvDiv(a, One) = a \div One
  BY DEF TmvDiv
<1> QED
  BY <1>1, <1>2, <1>3

\* What the undisciplined clock has counted meanwhile, in units of 1/One
Meanwhile(s, interval) ==
    TmvDiv(interval * NsPerSec * One, NsPerSec + s.clock_freq)

Updated(s, r, local_ts) ==
    /\ r \in LinregRecord /\ r.last_update = local_ts
    /\ SameRing(s, r) /\ SameLines(s, r)
    /\ r.size = s.size /\ r.clock_freq = s.clock_freq
    /\ s.last_update # 0 =>
          /\ r.reference.y = s.reference.y + (local_ts - s.last_update)
          /\ One * r.reference.x + r.x_remainder =
                One * s.reference.x + s.x_remainder
                    + Meanwhile(s, local_ts - s.last_update)

(***************************************************************************)
(* update_reference(): once there was a sample, the reference follows the  *)
(* local clock in y and the undisciplined clock in x, to the fraction that *)
(* x_remainder keeps.                                                      *)
(***************************************************************************)
LEMMA UpdateReferenceFacts ==
    ASSUME NEW s \in LinregRecord, NEW local_ts \in Int,
           s.last_update # 0 => local_ts >= s.last_update
    PROVE  Updated(s, UpdateReference(s, local_ts), local_ts)
<1> DEFINE interval == local_ts - s.last_update
           xi    == Meanwhile(s, interval) + s.x_remainder
           whole == TmvDiv(xi, One)
           rest  == xi - One * whole
           t     == [s EXCEPT !.x_remainder = rest]
           moved == MoveReference(t, whole, interval)
           r     == UpdateReference(s, local_ts)
<1>1. CASE s.last_update = 0
  <2>1. r = [s EXCEPT !.last_update = local_ts]
    BY <1>1 DEF UpdateReference
  <2> HIDE DEF r
  <2> QED
    BY <1>1, <2>1 DEF r, Updated, LinregRecord, SameRing, SameLines
<1>2. CASE s.last_update # 0
  <2>1. s.last_update \in Int /\ s.x_remainder \in 0 .. One - 1
        /\ s.clock_freq \in -MaxFrequency .. MaxFrequency
        /\ s.reference.x \in Int /\ s.reference.y \in Int
    BY DEF LinregRecord
  <2>2. interval \in Nat
    BY <1>2, <2>1
  <2>3. NsPerSec + s.clock_freq \in Nat \ {0} /\ One \in Nat \ {0}
        /\ NsPerSec \in Nat
    BY <2>1, ConstantTypes
  <2> HIDE DEF interval
  <2>4. interval * NsPerSec \in Nat
    BY <2>2, <2>3
  <2>5. interval * NsPerSec * One \in Nat
    BY <2>3, <2>4
  <2>6. Meanwhile(s, interval) \in Nat
    BY <2>3, <2>5, QuotientSign DEF Meanwhile
  <2>7. xi \in Nat
    BY <2>1, <2>3, <2>6
  <2> HIDE DEF xi
  <2>8. whole \in Nat /\ rest \in 0 .. One - 1
    BY <2>7, WholeAndRest
  <2>9. xi = One * whole + rest
    BY <2>3, <2>7, <2>8
  <2> HIDE DEF whole, rest
  <2>10. t \in LinregRecord
    BY <2>8 DEF LinregRecord
  <2>11. /\ SameRing(s, t) /\ SameLines(s, t)
         /\ t.size = s.size /\ t.clock_freq = s.clock_freq
         /\ t.reference = s.reference /\ t.x_remainder = rest
    BY DEF LinregRecord, SameRing, SameLines
  <2> HIDE DEF t
  <2>12. MovedBy(t, moved, whole, interval)
    BY <2>2, <2>8, <2>10, MoveReferenceFacts
  <2>13. r = [moved EXCEPT !.last_update = local_ts]
    BY <1>2 DEF UpdateReference, interval, xi, whole, rest, t, Meanwhile
  <2> HIDE DEF moved, r
  <2>14. /\ SameRing(t, moved) /\ moved.size = t.size
         /\ moved.clock_freq = t.clock_freq /\ moved.x_remainder = t.x_remainder
    BY <2>10, <2>12 DEF MovedBy, LinregRecord, SameRing
  <2>15. /\ r \in LinregRecord /\ r.last_update = local_ts
         /\ SameRing(moved, r) /\ SameLines(moved, r)
         /\ r.size = moved.size /\ r.clock_freq = moved.clock_freq
         /\ r.reference = moved.reference /\ r.x_remainder = moved.x_remainder
    BY <2>12, <2>13 DEF MovedBy, LinregRecord, SameRing, SameLines
  <2>16. SameRing(s, r) /\ SameLines(s, r)
    BY <2>11, <2>12, <2>14, <2>15 DEF MovedBy, SameRing, SameLines
  <2>17. r.reference.y = s.reference.y + interval
    BY <2>11, <2>12, <2>15 DEF MovedBy
  <2>18. r.reference.x = s.reference.x + whole /\ r.x_remainder = rest
    BY <2>11, <2>12, <2>14, <2>15 DEF MovedBy
  <2>19. One * r.reference.x + r.x_remainder
            = One * s.reference.x + (One * whole + rest)
    BY <2>1, <2>3, <2>8, <2>18
  <2>20. One * r.reference.x + r.x_remainder
            = One * s.reference.x + s.x_remainder + Meanwhile(s, interval)
    <3> DEFINE a == One * s.reference.x  m == Meanwhile(s, interval)
    <3>1. a \in Int /\ m \in Int
      BY <2>1, <2>3, <2>6
    <3>2. xi = m + s.x_remainder
      BY DEF xi
    <3> HIDE DEF a, m
    <3>3. a + xi = a + s.x_remainder + m
      BY <2>1, <3>1, <3>2
    <3> QED
      BY <2>9, <2>19, <3>3 DEF a, m
  <2> QED
    BY <1>2, <2>11, <2>14, <2>15, <2>16, <2>17, <2>20 DEF Updated, MovedBy, r, interval
<1> QED
  BY <1>1, <1>2

-----------------------------------------------------------------------------
(***************************************************************************)
(* The ring of points.                                                     *)
(***************************************************************************)
\* The point that is a samples old, and the history's sample of that age
Aged(s, a) == s.points[(MaxPoints + s.last_point - a) % MaxPoints]
Former(smp, a) == smp[Len(smp) - a]

(* The remainder of a number within two turns of the ring. *)
LEMMA OneTurn ==
    ASSUME NEW n \in 0 .. 2 * MaxPoints - 1
    PROVE  n % MaxPoints = IF n < MaxPoints THEN n ELSE n - MaxPoints
<1>1. MaxPoints \in Nat \ {0}
  BY ConstantTypes
<1>2. CASE n < MaxPoints
  BY <1>1, <1>2
<1>3. CASE n >= MaxPoints
  <2>1. n - MaxPoints \in 0 .. MaxPoints - 1
    BY <1>1, <1>3
  <2>2. (n - MaxPoints) % MaxPoints = n - MaxPoints
    BY <1>1, <2>1
  <2>3. n = MaxPoints * 1 + (n - MaxPoints)
    BY <1>1
  <2> QED
    BY <1>1, <1>3, <2>1, <2>2, <2>3
<1> QED
  BY <1>1, <1>2, <1>3

Added(s, r, offset, weight) ==
    /\ r \in LinregRecord
    /\ r.num_points = IF s.num_points < MaxPoints THEN s.num_points + 1
                      ELSE s.num_points
    /\ Aged(r, 0) = [x |-> s.reference.x, y |-> s.reference.y - offset,
                     w |-> weight]
    /\ \A a \in 1 .. MaxPoints - 1 : Aged(r, a) = Aged(s, a - 1)
    /\ r.reference = s.reference /\ r.x_remainder = s.x_remainder
    /\ r.last_update = s.last_update /\ r.results = s.results
    /\ r.size = s.size /\ r.clock_freq = s.clock_freq

(***************************************************************************)
(* add_sample(): the new point is the newest, each of the others one       *)
(* sample older, and the oldest is gone if the ring was full.              *)
(***************************************************************************)
LEMMA AddSampleFacts ==
    ASSUME NEW s \in LinregRecord, NEW offset \in Int, NEW weight \in Nat
    PROVE  Added(s, AddSample(s, offset, weight), offset, weight)
<1> DEFINE slot == (s.last_point + 1) % MaxPoints
           new  == [x |-> s.reference.x, y |-> s.reference.y - offset,
                    w |-> weight]
           pts  == [s.points EXCEPT ![slot] = new]
           num  == IF s.num_points < MaxPoints THEN s.num_points + 1
                   ELSE s.num_points
           r    == AddSample(s, offset, weight)
<1>1. /\ MaxPoints \in Nat \ {0} /\ s.last_point \in 0 .. MaxPoints - 1
      /\ s.points \in [0 .. MaxPoints - 1 -> Point]
      /\ s.num_points \in 0 .. MaxPoints
  BY ConstantTypes DEF LinregRecord
<1>0. new \in Point
  BY DEF LinregRecord, Point
<1>2. slot = IF s.last_point + 1 < MaxPoints THEN s.last_point + 1 ELSE 0
  BY <1>1, OneTurn
<1>3. slot \in 0 .. MaxPoints - 1
  BY <1>1, <1>2
<1> HIDE DEF new
<1>4. r = [s EXCEPT !.last_point = slot, !.points = pts, !.num_points = num]
  BY DEF AddSample, new
<1> HIDE DEF r, slot, pts, num
<1>5. /\ r \in LinregRecord
      /\ r.points = pts /\ r.last_point = slot /\ r.num_points = num
      /\ r.reference = s.reference /\ r.x_remainder = s.x_remainder
      /\ r.last_update = s.last_update /\ r.results = s.results
      /\ r.size = s.size /\ r.clock_freq = s.clock_freq
  <2>1. pts \in [0 .. MaxPoints - 1 -> Point]
    BY <1>0, <1>1, <1>3 DEF pts
  <2>2. num \in 0 .. MaxPoints
    BY <1>1 DEF num
  <2> QED
    BY <1>3, <1>4, <2>1, <2>2 DEF LinregRecord
<1>6. Aged(r, 0) = new
  <2> DEFINE k == MaxPoints + slot - 0
  <2>1. k \in 0 .. 2 * MaxPoints - 1 /\ ~(k < MaxPoints)
        /\ k - MaxPoints = slot
    BY <1>1, <1>3
  <2>2. k % MaxPoints = slot
    <3> HIDE DEF k
    <3> QED
      BY <2>1, OneTurn
  <2> QED
    BY <1>1, <1>3, <1>5, <2>2 DEF Aged, pts
<1>7. ASSUME NEW a \in 1 .. MaxPoints - 1
      PROVE  Aged(r, a) = Aged(s, a - 1)
  <2> DEFINE k == MaxPoints + slot - a
             l == MaxPoints + s.last_point - (a - 1)
  <2>1. k \in 0 .. 2 * MaxPoints - 1 /\ l \in 0 .. 2 * MaxPoints - 1
    BY <1>1, <1>3
  <2>2. k % MaxPoints = (IF k < MaxPoints THEN k ELSE k - MaxPoints)
        /\ l % MaxPoints = (IF l < MaxPoints THEN l ELSE l - MaxPoints)
    <3> HIDE DEF k, l
    <3> QED
      BY <2>1, OneTurn
  <2>3. (IF k < MaxPoints THEN k ELSE k - MaxPoints)
          = (IF l < MaxPoints THEN l ELSE l - MaxPoints)
    BY <1>1, <1>2
  <2>4. (IF k < MaxPoints THEN k ELSE k - MaxPoints) # slot
    BY <1>1, <1>3
  <2>5. (IF k < MaxPoints THEN k ELSE k - MaxPoints) \in 0 .. MaxPoints - 1
    BY <1>1, <1>3
  <2>6. r.points[k % MaxPoints] = s.points[l % MaxPoints]
    <3> HIDE DEF k, l
    <3> QED
      BY <1>1, <1>5, <2>2, <2>3, <2>4, <2>5 DEF pts
  <2>7. Aged(r, a) = r.points[k % MaxPoints]
        /\ Aged(s, a - 1) = s.points[l % MaxPoints]
    BY <1>5 DEF Aged
  <2> QED
    BY <2>6, <2>7
<1> QED
  BY <1>5, <1>6, <1>7 DEF Added, r, new, num

-----------------------------------------------------------------------------
(***************************************************************************)
(* The regressions.  Those of enough points use the newest of the ring.    *)
(***************************************************************************)
LEMMA NewestFacts ==
    ASSUME NEW s \in LinregRecord, NEW size \in 0 .. MaxSize
    PROVE  /\ Weighted(Newest(s, size)) /\ Len(Newest(s, size)) = Points[size]
           /\ \A a \in 1 .. Points[size] :
                 Newest(s, size)[a] =
                    [x |-> Aged(s, a - 1).x - s.reference.x,
                     y |-> Aged(s, a - 1).y - s.reference.y,
                     w |-> Aged(s, a - 1).w]
<1> DEFINE new == Newest(s, size)
           len == Points[size]
<1>1. MaxPoints \in Nat \ {0} /\ len \in Nat \ {0} /\ len <= MaxPoints
  <2>1. MaxSize \in 0 .. MaxSize /\ size <= MaxSize
    BY ConstantTypes
  <2> QED
    BY <2>1, ConstantTypes, PointsDouble, PointsGrow DEF MaxPoints
<1>2. /\ s.points \in [0 .. MaxPoints - 1 -> Point]
      /\ s.last_point \in 0 .. MaxPoints - 1
      /\ s.reference.x \in Int /\ s.reference.y \in Int
  BY DEF LinregRecord
<1> HIDE DEF len
<1>3. ASSUME NEW a \in 1 .. len
      PROVE  /\ Aged(s, a - 1) \in Point
             /\ new[a] = [x |-> Aged(s, a - 1).x - s.reference.x,
                          y |-> Aged(s, a - 1).y - s.reference.y,
                          w |-> Aged(s, a - 1).w]
  <2> DEFINE k == MaxPoints + s.last_point - (a - 1)
             p == s.points[k % MaxPoints]
  <2>1. k \in 0 .. 2 * MaxPoints - 1
    BY <1>1, <1>2
  <2>2. k % MaxPoints \in 0 .. MaxPoints - 1
    <3> HIDE DEF k
    <3>1. k % MaxPoints = IF k < MaxPoints THEN k ELSE k - MaxPoints
      BY <2>1, OneTurn
    <3> QED
      BY <1>1, <2>1, <3>1
  <2>3. Aged(s, a - 1) = p /\ new[a] = [p EXCEPT !.x = p.x - s.reference.x,
                                                 !.y = p.y - s.reference.y]
    BY DEF Aged, Newest, len
  <2>4. p \in Point
    <3> HIDE DEF k
    <3> QED
      BY <1>2, <2>2
  <2> HIDE DEF p, new
  <2>5. new[a] = [x |-> p.x - s.reference.x, y |-> p.y - s.reference.y,
                  w |-> p.w]
    BY <2>3, <2>4 DEF Point
  <2> QED
    BY <2>3, <2>4, <2>5
<1>4. \A a \in 1 .. len : new[a] \in Point
  <2> TAKE a \in 1 .. len
  <2> DEFINE p == Aged(s, a - 1)
  <2> HIDE DEF new
  <2>1. p \in Point /\ new[a] = [x |-> p.x - s.reference.x,
                                 y |-> p.y - s.reference.y, w |-> p.w]
    BY <1>3
  <2> HIDE DEF p
  <2> QED
    BY <1>2, <2>1, SMTT(30) DEF Point
<1>5. DOMAIN new = 1 .. len /\ new = [a \in 1 .. len |-> new[a]]
  BY DEF Newest, len
<1> HIDE DEF new
<1>6. new \in Seq(Point) /\ Len(new) = len
  <2>1. new \in [1 .. len -> Point]
    BY <1>4, <1>5
  <2>2. new \in Seq(Point)
    BY <1>1, <2>1, SeqDef
  <2> QED
    BY <1>1, <1>5, <2>2, LenProperties
<1>7. Weighted(new)
  BY <1>1, <1>6 DEF Weighted, Point
<1> QED
  BY <1>3, <1>6, <1>7 DEF new, len

(* The moving average of the errors is not negative. *)
LEMMA AveragedType ==
    ASSUME NEW res \in Result, NEW e \in Nat
    PROVE  Averaged(res, e) \in Result
<1>1. /\ res.err \in Nat /\ res.err_updates \in 0 .. InitialUpdates
      /\ res.slope \in Int /\ res.intercept \in Int
      /\ InitialUpdates \in Nat \ {0} /\ Smoothing \in Nat \ {0}
      /\ res = [slope |-> res.slope, intercept |-> res.intercept,
                err |-> res.err, err_updates |-> res.err_updates]
  BY LinregAssumption DEF Result
<1>2. CASE res.slope = 0
  BY <1>2 DEF Averaged
<1>3. CASE res.slope # 0 /\ res.err_updates < InitialUpdates
  <2> DEFINE a == TmvDiv(res.err * res.err_updates + e, res.err_updates + 1)
  <2>1. res.err * res.err_updates + e \in Nat
    BY <1>1
  <2>2. a \in Nat
    BY <1>1, <2>1, QuotientSign
  <2>3. Averaged(res, e) = [res EXCEPT !.err = a,
                                       !.err_updates = res.err_updates + 1]
    BY <1>3 DEF Averaged
  <2>4. res.err_updates + 1 \in 0 .. InitialUpdates
    BY <1>1, <1>3
  <2> HIDE DEF a
  <2> QED
    BY <1>1, <2>2, <2>3, <2>4 DEF Result
<1>4. CASE res.slope # 0 /\ ~(res.err_updates < InitialUpdates)
  <2> DEFINE a == TmvDiv(e - res.err, Smoothing)
  <2>1. e - res.err \in Int
    BY <1>1
  <2>2. /\ a \in Int
        /\ e - res.err >= 0 => a >= 0
        /\ e - res.err < 0 => a >= e - res.err
    BY <1>1, <2>1, QuotientSign
  <2>3. Averaged(res, e) = [res EXCEPT !.err = res.err + a]
    BY <1>4 DEF Averaged
  <2> HIDE DEF a
  <2>4. res.err + a \in Nat
    BY <1>1, <2>1, <2>2
  <2> QED
    BY <1>1, <2>3, <2>4 DEF Result
<1> QED
  BY <1>2, <1>3, <1>4

SameButResults(s, r) ==
    /\ r \in LinregRecord
    /\ SameRing(s, r)
    /\ r.reference = s.reference /\ r.x_remainder = s.x_remainder
    /\ r.last_update = s.last_update
    /\ r.size = s.size /\ r.clock_freq = s.clock_freq

(***************************************************************************)
(* regress(), unless it divides by zero: a size without enough points      *)
(* keeps its result.                                                       *)
(***************************************************************************)
LEMMA RegressFacts ==
    ASSUME NEW s \in LinregRecord, ~Undefined(s)
    PROVE  /\ SameButResults(s, Regress(s))
           /\ \A z \in Sizes : ~Enough(s, z)
                  => Regress(s).results[z] = s.results[z]
<1> DEFINE y0 == Newest(s, 0)[1].y
           again(z) ==
             [Averaged(s.results[z], AbsVal(s.results[z].intercept - y0)) EXCEPT
                 !.slope = Line(Newest(s, z)).slope,
                 !.intercept = Line(Newest(s, z)).intercept]
           res == [z \in Sizes |-> IF Enough(s, z) THEN again(z) ELSE s.results[z]]
           r   == Regress(s)
<1>1. y0 \in Int
  <2>1. /\ Weighted(Newest(s, 0)) /\ 1 \in 1 .. Len(Newest(s, 0))
    BY NewestFacts, PointsDouble, ConstantTypes
  <2> DEFINE new == Newest(s, 0)
  <2> HIDE DEF new
  <2>2. new[1] \in Point
    BY <2>1, ElementOfSeq DEF Weighted, Point, new
  <2> QED
    BY <2>2 DEF Point, new
<1> HIDE DEF y0
<1>2. ASSUME NEW z \in Sizes, Enough(s, z)
      PROVE  again(z) \in Result
  <2> DEFINE old == s.results[z]
             e   == AbsVal(old.intercept - y0)
             avg == Averaged(old, e)
  <2>1. old \in Result /\ z \in 0 .. MaxSize
    BY ConstantTypes DEF LinregRecord, Sizes
  <2>2. e \in Nat
    <3>1. old.intercept \in Int
      BY <2>1 DEF Result
    <3> HIDE DEF old
    <3> QED
      BY <1>1, <3>1 DEF AbsVal
  <2>3. avg \in Result
    <3> HIDE DEF old, e
    <3> QED
      BY <2>1, <2>2, AveragedType
  <2>4. Spread(Newest(s, z)) # 0
    BY <1>2 DEF Undefined
  <2> DEFINE line == Line(Newest(s, z))
  <2>5. line.slope \in Int /\ line.intercept \in Int
    BY <2>1, <2>4, NewestFacts, LineType
  <2>6. again(z) = [avg EXCEPT !.slope = line.slope,
                               !.intercept = line.intercept]
    OBVIOUS
  <2> HIDE DEF avg, line, again
  <2> QED
    BY <2>3, <2>5, <2>6 DEF Result
<1>3. r = [s EXCEPT !.results = res]
  BY DEF Regress, y0
<1>4. res \in [Sizes -> Result]
  <2> HIDE DEF again
  <2>1. \A z \in Sizes : s.results[z] \in Result
    BY DEF LinregRecord
  <2> QED
    BY <1>2, <2>1
<1>5. \A z \in Sizes : ~Enough(s, z) => res[z] = s.results[z]
  BY DEF again
<1> HIDE DEF r, res
<1>6. SameButResults(s, r) /\ r.results = res
  BY <1>3, <1>4 DEF SameButResults, SameRing, LinregRecord
<1> QED
  BY <1>5, <1>6 DEF r

\* The result of this size has the best claim to be used
Earned(s, size) ==
    \/ s.results[size].err_updates = InitialUpdates
    \/ /\ s.results[size].slope # 0
       /\ \A z \in Sizes : z < size => s.results[z].slope = 0

Sized(s, r) ==
    /\ r \in LinregRecord
    /\ r = [s EXCEPT !.size = r.size]
    /\ r.size # 0 => Earned(s, r.size)

(***************************************************************************)
(* update_size(): the size that is chosen is one of those with a line, or  *)
(* one whose errors were averaged for long enough.                         *)
(***************************************************************************)
LEMMA UpdateSizeFacts ==
    ASSUME NEW s \in LinregRecord
    PROVE  Sized(s, UpdateSize(s))
<1> DEFINE D == MinSize - 1 .. MaxSize
           V == [size : {0} \union Sizes, err : Nat]
           next(size, b) ==
             LET res == s.results[size]
             IN  IF \/ b.size = 0 /\ res.slope # 0
                    \/ /\ b.err * 21 > res.err * 20
                       /\ res.err_updates >= InitialUpdates
                 THEN [size |-> size, err |-> res.err]
                 ELSE b
           def(f) == f = [size \in D |->
                             IF size < MinSize THEN [size |-> 0, err |-> 0]
                             ELSE next(size, f[size - 1])]
           best == CHOOSE f : def(f)
           hi   == MaxSize - MinSize + 1
           step == [n \in 1 .. hi |-> [b \in V |-> next(n + MinSize - 1, b)]]
           r    == UpdateSize(s)
<1>1. /\ MinSize \in Nat \ {0} /\ MaxSize \in Nat /\ MinSize <= MaxSize
      /\ InitialUpdates \in Nat
  BY ConstantTypes, LinregAssumption
<1>2. \A z \in Sizes : s.results[z] \in Result
  BY DEF LinregRecord
<1>3. ASSUME NEW z \in Sizes, NEW b \in V
      PROVE  next(z, b) \in V
  <2>1. s.results[z].err \in Nat
    BY <1>2 DEF Result
  <2> QED
    BY <2>1
<1> HIDE DEF next
<1>4. PICK g : Runs(g, V, [size |-> 0, err |-> 0], hi, step)
  <2>1. \A n \in 1 .. hi, b \in V : step[n][b] \in V
    <3> TAKE n \in 1 .. hi, b \in V
    <3>1. n + MinSize - 1 \in Sizes
      BY <1>1 DEF Sizes
    <3> HIDE DEF V
    <3>2. step[n][b] = next(n + MinSize - 1, b)
      OBVIOUS
    <3> QED
      BY <1>3, <3>1, <3>2
  <2>2. [size |-> 0, err |-> 0] \in V /\ hi \in Nat
    BY <1>1
  <2> HIDE DEF V, step, hi
  <2> QED
    BY <2>1, <2>2, RecursionExists
<1> DEFINE f == [size \in D |-> g[size - (MinSize - 1)]]
<1>5. def(f)
  <2>1. ASSUME NEW size \in D
        PROVE  f[size] = IF size < MinSize THEN [size |-> 0, err |-> 0]
                         ELSE next(size, f[size - 1])
    <3>1. CASE size < MinSize
      <4>1. size - (MinSize - 1) = 0
        BY <1>1, <3>1
      <4> QED
        BY <1>4, <3>1, <4>1 DEF Runs
    <3>2. CASE ~(size < MinSize)
      <4> DEFINE n == size - (MinSize - 1)
      <4>1. n \in 1 .. hi /\ n - 1 \in 0 .. hi /\ n + MinSize - 1 = size
            /\ size - 1 \in D /\ (size - 1) - (MinSize - 1) = n - 1
        BY <1>1, <3>2
      <4>2. f[size] = g[n] /\ f[size - 1] = g[n - 1]
        BY <4>1
      <4> HIDE DEF n
      <4>3. g[n] = step[n][g[n - 1]] /\ g[n - 1] \in V
        <5> HIDE DEF step, V, hi
        <5> QED
          BY <1>4, <4>1 DEF Runs
      <4>4. step[n][g[n - 1]] = next(n + MinSize - 1, g[n - 1])
        <5> HIDE DEF V, hi
        <5> QED
          BY <4>1, <4>3
      <4> HIDE DEF f
      <4> QED
        BY <3>2, <4>1, <4>2, <4>3, <4>4
    <3> QED
      BY <3>1, <3>2
  <2>2. f = [size \in D |-> f[size]]
    OBVIOUS
  <2> HIDE DEF f
  <2> QED
    BY <2>1, <2>2
<1>6. def(best)
  <2> HIDE DEF def, f
  <2> QED
    BY <1>5
<1>7. r = [s EXCEPT !.size = best[MaxSize].size]
  BY DEF UpdateSize, next
<1> HIDE DEF best, r
<1>8. \A size \in D : best[size] = IF size < MinSize THEN [size |-> 0, err |-> 0]
                                   ELSE next(size, best[size - 1])
  BY <1>6
<1> DEFINE good(k) ==
             /\ best[k] \in V /\ best[k].size <= k
             /\ best[k].size = 0 =>
                   \A z \in Sizes : z <= k => s.results[z].slope = 0
             /\ best[k].size # 0 => Earned(s, best[k].size)
           T == {n \in 0 .. hi : ~good(n + MinSize - 1)}
<1>9. good(MinSize - 1)
  <2>1. best[MinSize - 1] = [size |-> 0, err |-> 0]
    BY <1>1, <1>8
  <2>2. \A z \in Sizes : ~(z <= MinSize - 1)
    BY <1>1 DEF Sizes
  <2> QED
    BY <1>1, <2>1, <2>2
<1>10. ASSUME NEW k \in Sizes, good(k - 1)
       PROVE  good(k)
  <2> DEFINE b == best[k - 1] res == s.results[k]
  <2>1. k \in D /\ ~(k < MinSize) /\ k \in Nat \ {0}
    BY <1>1 DEF Sizes
  <2>2. best[k] = next(k, b)
    BY <1>8, <2>1
  <2>3. b \in V /\ b.size <= k - 1
    BY <1>10
  <2>4. best[k] \in V
    <3> HIDE DEF V, b
    <3> QED
      BY <1>3, <2>2, <2>3
  <2>5. \A z \in Sizes : z \in Int /\ (z <= k => z = k \/ z <= k - 1)
                         /\ (z < k => z <= k - 1)
    BY <1>1, <2>1 DEF Sizes
  <2>6. /\ b.size = 0 => \A z \in Sizes : z <= k - 1 => s.results[z].slope = 0
        /\ b.size # 0 => Earned(s, b.size)
    BY <1>10
  <2>7. res.err_updates \in 0 .. InitialUpdates /\ res.err \in Nat
    BY <1>2 DEF Result
  <2> HIDE DEF b, res
  <2>8. CASE b.size = 0 /\ res.slope # 0
    <3>1. best[k] = [size |-> k, err |-> res.err]
      BY <2>2, <2>8 DEF next, res
    <3>2. Earned(s, k)
      BY <2>5, <2>6, <2>8 DEF Earned, res
    <3> QED
      BY <2>1, <2>4, <3>1, <3>2
  <2>9. CASE b.err * 21 > res.err * 20 /\ res.err_updates >= InitialUpdates
    <3>1. best[k] = [size |-> k, err |-> res.err]
      BY <2>2, <2>9 DEF next, res
    <3>2. Earned(s, k)
      BY <1>1, <2>7, <2>9 DEF Earned, res
    <3> QED
      BY <2>1, <2>4, <3>1, <3>2
  <2>10. CASE /\ ~(b.size = 0 /\ res.slope # 0)
              /\ ~(b.err * 21 > res.err * 20
                   /\ res.err_updates >= InitialUpdates)
    <3>1. best[k] = b
      BY <2>2, <2>10 DEF next, res
    <3>2. b.size <= k
      <4>1. b.size \in Int
        BY <1>1, <2>3 DEF Sizes
      <4> QED
        BY <2>1, <2>3, <4>1
    <3>3. ASSUME b.size = 0, NEW z \in Sizes, z <= k
          PROVE  s.results[z].slope = 0
      BY <2>5, <2>6, <2>10, <3>3 DEF res
    <3> QED
      BY <2>3, <2>6, <3>1, <3>2, <3>3
  <2> QED
    BY <2>8, <2>9, <2>10
<1>11. T = {}
  <2>1. SUFFICES ASSUME T # {} PROVE FALSE
    OBVIOUS
  <2>2. PICK m \in T : \A k \in T : m <= k
    <3>1. T \in SUBSET Nat
      OBVIOUS
    <3> HIDE DEF T
    <3> QED
      BY <2>1, <3>1, LeastNumber
  <2>3. m \in 0 .. hi /\ ~good(m + MinSize - 1)
    BY <2>2
  <2>4. m # 0
    <3> HIDE DEF good
    <3>1. m = 0 => m + MinSize - 1 = MinSize - 1
      BY <1>1
    <3> QED
      BY <1>9, <2>3, <3>1
  <2> HIDE DEF good
  <2>5. m - 1 \in 0 .. hi /\ ~(m <= m - 1) /\ m + MinSize - 1 \in Sizes
        /\ (m - 1) + MinSize - 1 = (m + MinSize - 1) - 1
    BY <1>1, <2>3, <2>4 DEF Sizes
  <2>6. good((m - 1) + MinSize - 1)
    BY <2>2, <2>5
  <2> QED
    BY <1>10, <2>3, <2>5, <2>6
<1>12. good(MaxSize)
  <2> HIDE DEF good
  <2>1. hi \in 0 .. hi /\ hi + MinSize - 1 = MaxSize
    BY <1>1
  <2> QED
    BY <1>11, <2>1
<1>13. best[MaxSize].size \in {0} \union Sizes
  BY <1>12
<1> DEFINE chosen == best[MaxSize].size
<1>14. chosen # 0 => Earned(s, chosen)
  BY <1>12
<1> HIDE DEF chosen
<1>15. r \in LinregRecord /\ r.size = chosen
  BY <1>7, <1>13 DEF LinregRecord, chosen
<1>16. r = [s EXCEPT !.size = r.size]
  BY <1>7, <1>15 DEF chosen
<1> QED
  BY <1>14, <1>15, <1>16 DEF Sized, r

SameButFrequency(s, r) ==
    /\ r \in LinregRecord
    /\ SameRing(s, r)
    /\ r.reference = s.reference /\ r.x_remainder = s.x_remainder
    /\ r.last_update = s.last_update
    /\ r.size = s.size /\ r.results = s.results

(* The frequency of a line is within the range of the clock. *)
LEMMA SetClockFreqFacts ==
    ASSUME NEW s \in LinregRecord, s.size # 0
    PROVE  SameButFrequency(s, SetClockFreq(s))
<1> DEFINE res  == s.results[s.size]
           corr == IF s.size <= 4 THEN 1 ELSE s.size \div 2
           a    == NsPerSec * (res.slope - One)
           b    == UpdateInterval * corr
           c    == TmvDiv(a, One) + TmvDiv(res.intercept, b)
           freq == ClampFreq(c)
           rate == TmvDiv(res.slope * NsPerSec, NsPerSec + freq)
           r    == SetClockFreq(s)
<1>1. /\ One \in Nat \ {0} /\ NsPerSec \in Nat /\ MaxFrequency \in Nat
      /\ UpdateInterval \in Nat \ {0} /\ s.size \in Nat \ {0}
  <2>1. s.size \in Sizes
    BY DEF LinregRecord
  <2> QED
    BY <2>1, ConstantTypes, LinregAssumption DEF Sizes
<1>2. res.slope \in Int /\ res.intercept \in Int
  <2>1. res \in Result
    BY DEF LinregRecord
  <2> HIDE DEF res
  <2> QED
    BY <2>1 DEF Result
<1> HIDE DEF res
<1>3. corr \in Nat \ {0}
  BY <1>1
<1> HIDE DEF corr
<1>4. a \in Int /\ b \in Nat \ {0} /\ res.slope * NsPerSec \in Int
  BY <1>1, <1>2, <1>3
<1> HIDE DEF a, b
<1>5. c \in Int
  <2>1. TmvDiv(a, One) \in Int /\ TmvDiv(res.intercept, b) \in Int
    BY <1>1, <1>2, <1>4, QuotientSign
  <2> QED
    BY <2>1
<1> HIDE DEF c
<1>6. freq \in -MaxFrequency .. MaxFrequency
  BY <1>1, <1>5 DEF ClampFreq
<1> HIDE DEF freq
<1>7. rate \in Int
  BY <1>4, <1>6, ConstantTypes, QuotientSign
<1>8. r = [s EXCEPT !.clock_freq = freq, !.frequency_ratio = rate]
  BY DEF SetClockFreq, rate, freq, c, b, a, corr, res
<1> HIDE DEF r, rate
<1>9. SameButFrequency(s, r)
  BY <1>6, <1>7, <1>8 DEF SameButFrequency, SameRing, LinregRecord
<1> QED
  BY <1>9 DEF r

-----------------------------------------------------------------------------
(***************************************************************************)
(* One call of linreg_sample().  Ended says what it leaves, from what      *)
(* add_sample() made, if the clock is about to be stepped by -step.        *)
(***************************************************************************)
SampleRecord == [remote : Int, elapsed : Int, weight : Nat]

Ended(s, r, step) ==
    /\ r \in LinregRecord
    /\ SameRing(s, r)
    /\ r.reference.x = s.reference.x /\ r.reference.y = s.reference.y - step
    /\ r.x_remainder = s.x_remainder
    /\ r.last_update = s.last_update - step
    /\ r.size # 0 => Earned(r, r.size)
    /\ \A z \in Sizes : ~Enough(s, z) =>
          /\ r.results[z].slope = s.results[z].slope
          /\ r.results[z].err_updates = s.results[z].err_updates

(* The lines alone decide which size is earned. *)
LEMMA EarnedByLines ==
    ASSUME NEW s, NEW r, NEW size \in Sizes, SameLines(s, r), Earned(s, size)
    PROVE  Earned(r, size)
  BY DEF SameLines, Earned

(* Regression and choice of a size. *)
LEMMA FittedFacts ==
    ASSUME NEW s \in LinregRecord, ~Undefined(s)
    PROVE  Ended(s, UpdateSize(Regress(s)), 0)
<1> DEFINE fit == Regress(s)
           r   == UpdateSize(fit)
<1>1. /\ SameButResults(s, fit)
      /\ \A z \in Sizes : ~Enough(s, z) => fit.results[z] = s.results[z]
  BY RegressFacts
<1> HIDE DEF fit
<1>2. Sized(fit, r)
  BY <1>1, UpdateSizeFacts DEF SameButResults
<1> HIDE DEF r
<1>3. /\ SameRing(fit, r) /\ r.reference = fit.reference
      /\ r.x_remainder = fit.x_remainder /\ r.last_update = fit.last_update
      /\ r.results = fit.results
  BY <1>1, <1>2 DEF Sized, SameButResults, LinregRecord, SameRing
<1>4. s.reference.y \in Int /\ s.last_update \in Int
  BY DEF LinregRecord
<1>5. r.size # 0 => Earned(r, r.size)
  BY <1>2, <1>3 DEF Sized, Earned
<1>6. /\ SameRing(s, r) /\ r.reference.x = s.reference.x
      /\ r.reference.y = s.reference.y - 0
      /\ r.x_remainder = s.x_remainder /\ r.last_update = s.last_update - 0
  BY <1>1, <1>3, <1>4 DEF SameButResults, SameRing
<1> QED
  BY <1>1, <1>2, <1>3, <1>5, <1>6 DEF Ended, Sized, r, fit

(* The frequency that is set changes nothing of this. *)
LEMMA FrequencyEnds ==
    ASSUME NEW s, NEW t, NEW step, Ended(s, t, step), t.size # 0
    PROVE  Ended(s, SetClockFreq(t), step)
<1> DEFINE r == SetClockFreq(t)
<1>1. SameButFrequency(t, r)
  BY SetClockFreqFacts DEF Ended
<1> HIDE DEF r
<1>2. r.size # 0 => Earned(r, r.size)
  BY <1>1 DEF Ended, SameButFrequency, Earned
<1> QED
  BY <1>1, <1>2 DEF Ended, SameButFrequency, SameRing, r

(* The step moves reference and last_update together. *)
LEMMA SteppedEnds ==
    ASSUME NEW s \in LinregRecord, NEW t, NEW offset \in Int, Ended(s, t, 0)
    PROVE  Ended(s, Stepped(t, offset), offset) /\ Stepped(t, offset).size = t.size
<1> DEFINE moved == MoveReference(t, 0, -offset)
           r     == Stepped(t, offset)
<1>1. t \in LinregRecord /\ -offset \in Int /\ 0 \in Int
  BY DEF Ended
<1>2. MovedBy(t, moved, 0, -offset)
  BY <1>1, MoveReferenceFacts
<1>3. r = [moved EXCEPT !.last_update = moved.last_update - offset]
  BY DEF Stepped
<1> HIDE DEF moved, r
<1>4. /\ t.reference.x \in Int /\ t.reference.y \in Int /\ t.last_update \in Int
      /\ s.reference.y \in Int /\ s.last_update \in Int
      /\ s.reference.x \in Int
  BY <1>1 DEF LinregRecord
<1>5. /\ moved.reference.x = t.reference.x + 0
      /\ moved.reference.y = t.reference.y + (-offset)
      /\ SameRing(t, moved) /\ moved.x_remainder = t.x_remainder
      /\ moved.last_update = t.last_update /\ moved.size = t.size
      /\ SameLines(t, moved) /\ moved \in LinregRecord
  <2>1. /\ moved.reference = [x |-> t.reference.x + 0,
                               y |-> t.reference.y + (-offset)]
        /\ moved = [t EXCEPT !.reference = moved.reference,
                             !.results = moved.results]
        /\ SameLines(t, moved) /\ moved \in LinregRecord
    BY <1>2 DEF MovedBy
  <2>2. /\ SameRing(t, moved) /\ moved.x_remainder = t.x_remainder
        /\ moved.last_update = t.last_update /\ moved.size = t.size
    BY <1>1, <2>1 DEF LinregRecord, SameRing
  <2> QED
    BY <2>1, <2>2
<1>6. /\ r \in LinregRecord /\ SameRing(moved, r)
      /\ r.reference = moved.reference /\ r.x_remainder = moved.x_remainder
      /\ r.last_update = moved.last_update - offset
      /\ r.size = moved.size /\ r.results = moved.results
  <2>1. moved \in LinregRecord /\ moved.last_update - offset \in Int
    BY <1>4, <1>5
  <2> QED
    BY <1>3, <2>1 DEF LinregRecord, SameRing
<1>7. /\ r.reference.x = s.reference.x /\ r.reference.y = s.reference.y - offset
      /\ r.last_update = s.last_update - offset
      /\ r.x_remainder = s.x_remainder
  BY <1>4, <1>5, <1>6 DEF Ended
<1>8. SameRing(s, r)
  BY <1>5, <1>6 DEF Ended, SameRing
<1>9. SameLines(t, r)
  BY <1>5, <1>6 DEF SameLines
<1>10. r.size # 0 => Earned(r, r.size)
  <2>1. r.size = t.size /\ t.size \in {0} \union Sizes
    BY <1>1, <1>5, <1>6 DEF LinregRecord
  <2> QED
    BY <1>9, <2>1, EarnedByLines DEF Ended
<1>11. \A z \in Sizes : ~Enough(s, z) =>
          /\ r.results[z].slope = s.results[z].slope
          /\ r.results[z].err_updates = s.results[z].err_updates
  BY <1>9 DEF Ended, SameLines
<1> QED
  BY <1>5, <1>6, <1>7, <1>8, <1>10, <1>11 DEF Ended, r

\* What add_sample() leaves, within a call
AddedTo(s, local_ts, offset, weight) ==
    AddSample(UpdateReference(s, local_ts), offset, weight)

(* How servo_sample() may end. *)
LEMMA SampleEnds ==
    ASSUME NEW offset \in Int, NEW local_ts, NEW weight,
           AddedTo(lr, local_ts, offset, weight) \in LinregRecord,
           LinregSample(offset, local_ts, weight)
    PROVE  /\ Ended(AddedTo(lr, local_ts, offset, weight), lr',
                    IF state' = "JUMP" THEN offset ELSE 0)
           /\ \E verdict \in {"UNLOCKED", "JUMP", "LOCKED"} :
                 Conclude(verdict, offset)
<1> DEFINE added == AddedTo(lr, local_ts, offset, weight)
           next  == UpdateSize(Regress(added))
<1>1. /\ ~Undefined(added)
      /\ WaitForMore(offset, next) \/ Jump(offset, next) \/ Lock(offset, next)
  BY DEF LinregSample, AddedTo
<1> HIDE DEF added
<1>2. Ended(added, next, 0)
  BY <1>1, FittedFacts DEF added
<1> HIDE DEF next
<1>3. CASE WaitForMore(offset, next)
  <2>1. state' = "UNLOCKED" /\ lr' = next /\ Conclude("UNLOCKED", offset)
    BY <1>3 DEF WaitForMore, Conclude
  <2> QED
    BY <1>2, <2>1 DEF added
<1>4. CASE Jump(offset, next)
  <2>1. /\ state' = "JUMP" /\ next.size # 0 /\ Conclude("JUMP", offset)
        /\ lr' = SetClockFreq(Stepped(next, offset))
    BY <1>4 DEF Jump, Conclude
  <2>2. /\ Ended(added, Stepped(next, offset), offset)
        /\ Stepped(next, offset).size = next.size
    BY <1>2, SteppedEnds DEF added
  <2>3. Ended(added, lr', offset)
    BY <2>1, <2>2, FrequencyEnds
  <2> QED
    BY <2>1, <2>3 DEF added
<1>5. CASE Lock(offset, next)
  <2>1. /\ state' # "JUMP" /\ next.size # 0 /\ Conclude("LOCKED", offset)
        /\ lr' = SetClockFreq(next)
    BY <1>5 DEF Lock, Conclude
  <2>2. Ended(added, lr', 0)
    BY <1>2, <2>1, FrequencyEnds
  <2> QED
    BY <2>1, <2>2 DEF added
<1> QED
  BY <1>1, <1>3, <1>4, <1>5

(* What servo_sample() leaves of the servo's own fields. *)
LEMMA ConcludeType ==
    ASSUME ServoTypeOK, NEW offset \in Int, adj' \in Int,
           \E verdict \in {"UNLOCKED", "JUMP", "LOCKED"} :
              Conclude(verdict, offset)
    PROVE  ServoTypeOK'
<1>1. /\ first_update \in BOOLEAN /\ NumOffsetValues \in Nat
      /\ curr_offset_values \in 0 .. NumOffsetValues
      /\ small_seen \in 0 .. NumOffsetValues
  BY ServoAssumption DEF ServoTypeOK
<1>2. Remaining(offset) \in 0 .. NumOffsetValues
  BY <1>1 DEF Remaining
<1>3. SmallSeen(offset) \in 0 .. NumOffsetValues
  BY <1>1 DEF SmallSeen
<1>4. (IF OffsetStable(offset) THEN "LOCKED_STABLE" ELSE "LOCKED") \in ServoStates
  BY DEF ServoStates
<1>5. PICK verdict \in {"UNLOCKED", "JUMP", "LOCKED"} : Conclude(verdict, offset)
  OBVIOUS
<1>6. /\ first_update' \in BOOLEAN /\ state' \in ServoStates
      /\ curr_offset_values' \in 0 .. NumOffsetValues
      /\ small_seen' \in 0 .. NumOffsetValues
  <2> DEFINE stable == IF OffsetStable(offset) THEN "LOCKED_STABLE" ELSE "LOCKED"
  <2>1. \/ /\ state' = "UNLOCKED" /\ curr_offset_values' = NumOffsetValues
           /\ small_seen' = 0 /\ first_update' = first_update
        \/ /\ state' = "JUMP" /\ curr_offset_values' = NumOffsetValues
           /\ small_seen' = 0 /\ first_update' = FALSE
        \/ /\ state' = stable /\ curr_offset_values' = Remaining(offset)
           /\ small_seen' = SmallSeen(offset) /\ first_update' = FALSE
    BY <1>5, Zenon DEF Conclude
  <2>2. stable \in ServoStates
    BY <1>4
  <2> HIDE DEF stable
  <2>3. "UNLOCKED" \in ServoStates /\ "JUMP" \in ServoStates
    BY DEF ServoStates
  <2>4. state' \in ServoStates
    BY <2>1, <2>2, <2>3, Zenon
  <2>5. first_update' \in BOOLEAN
    BY <1>1, <2>1, Zenon
  <2>6. /\ curr_offset_values' \in 0 .. NumOffsetValues
        /\ small_seen' \in 0 .. NumOffsetValues
    BY <1>1, <1>2, <1>3, <2>1
  <2> QED
    BY <2>4, <2>5, <2>6
<1> QED
  BY <1>6 DEF ServoTypeOK

-----------------------------------------------------------------------------
(***************************************************************************)
(* The invariant.  Points and history agree if, for each age, the weights  *)
(* are the same, the difference in y is remote, and elapsed, which counts  *)
(* in fractions, is less than a unit ahead of x: remote and ahead are what *)
(* the two time scales began with.                                         *)
(***************************************************************************)
Matches(s, smp, remote, ahead) ==
    /\ s.num_points = Len(smp)
    /\ \A a \in 0 .. Len(smp) - 1 :
          /\ Aged(s, a).w = Former(smp, a).weight
          /\ Aged(s, a).y - Former(smp, a).remote = remote
          /\ ahead - One * Aged(s, a).x + Former(smp, a).elapsed \in 0 .. One - 1

\* The reference, and what update_reference() cut off, are where the history is
Remote(s) == s.reference.y - local
Ahead(s, smp) ==
    (One * s.reference.x + s.x_remainder) - Former(smp, 0).elapsed

StructInv ==
    /\ ServoTypeOK /\ defined \in BOOLEAN
    /\ lr \in LinregRecord /\ adj = -lr.clock_freq
    /\ samples \in Seq(SampleRecord)

\* Each call moves the clock back by less than 1/MaxCalls of Start
TimeInv ==
    /\ local \in Int /\ calls \in 0 .. MaxCalls
    /\ MaxCalls * local + calls * (Start - 1) >= MaxCalls * Start
    /\ lr.last_update = IF samples = <<>> THEN 0 ELSE local

RingInv ==
    /\ lr.num_points = Len(samples)
    /\ samples # <<>> => Matches(lr, samples, Remote(lr), Ahead(lr, samples))

SizeInv ==
    /\ \A z \in Sizes :
          lr.results[z].slope # 0 \/ lr.results[z].err_updates # 0 => Enough(lr, z)
    /\ lr.size # 0 => Earned(lr, lr.size)

LinregInv ==
    /\ StructInv /\ TimeInv /\ RingInv /\ SizeInv
    /\ ~defined => Undefined(lr)

(* A window that another sample is pushed to. *)
LEMMA PushedFacts ==
    ASSUME NEW smp \in Seq(SampleRecord), NEW new \in SampleRecord,
           Len(smp) <= MaxPoints
    PROVE  LET r == Pushed(smp, new, MaxPoints)
           IN  /\ r \in Seq(SampleRecord) /\ r # <<>>
               /\ Len(r) = IF Len(smp) < MaxPoints THEN Len(smp) + 1 ELSE Len(smp)
               /\ Former(r, 0) = new
               /\ \A a \in 1 .. Len(r) - 1 : Former(r, a) = Former(smp, a - 1)
<1> DEFINE longer == Append(smp, new)
           r == Pushed(smp, new, MaxPoints)
<1>1. PICK len \in Nat : Len(smp) = len
  BY LenProperties
<1>2. MaxPoints \in Nat \ {0} /\ len <= MaxPoints
  BY <1>1, ConstantTypes
<1>3. /\ longer \in Seq(SampleRecord) /\ Len(longer) = len + 1
      /\ longer[len + 1] = new
      /\ \A i \in 1 .. len : longer[i] = smp[i]
  BY <1>1, AppendProperties
<1> HIDE DEF longer
<1>4. CASE len < MaxPoints
  <2>1. r = longer
    BY <1>2, <1>3, <1>4 DEF Pushed, longer
  <2> HIDE DEF r
  <2>2. Former(r, 0) = new /\ r # <<>>
    BY <1>3, <2>1, EmptySeq DEF Former
  <2>3. \A a \in 1 .. len : Former(r, a) = Former(smp, a - 1)
    <3> TAKE a \in 1 .. len
    <3>1. (len + 1) - a = len - (a - 1) /\ len - (a - 1) \in 1 .. len
      OBVIOUS
    <3> QED
      BY <1>1, <1>3, <2>1, <3>1 DEF Former
  <2> QED
    BY <1>1, <1>3, <1>4, <2>1, <2>2, <2>3 DEF r
<1>5. CASE ~(len < MaxPoints)
  <2>1. r = Tail(longer) /\ longer # <<>>
    BY <1>2, <1>3, <1>5, EmptySeq DEF Pushed, longer
  <2>2. /\ Tail(longer) \in Seq(SampleRecord) /\ Len(Tail(longer)) = len
        /\ \A i \in 1 .. len : Tail(longer)[i] = longer[i + 1]
    BY <1>1, <1>3, <2>1, HeadTailProperties
  <2> HIDE DEF r
  <2>3. len \in 1 .. len /\ r[len] = new
    BY <1>2, <1>3, <1>5, <2>1, <2>2
  <2>4. Former(r, 0) = new /\ r # <<>>
    <3>1. Len(r) = len /\ len - 0 = len /\ len # 0
      BY <2>1, <2>2, <2>3
    <3>2. r # <<>>
      BY <3>1, EmptySeq
    <3>3. Former(r, 0) = r[len]
      BY <3>1 DEF Former
    <3> QED
      BY <2>3, <3>2, <3>3
  <2>5. \A a \in 1 .. len - 1 : Former(r, a) = Former(smp, a - 1)
    <3> TAKE a \in 1 .. len - 1
    <3>1. (len - a) + 1 = len - (a - 1) /\ len - (a - 1) \in 1 .. len
          /\ len - a \in 1 .. len
      OBVIOUS
    <3>2. r[len - a] = longer[len - (a - 1)]
      BY <2>1, <2>2, <3>1
    <3> QED
      BY <1>1, <1>3, <2>1, <2>2, <3>1, <3>2 DEF Former
  <2> QED
    BY <1>1, <1>5, <2>1, <2>2, <2>4, <2>5 DEF r
<1> QED
  BY <1>1, <1>4, <1>5

(***************************************************************************)
(* A sample is added to the ring and to the history alike.  What the       *)
(* reference has moved since the sample before is what the history counts. *)
(***************************************************************************)
LEMMA AddedMatches ==
    ASSUME LinregInv, NEW offset \in Int, NEW gap \in Nat, NEW weight \in Nat,
           samples # <<>> => local # 0
    PROVE  LET s   == AddedTo(lr, local + gap, offset, weight)
               smp == Pushed(samples, Taken(offset, gap, weight), MaxPoints)
           IN  /\ s \in LinregRecord /\ smp \in Seq(SampleRecord) /\ smp # <<>>
               /\ Matches(s, smp, s.reference.y - (local + gap), Ahead(s, smp))
               /\ s.last_update = local + gap
               /\ s.size = lr.size /\ s.clock_freq = lr.clock_freq
               /\ SameLines(lr, s) /\ s.num_points >= lr.num_points
<1> DEFINE ts  == local + gap
           u   == UpdateReference(lr, ts)
           s   == AddSample(u, offset, weight)
           new == Taken(offset, gap, weight)
           smp == Pushed(samples, new, MaxPoints)
<1>1. PICK len \in Nat : Len(samples) = len
  BY LenProperties DEF LinregInv, StructInv
<1>2. /\ lr \in LinregRecord /\ samples \in Seq(SampleRecord)
      /\ local \in Int /\ ts \in Int /\ adj = -lr.clock_freq
      /\ lr.last_update = IF samples = <<>> THEN 0 ELSE local
      /\ lr.num_points = len /\ len \in 0 .. MaxPoints
  BY <1>1 DEF LinregInv, StructInv, TimeInv, RingInv, LinregRecord
<1>3. /\ MaxPoints \in Nat \ {0} /\ One \in Nat \ {0}
      /\ lr.clock_freq \in -MaxFrequency .. MaxFrequency
      /\ lr.reference.x \in Int /\ lr.reference.y \in Int
      /\ lr.x_remainder \in 0 .. One - 1
  BY <1>2, ConstantTypes DEF LinregRecord
<1>4. Updated(lr, u, ts)
  BY <1>2, UpdateReferenceFacts
<1>5. Added(u, s, offset, weight)
  BY <1>4, AddSampleFacts DEF Updated
<1> DEFINE before == IF samples = <<>> THEN 0 ELSE Former(samples, 0).elapsed
           counted == IF samples = <<>> THEN 0 ELSE Meanwhile(lr, gap)
<1>6. /\ before \in Int /\ counted \in Int
      /\ new = [remote |-> ts - offset, weight |-> weight,
                elapsed |-> before + counted]
  <2>0. local + gap - offset = ts - offset
    BY <1>2
  <2>1. CASE samples = <<>>
    <3>1. new = [remote |-> local + gap - offset, weight |-> weight,
                 elapsed |-> 0]
      BY <2>1, Zenon DEF Taken
    <3> HIDE DEF new
    <3> QED
      BY <2>0, <2>1, <3>1
  <2>2. CASE samples # <<>>
    <3>1. len \in 1 .. len /\ len - 0 = len
      BY <1>1, <1>2, <2>2, EmptySeq
    <3>2. samples[len] \in SampleRecord
      BY <1>1, <1>2, <3>1, ElementOfSeq
    <3>3. before = samples[len].elapsed /\ samples[len].elapsed \in Int
      BY <1>1, <2>2, <3>1, <3>2 DEF Former, SampleRecord
    <3>4. NsPerSec - adj = NsPerSec + lr.clock_freq
          /\ NsPerSec + lr.clock_freq \in Nat \ {0} /\ NsPerSec \in Nat
      BY <1>2, <1>3, ConstantTypes
    <3>5. Undisciplined(gap) = Meanwhile(lr, gap)
      BY <3>4 DEF Undisciplined, Meanwhile
    <3>6. gap * NsPerSec \in Int
      BY <3>4
    <3>7. gap * NsPerSec * One \in Int
      BY <1>3, <3>6
    <3>8. Meanwhile(lr, gap) \in Int
      BY <3>4, <3>7, QuotientSign DEF Meanwhile
    <3>9. new = [remote |-> local + gap - offset, weight |-> weight,
                 elapsed |-> samples[len].elapsed + Undisciplined(gap)]
      BY <1>1, <2>2, Zenon DEF Taken
    <3> HIDE DEF new, before
    <3> QED
      BY <2>0, <2>2, <3>3, <3>5, <3>8, <3>9
  <2> QED
    BY <2>1, <2>2
<1> HIDE DEF before, counted, new
<1>7. new \in SampleRecord
  BY <1>2, <1>6 DEF SampleRecord
<1>8. /\ smp \in Seq(SampleRecord) /\ smp # <<>>
      /\ Len(smp) = IF len < MaxPoints THEN len + 1 ELSE len
      /\ Former(smp, 0) = new
      /\ \A a \in 1 .. Len(smp) - 1 : Former(smp, a) = Former(samples, a - 1)
  BY <1>1, <1>2, <1>7, PushedFacts, SMTT(30)
<1> HIDE DEF smp, s, u
<1>9. /\ s \in LinregRecord /\ s.last_update = ts
      /\ s.size = lr.size /\ s.clock_freq = lr.clock_freq
      /\ s.reference = u.reference /\ s.x_remainder = u.x_remainder
      /\ SameLines(lr, s) /\ s.num_points >= lr.num_points
      /\ s.num_points = Len(smp)
  <2>1. u.num_points = len
    BY <1>2, <1>4 DEF Updated, SameRing
  <2>2. s.num_points = Len(smp) /\ s.num_points >= lr.num_points
    BY <1>2, <1>3, <1>5, <1>8, <2>1 DEF Added
  <2>3. SameLines(lr, s)
    BY <1>4, <1>5 DEF Updated, Added, SameLines
  <2> QED
    BY <1>4, <1>5, <2>2, <2>3 DEF Updated, Added
<1>10. u.reference.x \in Int /\ u.reference.y \in Int
       /\ u.x_remainder \in 0 .. One - 1
  BY <1>4 DEF Updated, LinregRecord
<1> DEFINE remote == u.reference.y - ts
           ahead == (One * u.reference.x + u.x_remainder) - (before + counted)
<1>11. Ahead(s, smp) = ahead /\ s.reference.y - ts = remote
  <2>1. Former(smp, 0).elapsed = before + counted
    BY <1>6, <1>8
  <2> QED
    BY <1>9, <2>1 DEF Ahead
<1>12. ASSUME samples # <<>>
       PROVE  remote = Remote(lr) /\ ahead = Ahead(lr, samples)
  <2>1. lr.last_update # 0 /\ ts - lr.last_update = gap /\ lr.last_update = local
    BY <1>2, <1>12
  <2>2. /\ u.reference.y = lr.reference.y + gap
        /\ One * u.reference.x + u.x_remainder
              = One * lr.reference.x + lr.x_remainder + counted
    BY <1>4, <1>12, <2>1 DEF Updated, counted
  <2>3. remote = lr.reference.y - local
    BY <1>2, <1>3, <2>2
  <2> DEFINE p == One * u.reference.x + u.x_remainder
             q == One * lr.reference.x + lr.x_remainder
  <2>4. p \in Int /\ q \in Int
    BY <1>3, <1>10, SMTT(30)
  <2>5. p = q + counted
    BY <2>2
  <2>6. ahead = p - (before + counted)
    OBVIOUS
  <2>7. Ahead(lr, samples) = q - before
    BY <1>12 DEF Ahead, before
  <2> HIDE DEF p, q
  <2> QED
    BY <1>6, <2>3, <2>4, <2>5, <2>6, <2>7 DEF Remote
<1> DEFINE fits(a) ==
             /\ Aged(s, a).w = Former(smp, a).weight
             /\ Aged(s, a).y - Former(smp, a).remote = remote
             /\ ahead - One * Aged(s, a).x + Former(smp, a).elapsed
                   \in 0 .. One - 1
<1>13. fits(0)
  <2>1. Aged(s, 0) = [x |-> u.reference.x, y |-> u.reference.y - offset,
                      w |-> weight]
    BY <1>5 DEF Added
  <2> DEFINE p == One * u.reference.x
  <2>2. p \in Int
    BY <1>3, <1>10
  <2>3. Aged(s, 0).y - Former(smp, 0).remote = remote
    BY <1>2, <1>6, <1>8, <1>10, <2>1
  <2>4. ahead - One * Aged(s, 0).x + Former(smp, 0).elapsed
          = ((p + u.x_remainder) - (before + counted)) - p + (before + counted)
    BY <1>6, <1>8, <2>1
  <2> HIDE DEF p
  <2>5. ((p + u.x_remainder) - (before + counted)) - p + (before + counted)
          = u.x_remainder
    BY <1>6, <1>10, <2>2
  <2> QED
    BY <1>6, <1>8, <1>10, <2>1, <2>3, <2>4, <2>5
<1>14. ASSUME NEW a \in 1 .. Len(smp) - 1
       PROVE  fits(a)
  <2>1. /\ a \in 1 .. MaxPoints - 1 /\ a - 1 \in 0 .. len - 1 /\ len # 0
    BY <1>2, <1>3, <1>8
  <2>2. samples # <<>>
    BY <1>1, <2>1, EmptySeq
  <2>3. Aged(s, a) = Aged(u, a - 1) /\ Aged(u, a - 1) = Aged(lr, a - 1)
    BY <1>4, <1>5, <2>1 DEF Added, Updated, SameRing, Aged
  <2>4. Former(smp, a) = Former(samples, a - 1)
    BY <1>8
  <2>5. Matches(lr, samples, remote, ahead)
    BY <1>12, <2>2 DEF LinregInv, RingInv
  <2> HIDE DEF remote, ahead
  <2>6. /\ Aged(lr, a - 1).w = Former(samples, a - 1).weight
        /\ Aged(lr, a - 1).y - Former(samples, a - 1).remote = remote
        /\ ahead - One * Aged(lr, a - 1).x + Former(samples, a - 1).elapsed
              \in 0 .. One - 1
    BY <1>1, <2>1, <2>5 DEF Matches
  <2> QED
    BY <2>3, <2>4, <2>6
<1>15. Matches(s, smp, remote, ahead)
  <2> HIDE DEF fits
  <2>1. \A a \in 0 .. Len(smp) - 1 : a = 0 \/ a \in 1 .. Len(smp) - 1
    BY <1>2, <1>8
  <2>2. \A a \in 0 .. Len(smp) - 1 : fits(a)
    BY <1>13, <1>14, <2>1
  <2> QED
    BY <1>9, <2>2 DEF Matches, fits
<1> HIDE DEF remote, ahead
<1>16. Matches(s, smp, s.reference.y - ts, Ahead(s, smp))
  BY <1>11, <1>15
<1> QED
  BY <1>8, <1>9, <1>16 DEF s, u, smp, new, AddedTo

(***************************************************************************)
(* The local clock never comes back to 0, which update_reference() takes   *)
(* for no sample yet.                                                      *)
(***************************************************************************)
LEMMA ClockGoesOn ==
    ASSUME TimeInv, calls < MaxCalls, NEW offset \in Offsets, NEW gap \in Gaps
    PROVE  /\ local \in Nat \ {0} /\ local + gap \in Int
           /\ local + gap - offset \in Int
           /\ \A new \in {local + gap, local + gap - offset} :
                 MaxCalls * new + (calls + 1) * (Start - 1) >= MaxCalls * Start
<1>1. /\ local \in Int /\ calls \in Nat /\ MaxCalls \in Nat /\ calls < MaxCalls
      /\ MaxCalls * local + calls * (Start - 1) >= MaxCalls * Start
      /\ offset \in Int /\ gap \in Nat /\ Start \in Nat
      /\ Start > MaxCalls * AbsVal(offset)
  BY ApiAssumption DEF TimeInv
<1>2. AbsVal(offset) \in Nat /\ -AbsVal(offset) <= offset
      /\ offset <= AbsVal(offset)
  BY <1>1 DEF AbsVal
<1> DEFINE away == MaxCalls * AbsVal(offset)
           m == MaxCalls * local
           c == calls * (Start - 1)
           t == MaxCalls * Start
<1>3. away \in Nat /\ m \in Int /\ c \in Int /\ t \in Int
  BY <1>1, <1>2
<1>4. Start - 1 >= away /\ Start - 1 \in Nat
  BY <1>1, <1>3
<1>5. m + c >= t
  BY <1>1
<1>6. local > 0
  <2>1. SUFFICES ASSUME local <= 0 PROVE FALSE
    BY <1>1
  <2>2. m <= 0
    BY <1>1, <2>1
  <2>3. c <= (MaxCalls - 1) * (Start - 1)
    <3>1. (MaxCalls - 1 - calls) * (Start - 1) \in Nat
      BY <1>1, <1>4
    <3>2. (MaxCalls - 1 - calls) * (Start - 1)
             = (MaxCalls - 1) * (Start - 1) - calls * (Start - 1)
      BY <1>1, <1>4
    <3> DEFINE a == (MaxCalls - 1 - calls) * (Start - 1)
               b == (MaxCalls - 1) * (Start - 1)
    <3>3. b \in Int
      BY <1>1, <1>4
    <3> HIDE DEF a, b
    <3> QED
      BY <1>3, <3>1, <3>2, <3>3 DEF a, b
  <2>4. (MaxCalls - 1) * (Start - 1) = t - Start - MaxCalls + 1
    BY <1>1
  <2> DEFINE b == (MaxCalls - 1) * (Start - 1)
  <2>5. b = t - Start - MaxCalls + 1 /\ c <= b
    BY <2>3, <2>4
  <2> HIDE DEF m, c, t, b
  <2>6. t - Start - MaxCalls + 1 >= t
    BY <1>1, <1>3, <1>5, <2>2, <2>5
  <2> QED
    BY <1>1, <1>3, <2>6
<1>7. MaxCalls * (local + gap) >= m
  <2>1. MaxCalls * gap \in Nat
    BY <1>1
  <2>2. MaxCalls * (local + gap) = m + MaxCalls * gap
    BY <1>1
  <2> HIDE DEF m
  <2> QED
    BY <1>3, <2>1, <2>2
<1>8. MaxCalls * (local + gap - offset) >= m - away
  <2>1. gap + AbsVal(offset) - offset \in Nat
    BY <1>1, <1>2
  <2>2. MaxCalls * (gap + AbsVal(offset) - offset) \in Nat
    BY <1>1, <2>1
  <2>3. MaxCalls * (local + gap - offset)
           = m - away + MaxCalls * (gap + AbsVal(offset) - offset)
    BY <1>1, <1>2
  <2> DEFINE b == MaxCalls * (gap + AbsVal(offset) - offset)
  <2>4. MaxCalls * (local + gap - offset) = m - away + b /\ b \in Nat
    BY <2>2, <2>3
  <2> HIDE DEF m, away, b
  <2> QED
    BY <1>3, <2>4
<1>9. (calls + 1) * (Start - 1) = c + (Start - 1)
  BY <1>1
<1>10. ASSUME NEW new \in Int, MaxCalls * new >= m - away
       PROVE  MaxCalls * new + (calls + 1) * (Start - 1) >= t
  <2> DEFINE n == MaxCalls * new
  <2>1. n \in Int /\ n >= m - away
    BY <1>1, <1>10
  <2> HIDE DEF n, m, away, c, t
  <2>2. n + (c + (Start - 1)) >= t
    BY <1>3, <1>4, <1>5, <2>1
  <2> QED
    BY <1>9, <2>2 DEF n
<1>11. MaxCalls * (local + gap) >= m - away
  <2>1. MaxCalls * (local + gap) \in Int
    BY <1>1
  <2> DEFINE n == MaxCalls * (local + gap)
  <2>2. n \in Int /\ n >= m
    BY <1>7, <2>1
  <2> HIDE DEF n, m, away
  <2> QED
    BY <1>3, <2>2 DEF n
<1>12. local + gap \in Int /\ local + gap - offset \in Int
  BY <1>1
<1>13. /\ MaxCalls * (local + gap) + (calls + 1) * (Start - 1) >= t
       /\ MaxCalls * (local + gap - offset) + (calls + 1) * (Start - 1) >= t
  <2> HIDE DEF m, away, c, t
  <2>1. MaxCalls * (local + gap) + (calls + 1) * (Start - 1) >= t
    BY <1>10, <1>11, <1>12
  <2>2. MaxCalls * (local + gap - offset) + (calls + 1) * (Start - 1) >= t
    BY <1>8, <1>10, <1>12
  <2> QED
    BY <2>1, <2>2
<1>14. \A new \in {local + gap, local + gap - offset} :
          MaxCalls * new + (calls + 1) * (Start - 1) >= MaxCalls * Start
  BY <1>13
<1>15. local \in Nat \ {0}
  BY <1>1, <1>6
<1> QED
  BY <1>12, <1>14, <1>15

(* Initially there are no points and no samples. *)
LEMMA InitKeeps ==
    ASSUME Init
    PROVE  LinregInv
<1>1. PICK initial_adj \in InitialAdjs : LinregInit(initial_adj)
  BY DEF Init
<1>2. /\ initial_adj \in -MaxFrequency .. MaxFrequency /\ initial_adj \in Int
      /\ MaxFrequency \in Nat
  BY ApiAssumption, ConstantTypes
<1>3. /\ lr = NewLinreg(initial_adj) /\ lr \in LinregRecord
      /\ adj = initial_adj /\ defined = TRUE /\ ServoInit(initial_adj)
  BY <1>1, <1>2, NewLinregType DEF LinregInit, ServoInit
<1>4. samples = <<>> /\ local = Start /\ calls = 0 /\ Len(samples) = 0
  BY DEF Init
<1>5. /\ lr.num_points = 0 /\ lr.last_update = 0 /\ lr.size = 0
      /\ lr.clock_freq = -initial_adj
      /\ \A z \in Sizes : lr.results[z].slope = 0 /\ lr.results[z].err_updates = 0
  BY <1>3 DEF NewLinreg, NoResult
<1>6. ServoTypeOK
  BY <1>2, <1>3, ServoAssumption DEF ServoInit, ServoTypeOK, ServoStates
<1>7. StructInv
  <2>1. samples \in Seq(SampleRecord)
    BY <1>4, EmptySeq
  <2>2. adj = -lr.clock_freq
    BY <1>2, <1>3, <1>5
  <2> QED
    BY <1>3, <1>6, <2>1, <2>2 DEF StructInv
<1>8. TimeInv
  <2>1. MaxCalls \in Nat /\ Start \in Nat
    BY ApiAssumption
  <2>2. MaxCalls * Start \in Int /\ 0 * (Start - 1) = 0
    BY <2>1
  <2>3. MaxCalls * local + calls * (Start - 1) = MaxCalls * Start
    BY <1>4, <2>1, <2>2
  <2> QED
    BY <1>4, <1>5, <2>1, <2>2, <2>3 DEF TimeInv
<1>9. RingInv /\ SizeInv
  BY <1>4, <1>5 DEF RingInv, SizeInv
<1> QED
  BY <1>3, <1>7, <1>8, <1>9 DEF LinregInv

(***************************************************************************)
(* Whatever a call of servo_sample() ends with, points, history and clock  *)
(* agree again: the step that is taken moves all of them.                  *)
(***************************************************************************)
LEMMA EndedKeeps ==
    ASSUME LinregInv, calls < MaxCalls, calls' = calls + 1,
           NEW offset \in Offsets, NEW gap \in Gaps, NEW weight \in Weights,
           NEW step \in {0, offset},
           Ended(AddedTo(lr, local + gap, offset, weight), lr', step),
           local' = (local + gap) - step,
           samples' = Pushed(samples, Taken(offset, gap, weight), MaxPoints)
    PROVE  TimeInv' /\ RingInv' /\ SizeInv' /\ samples' \in Seq(SampleRecord)
<1> DEFINE ts  == local + gap
           s   == AddedTo(lr, ts, offset, weight)
           smp == Pushed(samples, Taken(offset, gap, weight), MaxPoints)
<1>1. /\ offset \in Int /\ gap \in Nat /\ weight \in Nat /\ step \in Int
      /\ calls \in 0 .. MaxCalls /\ MaxCalls \in Nat /\ Start \in Nat
      /\ lr \in LinregRecord
  BY ApiAssumption DEF LinregInv, TimeInv, StructInv
<1>2. /\ local \in Nat \ {0} /\ ts \in Int /\ ts - offset \in Int
      /\ MaxCalls * ts + (calls + 1) * (Start - 1) >= MaxCalls * Start
      /\ MaxCalls * (ts - offset) + (calls + 1) * (Start - 1)
            >= MaxCalls * Start
  <2>1. TimeInv
    BY DEF LinregInv
  <2>2. /\ local \in Nat \ {0} /\ local + gap \in Int
        /\ \A new \in {local + gap, local + gap - offset} :
              MaxCalls * new + (calls + 1) * (Start - 1) >= MaxCalls * Start
    BY <2>1, ClockGoesOn
  <2>3. local + gap - offset = ts - offset /\ ts = local + gap
    BY <1>1, <2>2
  <2> HIDE DEF ts
  <2>4. ts \in {local + gap, local + gap - offset}
        /\ ts - offset \in {local + gap, local + gap - offset}
    BY <2>3
  <2>5. ts \in Int /\ ts - offset \in Int
    BY <1>1, <2>2, <2>3
  <2> QED
    BY <2>2, <2>4, <2>5
<1>3. /\ s \in LinregRecord /\ smp \in Seq(SampleRecord) /\ smp # <<>>
      /\ Matches(s, smp, s.reference.y - ts, Ahead(s, smp))
      /\ s.last_update = ts /\ s.size = lr.size
      /\ SameLines(lr, s) /\ s.num_points >= lr.num_points
  BY <1>1, <1>2, AddedMatches
<1>4. Ended(s, lr', step) /\ samples' = smp /\ local' = ts - step
  OBVIOUS
<1> HIDE DEF s, smp, ts
<1>5. TimeInv'
  <2>1. local' \in {ts, ts - offset} /\ local' \in Int
    BY <1>1, <1>2, <1>4
  <2>2. MaxCalls * local' + calls' * (Start - 1) >= MaxCalls * Start
    BY <1>2, <2>1
  <2>3. lr'.last_update = local' /\ samples' # <<>>
    BY <1>3, <1>4 DEF Ended
  <2>4. calls' \in 0 .. MaxCalls
    BY <1>1
  <2> QED
    BY <2>1, <2>2, <2>3, <2>4 DEF TimeInv
<1>6. /\ lr'.points = s.points /\ lr'.last_point = s.last_point
      /\ lr'.num_points = s.num_points
      /\ lr'.reference.x = s.reference.x /\ lr'.x_remainder = s.x_remainder
      /\ lr'.reference.y - local' = s.reference.y - ts
  <2>1. /\ SameRing(s, lr')
        /\ lr'.reference.x = s.reference.x /\ lr'.x_remainder = s.x_remainder
        /\ lr'.reference.y = s.reference.y - step
    BY <1>4 DEF Ended
  <2>2. s.reference.y \in Int
    BY <1>3 DEF LinregRecord
  <2> QED
    BY <1>1, <1>2, <1>4, <2>1, <2>2 DEF SameRing
<1>7. RingInv'
  <2>1. lr'.num_points = Len(samples')
    BY <1>3, <1>4, <1>6 DEF Matches
  <2>2. \A a \in 0 .. Len(samples') - 1 :
          /\ Aged(lr', a).w = Former(samples', a).weight
          /\ Aged(lr', a).y - Former(samples', a).remote = lr'.reference.y - local'
          /\ Ahead(lr', samples') - One * Aged(lr', a).x
                + Former(samples', a).elapsed \in 0 .. One - 1
    <3>1. \A a : Aged(lr', a) = Aged(s, a)
      BY <1>6 DEF Aged
    <3>2. Ahead(lr', samples') = Ahead(s, smp)
      BY <1>4, <1>6 DEF Ahead
    <3> QED
      BY <1>3, <1>4, <1>6, <3>1, <3>2 DEF Matches
  <2> QED
    BY <2>1, <2>2 DEF RingInv, Matches, Remote, Ahead, Aged, Former
<1>8. SizeInv'
  <2>1. ASSUME NEW z \in Sizes,
               lr'.results[z].slope # 0 \/ lr'.results[z].err_updates # 0
        PROVE  Enough(lr', z)
    <3>1. CASE Enough(s, z)
      BY <1>6, <3>1 DEF Enough
    <3>2. CASE ~Enough(s, z)
      <4>1. /\ lr'.results[z].slope = s.results[z].slope
            /\ lr'.results[z].err_updates = s.results[z].err_updates
        BY <1>4, <3>2 DEF Ended
      <4>2. lr.results[z].slope # 0 \/ lr.results[z].err_updates # 0
        BY <1>3, <2>1, <4>1 DEF SameLines
      <4>3. Enough(lr, z)
        BY <4>2 DEF LinregInv, SizeInv
      <4>4. /\ Points[z] \in Nat /\ lr.num_points \in Nat
            /\ s.num_points \in Nat
        <5>1. Points[z] \in 1 .. MaxPoints /\ MaxPoints \in Nat
          BY ConstantTypes
        <5>2. /\ lr.num_points \in 0 .. MaxPoints
              /\ s.num_points \in 0 .. MaxPoints
          BY <1>1, <1>3 DEF LinregRecord
        <5> QED
          BY <5>1, <5>2
      <4> QED
        BY <1>3, <3>2, <4>3, <4>4 DEF Enough
    <3> QED
      BY <3>1, <3>2
  <2>2. lr'.size # 0 => Earned(lr', lr'.size)
    BY <1>4 DEF Ended
  <2> QED
    BY <2>1, <2>2 DEF SizeInv, Enough, Earned
<1> QED
  BY <1>3, <1>4, <1>5, <1>7, <1>8

(***************************************************************************)
(* servo_sample() keeps the invariant, also if it divides by zero.         *)
(***************************************************************************)
LEMMA SampleKeeps ==
    ASSUME LinregInv, Sample
    PROVE  LinregInv'
<1>1. PICK offset \in Offsets, gap \in Gaps, weight \in Weights :
         /\ calls < MaxCalls /\ calls' = calls + 1
         /\ \/ /\ LinregSample(offset, local + gap, weight)
               /\ local' = IF state' = "JUMP" THEN (local + gap) - offset
                           ELSE local + gap
            \/ /\ DivideByZero(offset, local + gap, weight)
               /\ local' = local + gap
         /\ samples' = Pushed(samples, Taken(offset, gap, weight), MaxPoints)
  BY DEF Sample
<1> DEFINE s == AddedTo(lr, local + gap, offset, weight)
<1>2. /\ offset \in Int /\ gap \in Nat /\ weight \in Nat /\ lr \in LinregRecord
      /\ StructInv /\ TimeInv /\ local \in Int /\ local + gap \in Int
  BY ApiAssumption DEF LinregInv, StructInv, TimeInv
<1>3. local \in Nat \ {0}
  BY <1>1, <1>2, ClockGoesOn
<1>4. s \in LinregRecord /\ s.size = lr.size /\ SameLines(lr, s)
  BY <1>2, <1>3, AddedMatches
<1>5. CASE /\ LinregSample(offset, local + gap, weight)
           /\ local' = IF state' = "JUMP" THEN (local + gap) - offset
                       ELSE local + gap
  <2> DEFINE step == IF state' = "JUMP" THEN offset ELSE 0
  <2>1. /\ Ended(s, lr', step)
        /\ \E verdict \in {"UNLOCKED", "JUMP", "LOCKED"} :
              Conclude(verdict, offset)
    BY <1>2, <1>4, <1>5, SampleEnds
  <2>2. local' = (local + gap) - step /\ step \in {0, offset}
    BY <1>2, <1>5
  <2> HIDE DEF step
  <2>3. /\ TimeInv' /\ RingInv' /\ SizeInv' /\ samples' \in Seq(SampleRecord)
    BY <1>1, <2>1, <2>2, EndedKeeps
  <2>4. /\ defined /\ defined' = defined /\ adj' = -lr'.clock_freq
    BY <1>5 DEF LinregSample
  <2>5. lr' \in LinregRecord /\ adj' \in Int
    <3>1. lr' \in LinregRecord
      BY <2>1 DEF Ended
    <3>2. lr'.clock_freq \in -MaxFrequency .. MaxFrequency /\ MaxFrequency \in Nat
      BY <3>1, ConstantTypes DEF LinregRecord
    <3> QED
      BY <2>4, <3>1, <3>2
  <2>6. ServoTypeOK'
    BY <1>2, <2>1, <2>5, ConcludeType DEF StructInv
  <2>7. StructInv'
    BY <1>2, <2>3, <2>4, <2>5, <2>6 DEF StructInv
  <2> QED
    BY <2>3, <2>4, <2>7 DEF LinregInv
<1>6. CASE DivideByZero(offset, local + gap, weight) /\ local' = local + gap
  <2>1. /\ Undefined(s) /\ lr' = s /\ defined' = FALSE /\ UNCHANGED servoVars
    BY <1>6 DEF DivideByZero, AddedTo
  <2>2. Ended(s, lr', 0)
    <3>1. s.size # 0 => Earned(s, s.size)
      <4>1. lr.size # 0 => Earned(lr, lr.size) /\ lr.size \in Sizes
        BY <1>2 DEF LinregInv, SizeInv, LinregRecord
      <4> QED
        BY <1>4, <4>1, EarnedByLines
    <3>2. s.reference.y \in Int /\ s.last_update \in Int
      BY <1>4 DEF LinregRecord
    <3>3. s.reference.y - 0 = s.reference.y /\ s.last_update - 0 = s.last_update
      BY <3>2
    <3> HIDE DEF s
    <3> QED
      BY <1>4, <2>1, <3>1, <3>3 DEF Ended, SameRing
  <2>3. local' = (local + gap) - 0 /\ 0 \in {0, offset}
    BY <1>2, <1>6
  <2>4. /\ TimeInv' /\ RingInv' /\ SizeInv' /\ samples' \in Seq(SampleRecord)
    BY <1>1, <2>2, <2>3, EndedKeeps
  <2>5. adj' = -lr'.clock_freq /\ ServoTypeOK'
    <3>1. s.clock_freq = lr.clock_freq
      BY <1>2, <1>3, AddedMatches
    <3> HIDE DEF s
    <3> QED
      BY <1>2, <2>1, <3>1 DEF servoVars, ServoTypeOK, StructInv
  <2>6. StructInv'
    BY <1>4, <2>1, <2>4, <2>5 DEF StructInv
  <2>7. Undefined(lr)'
    BY <2>1 DEF Undefined, Enough
  <2> QED
    BY <2>1, <2>4, <2>6, <2>7 DEF LinregInv
<1> QED
  BY <1>1, <1>5, <1>6

(***************************************************************************)
(* linreg_reset() forgets the points, though it leaves them in the ring.   *)
(***************************************************************************)
LEMMA ResetKeeps ==
    ASSUME LinregInv, Reset
    PROVE  LinregInv'
<1> DEFINE none(z) == [lr.results[z] EXCEPT !.slope = 0, !.err_updates = 0]
           res == [z \in Sizes |-> none(z)]
<1>1. /\ calls < MaxCalls /\ calls' = calls + 1 /\ defined
      /\ samples' = <<>> /\ local' = local
      /\ defined' = defined /\ UNCHANGED servoVars
      /\ lr' = [lr EXCEPT !.num_points = 0, !.last_update = 0, !.size = 0,
                          !.frequency_ratio = One, !.results = res]
  BY DEF Reset, LinregReset
<1>2. StructInv /\ TimeInv /\ lr \in LinregRecord
  BY DEF LinregInv, StructInv
<1>3. \A z \in Sizes : /\ none(z) \in Result
                       /\ none(z).slope = 0 /\ none(z).err_updates = 0
  <2> TAKE z \in Sizes
  <2>1. lr.results[z] \in Result
    BY <1>2 DEF LinregRecord
  <2>2. InitialUpdates \in Nat
    BY LinregAssumption
  <2> DEFINE old == lr.results[z]
  <2>3. none(z) = [old EXCEPT !.slope = 0, !.err_updates = 0]
    OBVIOUS
  <2>4. old \in Result
    BY <2>1
  <2> HIDE DEF old, none
  <2>5. none(z) = [slope |-> 0, intercept |-> old.intercept,
                   err |-> old.err, err_updates |-> 0]
    BY <2>3, <2>4 DEF Result
  <2>6. old.intercept \in Int /\ old.err \in Nat
    BY <2>4 DEF Result
  <2> QED
    BY <2>2, <2>5, <2>6 DEF Result
<1> HIDE DEF none
<1>4. res \in [Sizes -> Result]
  BY <1>3
<1>5. \A z \in Sizes : res[z].slope = 0 /\ res[z].err_updates = 0
  BY <1>3
<1> HIDE DEF res
<1>6. /\ lr' \in LinregRecord /\ lr'.num_points = 0 /\ lr'.last_update = 0
      /\ lr'.size = 0 /\ lr'.results = res /\ lr'.clock_freq = lr.clock_freq
  <2>1. One \in Int /\ MaxPoints \in Nat
    BY ConstantTypes
  <2>2. PICK r : r = lr'
    OBVIOUS
  <2>3. r = [lr EXCEPT !.num_points = 0, !.last_update = 0, !.size = 0,
                       !.frequency_ratio = One, !.results = res]
    BY <1>1, <2>2
  <2>4. r = [points |-> lr.points, reference |-> lr.reference,
             num_points |-> 0, last_point |-> lr.last_point,
             x_remainder |-> lr.x_remainder, last_update |-> 0,
             results |-> res, size |-> 0,
             clock_freq |-> lr.clock_freq, frequency_ratio |-> One]
    BY <1>2, <2>3 DEF LinregRecord
  <2>5. /\ lr.points \in [0 .. MaxPoints - 1 -> Point]
        /\ lr.reference \in [x : Int, y : Int]
        /\ lr.last_point \in 0 .. MaxPoints - 1
        /\ lr.x_remainder \in 0 .. One - 1
        /\ lr.clock_freq \in -MaxFrequency .. MaxFrequency
    BY <1>2 DEF LinregRecord
  <2>6. /\ r \in LinregRecord /\ r.num_points = 0 /\ r.last_update = 0
        /\ r.size = 0 /\ r.results = res /\ r.clock_freq = lr.clock_freq
    BY <1>4, <2>1, <2>4, <2>5 DEF LinregRecord
  <2> QED
    BY <2>2, <2>6
<1>7. StructInv'
  <2>1. samples' \in Seq(SampleRecord)
    BY <1>1, EmptySeq
  <2>2. ServoTypeOK' /\ adj' = -lr'.clock_freq
    BY <1>1, <1>2, <1>6 DEF StructInv, ServoTypeOK, servoVars
  <2> QED
    BY <1>1, <1>2, <1>6, <2>1, <2>2 DEF StructInv
<1>8. TimeInv'
  <2>1. /\ local \in Int /\ calls \in 0 .. MaxCalls /\ MaxCalls \in Nat
        /\ Start - 1 \in Nat
        /\ MaxCalls * local + calls * (Start - 1) >= MaxCalls * Start
    BY <1>2, ApiAssumption DEF TimeInv
  <2>2. (calls + 1) * (Start - 1) = calls * (Start - 1) + (Start - 1)
    BY <2>1
  <2> DEFINE m == MaxCalls * local
             c == calls * (Start - 1)
             t == MaxCalls * Start
  <2>3. m \in Int /\ c \in Int /\ t \in Int /\ m + c >= t
    <3>1. Start \in Nat
      BY ApiAssumption
    <3> QED
      BY <2>1, <3>1
  <2>4. MaxCalls * local + (calls + 1) * (Start - 1) >= MaxCalls * Start
    <3>1. MaxCalls * local + (calls + 1) * (Start - 1) = m + (c + (Start - 1))
      BY <2>2
    <3> HIDE DEF m, c, t
    <3>2. m + (c + (Start - 1)) >= t
      BY <2>1, <2>3
    <3> QED
      BY <3>1, <3>2 DEF t
  <2>5. calls' \in 0 .. MaxCalls
    BY <1>1, <2>1
  <2> QED
    BY <1>1, <1>6, <2>1, <2>4, <2>5 DEF TimeInv
<1>9. RingInv' /\ SizeInv'
  BY <1>1, <1>5, <1>6 DEF RingInv, SizeInv
<1> QED
  BY <1>1, <1>7, <1>8, <1>9 DEF LinregInv

(* Steps that change nothing. *)
LEMMA StutterKeeps ==
    ASSUME LinregInv, UNCHANGED vars
    PROVE  LinregInv'
<1>1. /\ lr' = lr /\ defined' = defined /\ local' = local /\ calls' = calls
      /\ samples' = samples /\ UNCHANGED servoVars
  BY DEF vars, lrVars
<1>2. StructInv'
  BY <1>1 DEF LinregInv, StructInv, ServoTypeOK, servoVars
<1>3. TimeInv'
  BY <1>1 DEF LinregInv, TimeInv
<1>4. RingInv'
  BY <1>1 DEF LinregInv, RingInv, Matches, Remote, Ahead, Aged, Former
<1>5. SizeInv'
  BY <1>1 DEF LinregInv, SizeInv, Enough, Earned
<1>6. ~defined' => Undefined(lr)'
  BY <1>1 DEF LinregInv, Undefined, Enough
<1> QED
  BY <1>2, <1>3, <1>4, <1>5, <1>6 DEF LinregInv

(* The invariant holds in every behaviour. *)
LEMMA Invariance == Spec => []LinregInv
<1>1. Init => LinregInv
  BY InitKeeps
<1>2. LinregInv /\ [Next]_vars => LinregInv'
  BY SampleKeeps, ResetKeeps, StutterKeeps DEF Next
<1> QED
  BY <1>1, <1>2, PTL DEF Spec

-----------------------------------------------------------------------------
(***************************************************************************)
(* The state keeps its domain, whatever samples come: the point a sample   *)
(* is stored at is one of the ring, and the frequency one the clock has.   *)
(***************************************************************************)
THEOREM LinregTypes == Spec => []TypeOK
<1>1. LinregInv => TypeOK
  <2>1. SUFFICES ASSUME LinregInv PROVE TypeOK
    OBVIOUS
  <2>2. ServoTypeOK /\ defined \in BOOLEAN /\ lr \in LinregRecord
    BY <2>1 DEF LinregInv, StructInv
  <2>3. lr.x_remainder \in 1 - One .. One - 1
    <3>1. One \in Nat \ {0} /\ lr.x_remainder \in 0 .. One - 1
      BY <2>2, ConstantTypes DEF LinregRecord
    <3> QED
      BY <3>1
  <2> QED
    BY <2>2, <2>3 DEF TypeOK, LinregRecord, Point, Result
<1> QED
  BY <1>1, Invariance, PTL

(* The points and the samples that PointAt and SampleAt are of age a. *)
LEMMA Ages ==
    ASSUME NEW a
    PROVE  PointAt(a) = Aged(lr, a) /\ SampleAt(a) = Former(samples, a)
  BY DEF PointAt, SampleAt, Aged, Former

(* Points and samples of the same age, numbers all of them. *)
LEMMA MatchedAges ==
    ASSUME LinregInv, NEW a \in Used
    PROVE  /\ Used = 0 .. Len(samples) - 1 /\ samples # <<>>
           /\ Aged(lr, a) \in Point /\ Former(samples, a) \in SampleRecord
           /\ Aged(lr, a).w = Former(samples, a).weight
           /\ Aged(lr, a).y - Former(samples, a).remote = Remote(lr)
           /\ Ahead(lr, samples) - One * Aged(lr, a).x
                 + Former(samples, a).elapsed \in 0 .. One - 1
           /\ Remote(lr) \in Int /\ Ahead(lr, samples) \in Int
<1>1. PICK len \in Nat : Len(samples) = len
  BY LenProperties DEF LinregInv, StructInv
<1>2. /\ lr \in LinregRecord /\ samples \in Seq(SampleRecord)
      /\ lr.num_points = len /\ local \in Int
  BY <1>1 DEF LinregInv, StructInv, TimeInv, RingInv
<1>3. Used = 0 .. Len(samples) - 1 /\ a \in 0 .. len - 1
  BY <1>1, <1>2 DEF Used
<1>4. samples # <<>>
  BY <1>1, <1>3, EmptySeq
<1>5. /\ lr.last_point \in 0 .. MaxPoints - 1 /\ len \in 0 .. MaxPoints
      /\ lr.points \in [0 .. MaxPoints - 1 -> Point]
      /\ lr.reference.x \in Int /\ lr.reference.y \in Int
      /\ lr.x_remainder \in 0 .. One - 1
      /\ MaxPoints \in Nat \ {0} /\ One \in Nat \ {0}
  BY <1>2, ConstantTypes DEF LinregRecord
<1>6. Aged(lr, a) \in Point
  <2> DEFINE k == MaxPoints + lr.last_point - a
  <2>1. k \in 0 .. 2 * MaxPoints - 1
    BY <1>3, <1>5, SMTT(30)
  <2>2. k % MaxPoints \in 0 .. MaxPoints - 1
    <3> HIDE DEF k
    <3>1. k % MaxPoints = IF k < MaxPoints THEN k ELSE k - MaxPoints
      BY <2>1, OneTurn
    <3> QED
      BY <1>5, <2>1, <3>1
  <2> HIDE DEF k
  <2> QED
    BY <1>5, <2>2 DEF Aged, k
<1>7. Former(samples, a) \in SampleRecord /\ Former(samples, 0) \in SampleRecord
  <2>1. len - a \in 1 .. len /\ len - 0 \in 1 .. len
    BY <1>3
  <2> QED
    BY <1>1, <1>2, <2>1, ElementOfSeq DEF Former
<1>8. Remote(lr) \in Int /\ Ahead(lr, samples) \in Int
  <2>1. Former(samples, 0).elapsed \in Int
    BY <1>7 DEF SampleRecord
  <2> DEFINE i == One * lr.reference.x  e == Former(samples, 0).elapsed
  <2>2. i \in Int /\ e \in Int /\ lr.x_remainder \in Int
    BY <1>5, <2>1
  <2>3. Ahead(lr, samples) = (i + lr.x_remainder) - e
    BY DEF Ahead
  <2> HIDE DEF i, e
  <2>4. Ahead(lr, samples) \in Int
    BY <2>2, <2>3
  <2>5. Remote(lr) \in Int
    BY <1>2, <1>5 DEF Remote
  <2> QED
    BY <2>4, <2>5
<1>9. Matches(lr, samples, Remote(lr), Ahead(lr, samples))
  BY <1>4 DEF LinregInv, RingInv
<1> QED
  BY <1>1, <1>3, <1>4, <1>6, <1>7, <1>8, <1>9 DEF Matches

(* Two samples of points at one x are less than a unit apart. *)
LEMMA CloseAges ==
    ASSUME LinregInv, NEW a \in Used, NEW b \in Used
    PROVE  /\ Aged(lr, a).y - Aged(lr, b).y
                 = Former(samples, a).remote - Former(samples, b).remote
           /\ AbsVal(One * (Aged(lr, a).x - Aged(lr, b).x)
                     - (Former(samples, a).elapsed - Former(samples, b).elapsed))
                 < One
<1> DEFINE p == Aged(lr, a)  q == Aged(lr, b)
           f == Former(samples, a)  g == Former(samples, b)
<1>1. /\ p.x \in Int /\ p.y \in Int /\ f.remote \in Int /\ f.elapsed \in Int
      /\ q.x \in Int /\ q.y \in Int /\ g.remote \in Int /\ g.elapsed \in Int
      /\ One \in Nat \ {0}
      /\ Remote(lr) \in Int /\ Ahead(lr, samples) \in Int
  <2>1. /\ p \in Point /\ q \in Point /\ f \in SampleRecord /\ g \in SampleRecord
        /\ Remote(lr) \in Int /\ Ahead(lr, samples) \in Int
    BY MatchedAges
  <2> HIDE DEF p, q, f, g
  <2> QED
    BY <2>1, ConstantTypes DEF Point, SampleRecord
<1>2. /\ p.y - f.remote = Remote(lr) /\ q.y - g.remote = Remote(lr)
      /\ Ahead(lr, samples) - One * p.x + f.elapsed \in 0 .. One - 1
      /\ Ahead(lr, samples) - One * q.x + g.elapsed \in 0 .. One - 1
  BY MatchedAges
<1> HIDE DEF p, q, f, g
<1>3. p.y - q.y = f.remote - g.remote
  <2> DEFINE c == Remote(lr)
  <2>1. c \in Int /\ p.y - f.remote = c /\ q.y - g.remote = c
    BY <1>1, <1>2
  <2> HIDE DEF c
  <2>2. p.y = c + f.remote /\ q.y = c + g.remote
    BY <1>1, <2>1
  <2> QED
    BY <1>1, <2>1, <2>2
<1>4. AbsVal(One * (p.x - q.x) - (f.elapsed - g.elapsed)) < One
  <2> DEFINE i == One * p.x  j == One * q.x  c == Ahead(lr, samples)
  <2>1. One * (p.x - q.x) = i - j /\ i \in Int /\ j \in Int /\ c \in Int
    BY <1>1
  <2>2. (c - i) + f.elapsed \in 0 .. One - 1 /\ (c - j) + g.elapsed \in 0 .. One - 1
    BY <1>1, <1>2, <2>1
  <2> HIDE DEF i, j, c
  <2>3. AbsVal((i - j) - (f.elapsed - g.elapsed)) < One
    BY <1>1, <2>1, <2>2 DEF AbsVal
  <2> QED
    BY <2>1, <2>3
<1> QED
  BY <1>3, <1>4 DEF p, q, f, g

(***************************************************************************)
(* However often the clock is stepped and however its frequency is set,    *)
(* any two points are as far apart in y as their samples in the time of    *)
(* the master.                                                             *)
(***************************************************************************)
THEOREM PointsKeepRemoteTime == Spec => []PointsInRemoteTime
<1>1. LinregInv => PointsInRemoteTime
  <2>1. SUFFICES ASSUME LinregInv PROVE PointsInRemoteTime
    OBVIOUS
  <2>2. lr.num_points = Len(samples)
    BY <2>1 DEF LinregInv, RingInv
  <2>3. \A a, b \in Used :
          PointAt(a).y - PointAt(b).y = SampleAt(a).remote - SampleAt(b).remote
    BY <2>1, CloseAges, Ages
  <2> QED
    BY <2>2, <2>3 DEF PointsInRemoteTime
<1> QED
  BY <1>1, Invariance, PTL

(***************************************************************************)
(* Any two points are as far apart in x as their samples on the clock as   *)
(* it would run undisciplined, to less than a unit: x_remainder keeps what *)
(* update_reference() cuts off from adding up, over any number of samples. *)
(***************************************************************************)
THEOREM PointsKeepUndisciplinedTime == Spec => []PointsInUndisciplinedTime
<1>1. LinregInv => PointsInUndisciplinedTime
  <2>1. SUFFICES ASSUME LinregInv, NEW a \in Used, NEW b \in Used
                 PROVE  AbsVal(One * (PointAt(a).x - PointAt(b).x)
                               - (SampleAt(a).elapsed - SampleAt(b).elapsed))
                           < One
    BY DEF PointsInUndisciplinedTime
  <2> QED
    BY <2>1, CloseAges, Ages
<1> QED
  BY <1>1, Invariance, PTL

(***************************************************************************)
(* A size is in use only if its points are all of after the last reset,    *)
(* and if no stale err decided for it.                                     *)
(***************************************************************************)
THEOREM SizesAreEarned == Spec => []SizeIsEarned
<1>1. LinregInv => SizeIsEarned
  <2>1. SUFFICES ASSUME LinregInv, lr.size # 0
                 PROVE  /\ Enough(lr, lr.size)
                        /\ \/ lr.results[lr.size].err_updates = InitialUpdates
                           \/ \A s \in Sizes :
                                 s < lr.size => lr.results[s].slope = 0
    BY DEF SizeIsEarned
  <2>2. Earned(lr, lr.size) /\ lr.size \in Sizes
    BY <2>1 DEF LinregInv, StructInv, SizeInv, LinregRecord
  <2>3. InitialUpdates # 0
    BY LinregAssumption
  <2>4. Enough(lr, lr.size)
    BY <2>1, <2>2, <2>3 DEF LinregInv, SizeInv, Earned
  <2> QED
    BY <2>2, <2>4 DEF Earned
<1> QED
  BY <1>1, Invariance, PTL

(***************************************************************************)
(* The regression divides by zero only if, over as many samples as the     *)
(* smallest one uses, those that have any weight are of one time on the    *)
(* undisciplined clock.  Rounding is no other way there: the spread of     *)
(* points that differ in x is positive.                                    *)
(***************************************************************************)
THEOREM ZeroDivisionNeedsSameTimes == Spec => []ZeroDivisionNeedsReplays
<1>1. LinregInv => ZeroDivisionNeedsReplays
  <2>1. SUFFICES ASSUME LinregInv, ~defined
                 PROVE  /\ Len(samples) >= Points[MinSize]
                        /\ \A a, b \in 0 .. Points[MinSize] - 1 :
                              \/ SampleAt(a).weight = 0 \/ SampleAt(b).weight = 0
                              \/ AbsVal(SampleAt(a).elapsed
                                        - SampleAt(b).elapsed) < One
    BY DEF ZeroDivisionNeedsReplays
  <2>2. PICK size \in Sizes : Enough(lr, size) /\ Spread(Newest(lr, size)) = 0
    BY <2>1 DEF LinregInv, Undefined
  <2>3. lr \in LinregRecord /\ lr.num_points = Len(samples)
    BY <2>1 DEF LinregInv, StructInv, RingInv
  <2>4. /\ Points[MinSize] \in Nat \ {0} /\ Points[size] \in Nat \ {0}
        /\ Points[MinSize] <= Points[size] /\ size \in 0 .. MaxSize
    <3>1. /\ MinSize \in 0 .. MaxSize /\ size \in 0 .. MaxSize /\ MinSize <= size
      BY ConstantTypes DEF Sizes
    <3> QED
      BY <3>1, PointsGrow, PointsDouble
  <2>5. lr.num_points \in Nat /\ Points[size] <= lr.num_points
    BY <2>2, <2>3, ConstantTypes DEF LinregRecord, Enough
  <2>6. \A a \in 0 .. Points[MinSize] - 1 : a \in Used /\ a + 1 \in 1 .. Points[size]
    BY <2>4, <2>5 DEF Used
  <2> DEFINE new == Newest(lr, size)
  <2>7. /\ \A i, j \in 1 .. Points[size] :
              new[i].w = 0 \/ new[j].w = 0 \/ new[i].x = new[j].x
        /\ \A i \in 1 .. Points[size] :
              /\ new[i].x = Aged(lr, i - 1).x - lr.reference.x
              /\ new[i].w = Aged(lr, i - 1).w
    <3>1. /\ Weighted(new) /\ Len(new) = Points[size] /\ Spread(new) = 0
          /\ \A i \in 1 .. Points[size] :
                new[i] = [x |-> Aged(lr, i - 1).x - lr.reference.x,
                          y |-> Aged(lr, i - 1).y - lr.reference.y,
                          w |-> Aged(lr, i - 1).w]
      BY <2>2, <2>3, <2>4, NewestFacts
    <3> HIDE DEF new
    <3>2. \A i, j \in 1 .. Points[size] :
             new[i].w = 0 \/ new[j].w = 0 \/ new[i].x = new[j].x
      BY <3>1, SpreadSign
    <3>3. ASSUME NEW i \in 1 .. Points[size]
          PROVE  /\ new[i].x = Aged(lr, i - 1).x - lr.reference.x
                 /\ new[i].w = Aged(lr, i - 1).w
      <4> DEFINE x == Aged(lr, i - 1).x - lr.reference.x
                 y == Aged(lr, i - 1).y - lr.reference.y
                 w == Aged(lr, i - 1).w
      <4>1. new[i] = [x |-> x, y |-> y, w |-> w]
        BY <3>1, Zenon
      <4> HIDE DEF x, y, w
      <4>2. new[i].x = x /\ new[i].w = w
        BY <4>1
      <4> QED
        BY <4>2 DEF x, w
    <3> QED
      BY <3>2, <3>3, Zenon
  <2>8. ASSUME NEW a \in 0 .. Points[MinSize] - 1,
               NEW b \in 0 .. Points[MinSize] - 1
        PROVE  \/ SampleAt(a).weight = 0 \/ SampleAt(b).weight = 0
               \/ AbsVal(SampleAt(a).elapsed - SampleAt(b).elapsed) < One
    <3>1. /\ a \in Used /\ b \in Used
          /\ a + 1 \in 1 .. Points[size] /\ b + 1 \in 1 .. Points[size]
          /\ (a + 1) - 1 = a /\ (b + 1) - 1 = b
      BY <2>4, <2>6
    <3> HIDE DEF new
    <3>2. /\ new[a + 1].w = Aged(lr, a).w /\ new[b + 1].w = Aged(lr, b).w
          /\ new[a + 1].x = Aged(lr, a).x - lr.reference.x
          /\ new[b + 1].x = Aged(lr, b).x - lr.reference.x
      BY <2>7, <3>1
    <3>3. new[a + 1].w = 0 \/ new[b + 1].w = 0 \/ new[a + 1].x = new[b + 1].x
      BY <2>7, <3>1
    <3>4. /\ Aged(lr, a) \in Point /\ Aged(lr, b) \in Point
          /\ Former(samples, a) \in SampleRecord
          /\ Former(samples, b) \in SampleRecord
          /\ Aged(lr, a).w = Former(samples, a).weight
          /\ Aged(lr, b).w = Former(samples, b).weight
      BY <2>1, <3>1, MatchedAges
    <3>5. \/ Former(samples, a).weight = 0 \/ Former(samples, b).weight = 0
          \/ Aged(lr, a).x = Aged(lr, b).x
      <4>1. lr.reference.x \in Int
        BY <2>3 DEF LinregRecord
      <4>2. Aged(lr, a).x \in Int /\ Aged(lr, b).x \in Int
        BY <3>4 DEF Point
      <4> QED
        BY <3>2, <3>3, <3>4, <4>1, <4>2
    <3>6. CASE Aged(lr, a).x = Aged(lr, b).x
      <4> DEFINE e == Former(samples, a).elapsed - Former(samples, b).elapsed
                 d == Aged(lr, a).x - Aged(lr, b).x
      <4>1. AbsVal(One * d - e) < One
        BY <2>1, <3>1, CloseAges
      <4>2. e \in Int /\ One \in Nat
        BY <3>4, ConstantTypes DEF SampleRecord
      <4>3. d = 0
        <5>1. Aged(lr, a).x \in Int
          BY <3>4 DEF Point
        <5> QED
          BY <3>6, <5>1
      <4> HIDE DEF d, e
      <4>4. AbsVal(e) < One
        BY <4>1, <4>2, <4>3 DEF AbsVal
      <4> QED
        BY <4>4, Ages DEF e
    <3> QED
      BY <3>5, <3>6, Ages
  <2> QED
    BY <2>3, <2>4, <2>5, <2>8
<1> QED
  BY <1>1, Invariance, PTL
=============================================================================
