----------------------------- MODULE Regression -----------------------------
(***************************************************************************)
(* The weighted least-squares line through a sequence of points, as        *)
(* regress() of linreg.c computes it from running sums.  The slope is in   *)
(* units of 1/One, the intercept a whole number.                           *)
(***************************************************************************)
EXTENDS FixedPoint, Sequences

\* What a running sum has come to
Total(terms) ==
    LET sums[n \in 0 .. Len(terms)] ==
            IF n = 0 THEN 0 ELSE sums[n - 1] + terms[n]
    IN  sums[Len(terms)]

WSum(points)  == Total([i \in DOMAIN points |-> points[i].w])
XSum(points)  == Total([i \in DOMAIN points |-> points[i].x * points[i].w])
YSum(points)  == Total([i \in DOMAIN points |-> points[i].y * points[i].w])
XYSum(points) ==
    Total([i \in DOMAIN points |-> points[i].x * points[i].y * points[i].w])
X2Sum(points) ==
    Total([i \in DOMAIN points |-> points[i].x * points[i].x * points[i].w])

\* What the slope is divided by, times w_sum
Spread(points) == X2Sum(points) * WSum(points) - XSum(points) * XSum(points)

\* For points that are not all without weight or at one x
Line(points) ==
    LET slope == TmvDiv(One * (XYSum(points) * WSum(points)
                               - XSum(points) * YSum(points)), Spread(points))
    IN  [slope |-> slope,
         intercept |-> TmvDiv(One * YSum(points) - slope * XSum(points),
                              One * WSum(points))]
=============================================================================
