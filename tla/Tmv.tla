-------------------------------- MODULE Tmv --------------------------------
(***************************************************************************)
(* Time values (tmv.h): signed 64-bit counts of nanoseconds.  A value is   *)
(* an integer here; the division is the one of C, which drops the fraction *)
(* (TLA+'s \div rounds down instead), and WrapTo is the two's complement   *)
(* wrap-around of tmv_add and tmv_sub, which go through uint64_t.          *)
(***************************************************************************)
EXTENDS Integers

AbsVal(x) == IF x < 0 THEN -x ELSE x

\* a / divisor, for a positive divisor
TmvDiv(a, divisor) ==
    IF a >= 0 THEN a \div divisor ELSE -((-a) \div divisor)

\* The signed value of x in a word of `modulus' values (2^64 in the code).
WrapTo(modulus, x) ==
    LET half == modulus \div 2 IN ((x + half) % modulus) - half
=============================================================================
