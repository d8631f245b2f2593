----------------------------- MODULE Msg_proofs -----------------------------
(***************************************************************************)
(* Proofs that what ptp4l measured comes out of the bytes again, for every *)
(* number of values a byte may have and every message.                     *)
(***************************************************************************)
EXTENDS Msg, WellFoundedInduction, SequenceTheorems, TLAPS

(***************************************************************************)
(* Quotient, rounded down, and remainder of an integer.                    *)
(***************************************************************************)
LEMMA DivBounds ==
    ASSUME NEW x \in Int, NEW b \in Nat \ {0}
    PROVE  /\ x \div b \in Int /\ x % b \in 0 .. b - 1
           /\ x = b * (x \div b) + (x % b)
<1> DEFINE q == x \div b
           r == x % b
<1>1. q \in Int
  OBVIOUS
<1>2. r \in 0 .. b - 1
  OBVIOUS
<1>3. r = x - b * q
  OBVIOUS
<1> SUFFICES x = b * q + r
  BY <1>1, <1>2
<1> HIDE DEF q, r
<1>4. b * q \in Int
  BY <1>1
<1> QED
  BY <1>2, <1>3, <1>4

(* There is only one quotient and remainder. *)
LEMMA DivUnique ==
    ASSUME NEW q \in Int, NEW b \in Nat \ {0}, NEW r \in 0 .. b - 1
    PROVE  (b * q + r) \div b = q /\ (b * q + r) % b = r
<1> DEFINE x == b * q + r
           p == x \div b
           s == x % b
<1>1. x \in Int /\ b * q \in Int
  OBVIOUS
<1>2. p \in Int /\ s \in 0 .. b - 1 /\ x = b * p + s
  BY <1>1, DivBounds
<1>3. x = b * q + r
  OBVIOUS
<1> HIDE DEF x, p, s
<1>4. b * p \in Int /\ b * (p - q) = b * p - b * q
  BY <1>2
<1>5. b * (p - q) < b /\ -b < b * (p - q)
  BY <1>1, <1>2, <1>3, <1>4
<1>6. p = q
  <2>1. ASSUME p - q >= 1 PROVE FALSE
    <3>1. b * (p - q) >= b
      BY <1>2, <2>1
    <3> QED
      BY <1>2, <1>4, <1>5, <3>1
  <2>2. ASSUME p - q <= -1 PROVE FALSE
    <3>1. b * (p - q) <= -b
      BY <1>2, <2>2
    <3> QED
      BY <1>2, <1>4, <1>5, <3>1
  <2> QED
    BY <1>2, <2>1, <2>2
<1>7. s = r
  BY <1>2, <1>3, <1>6
<1> QED
  BY <1>6, <1>7 DEF x, p, s

(***************************************************************************)
(* The digits of a number: the upper one in the system of base c, the      *)
(* lower one in that of base b.                                            *)
(***************************************************************************)
LEMMA TwoDigits ==
    ASSUME NEW x \in Int, NEW b \in Nat \ {0}, NEW c \in Nat \ {0}
    PROVE  ((x \div b) % c) * b + (x % b) = x % (b * c)
<1> DEFINE q == x \div b
           r == x % b
           p == q \div c
           s == q % c
<1>1. q \in Int /\ r \in 0 .. b - 1 /\ x = b * q + r
  BY DivBounds
<1>2. p \in Int /\ s \in 0 .. c - 1 /\ q = c * p + s
  BY <1>1, DivBounds
<1> HIDE DEF q, r, p, s
<1>3. b * c \in Nat \ {0}
  OBVIOUS
<1>4. s * b + r \in 0 .. b * c - 1
  <2>1. s * b <= (c - 1) * b /\ s * b \in Nat /\ (c - 1) * b = b * c - b
    BY <1>2
  <2> QED
    BY <1>1, <1>3, <2>1
<1>5. x = (b * c) * p + (s * b + r)
  <2>1. b * q = b * (c * p) + s * b /\ b * (c * p) = (b * c) * p
    BY <1>2
  <2>2. (b * c) * p \in Int /\ s * b \in Int /\ b * q \in Int
    BY <1>1, <1>2, <1>3
  <2> QED
    BY <1>1, <2>1, <2>2
<1>6. x % (b * c) = s * b + r
  <2> DEFINE d == b * c
             t == s * b + r
  <2>1. d \in Nat \ {0} /\ t \in 0 .. d - 1 /\ x = d * p + t
    BY <1>3, <1>4, <1>5
  <2> HIDE DEF d, t
  <2>2. x % d = t
    BY <1>2, <2>1, DivUnique
  <2> QED
    BY <2>2 DEF d, t
<1> QED
  BY <1>6 DEF q, r, s

(* The remainder of a number that is less than the divisor is the number. *)
LEMMA ModSmall ==
    ASSUME NEW b \in Nat \ {0}, NEW x \in 0 .. b - 1
    PROVE  x % b = x /\ x \div b = 0
<1>1. b * 0 + x = x
  OBVIOUS
<1> QED
  BY <1>1, DivUnique

-----------------------------------------------------------------------------
(* How many numbers fit into 1, 2, 4, 6 and 8 bytes. *)
LEMMA Widths ==
    /\ Byte \in Nat \ {0} /\ Uint16 \in Nat \ {0} /\ Uint32 \in Nat \ {0}
    /\ Uint48 \in Nat \ {0} /\ Uint64 \in Nat \ {0}
    /\ Uint16 = Byte * Byte /\ Uint32 = Uint16 * Uint16
    /\ Uint48 = Uint32 * Uint16 /\ Uint64 = Uint32 * Uint32
<1>1. Byte \in Nat \ {0}
  BY MsgAssumption
<1>2. Uint16 \in Nat \ {0} /\ Uint16 = Byte * Byte
  BY <1>1 DEF Uint16
<1>3. Uint32 \in Nat \ {0} /\ Uint32 = Uint16 * Uint16
  BY <1>2 DEF Uint32
<1>4. Uint48 \in Nat \ {0} /\ Uint48 = Uint16 * Uint32
  BY <1>2, <1>3 DEF Uint48
<1>5. Uint64 \in Nat \ {0} /\ Uint64 = Uint16 * Uint48
  BY <1>2, <1>4 DEF Uint64
<1>6. Uint48 = Uint32 * Uint16
  BY <1>2, <1>3, <1>4
<1>7. Uint16 * (Uint16 * Uint32) = (Uint16 * Uint16) * Uint32
  BY <1>2, <1>3
<1>8. Uint64 = Uint32 * Uint32
  BY <1>3, <1>4, <1>5, <1>7
<1> QED
  BY <1>1, <1>2, <1>3, <1>4, <1>5, <1>6, <1>8

(***************************************************************************)
(* What htons(), htonl() and their like put into a field the receiver      *)
(* reads, cut to the width of the field.                                   *)
(***************************************************************************)
LEMMA ReadShort ==
    ASSUME NEW x \in Int
    PROVE  /\ Htons(x) \in Seq(Int) /\ Len(Htons(x)) = 2
           /\ Ntohs(Htons(x)) = x % Uint16
<1>1. x % Byte \in Int /\ x \div Byte \in Int
  BY Widths, DivBounds
<1>2. (x \div Byte) % Byte \in Int
  BY <1>1, Widths, DivBounds
<1> QED
  <2>1. ((x \div Byte) % Byte) * Byte + (x % Byte) = x % Uint16
    <3>1. ((x \div Byte) % Byte) * Byte + (x % Byte) = x % (Byte * Byte)
      <4>1. Byte \in Nat \ {0}
        BY Widths
      <4> QED
        BY <4>1, TwoDigits
    <3> QED
      BY <3>1, Widths
  <2> DEFINE upper == (x \div Byte) % Byte
             lower == x % Byte
  <2>2. Htons(x) = <<upper, lower>>
    BY DEF Htons
  <2> HIDE DEF upper, lower
  <2>3. <<upper, lower>>[1] = upper /\ <<upper, lower>>[2] = lower
    OBVIOUS
  <2>4. Ntohs(Htons(x)) = x % Uint16
    BY <2>1, <2>2, <2>3 DEF Ntohs, upper, lower
  <2>5. Htons(x) \in Seq(Int) /\ Len(Htons(x)) = 2
    <3>1. upper \in Int /\ lower \in Int
      BY <1>1, <1>2 DEF upper, lower
    <3> QED
      BY <3>1, <2>2
  <2> QED
    BY <2>4, <2>5

(* Two fields of n bytes are put together and taken apart again. *)
LEMMA Halves ==
    ASSUME NEW upper \in Seq(Int), NEW lower \in Seq(Int), NEW n \in Nat \ {0},
           NEW k \in Nat, NEW m \in Nat,
           Len(upper) = n, Len(lower) = n, k = n + 1, m = n + n
    PROVE  /\ upper \o lower \in Seq(Int) /\ Len(upper \o lower) = m
           /\ SubSeq(upper \o lower, 1, n) = upper
           /\ SubSeq(upper \o lower, k, m) = lower
<1> DEFINE both == upper \o lower
<1>1. /\ both \in Seq(Int) /\ Len(both) = m
      /\ \A i \in 1 .. m : both[i] = IF i <= n THEN upper[i] ELSE lower[i - n]
  <2>1. /\ both \in Seq(Int) /\ Len(both) = Len(upper) + Len(lower)
        /\ \A i \in 1 .. Len(upper) + Len(lower) :
              both[i] = IF i <= Len(upper) THEN upper[i] ELSE lower[i - Len(upper)]
    BY ConcatProperties
  <2> HIDE DEF both
  <2> QED
    BY <2>1
<1> HIDE DEF both
<1>2. \A i \in 1 .. m : both[i] \in Int
  BY <1>1
<1>3. SubSeq(both, 1, n) = upper
  <2>1. /\ SubSeq(both, 1, n) \in Seq(Int) /\ Len(SubSeq(both, 1, n)) = n
        /\ \A i \in 1 .. n : SubSeq(both, 1, n)[i] = both[i]
    <3>1. \A i \in 1 .. n : both[i] \in Int
      BY <1>2
    <3>2. n \in Int /\ 1 <= n /\ (n - 1) + 1 = n
      OBVIOUS
    <3>3. /\ SubSeq(both, 1, n) \in Seq(Int)
          /\ Len(SubSeq(both, 1, n)) = IF 1 <= n THEN (n - 1) + 1 ELSE 0
          /\ \A i \in 1 .. (n - 1) + 1 : SubSeq(both, 1, n)[i] = both[(1 + i) - 1]
      BY <3>1, <3>2, SubSeqProperties
    <3> QED
      BY <3>2, <3>3
  <2>2. ASSUME NEW i \in 1 .. n PROVE SubSeq(both, 1, n)[i] = upper[i]
    <3>1. i \in 1 .. m /\ i <= n
      OBVIOUS
    <3> QED
      BY <1>1, <2>1, <3>1
  <2> QED
    BY <2>1, <2>2, SeqEqual
<1>4. SubSeq(both, k, m) = lower
  <2> DEFINE part == SubSeq(both, k, m)
  <2>1. /\ part \in Seq(Int) /\ Len(part) = n
        /\ \A i \in 1 .. n : part[i] = both[n + i]
    <3>1. \A i \in n + 1 .. m : both[i] \in Int
      BY <1>2
    <3>2. k \in Int /\ m \in Int /\ n + 1 <= m /\ (m - k) + 1 = n
      OBVIOUS
    <3>3. /\ part \in Seq(Int)
          /\ Len(part) = IF n + 1 <= m THEN (m - k) + 1 ELSE 0
          /\ \A i \in 1 .. (m - k) + 1 : part[i] = both[(k + i) - 1]
      BY <3>1, <3>2, SubSeqProperties
    <3> QED
      BY <3>2, <3>3
  <2> HIDE DEF part
  <2>2. ASSUME NEW i \in 1 .. n PROVE part[i] = lower[i]
    <3>1. n + i \in 1 .. m /\ ~(n + i <= n) /\ (n + i) - n = i
      OBVIOUS
    <3>2. both[n + i] = lower[(n + i) - n]
      BY <1>1, <3>1
    <3> QED
      BY <2>1, <3>1, <3>2
  <2>3. part = lower
    BY <2>1, <2>2, SeqEqual
  <2> QED
    BY <2>3 DEF part
<1> QED
  BY <1>1, <1>3, <1>4 DEF both

(* The same of 4 bytes ... *)
LEMMA ReadLong ==
    ASSUME NEW x \in Int
    PROVE  /\ Htonl(x) \in Seq(Int) /\ Len(Htonl(x)) = 4
           /\ Ntohl(Htonl(x)) = x % Uint32
<1> DEFINE upper == Htons(x \div Uint16)
           lower == Htons(x)
<1>1. x \div Uint16 \in Int
  BY Widths, DivBounds
<1>2. /\ upper \in Seq(Int) /\ Len(upper) = 2
      /\ lower \in Seq(Int) /\ Len(lower) = 2
      /\ Ntohs(upper) = (x \div Uint16) % Uint16
      /\ Ntohs(lower) = x % Uint16
  BY <1>1, ReadShort
<1>3. Htonl(x) = upper \o lower
  BY DEF Htonl
<1> HIDE DEF upper, lower
<1>4. /\ SubSeq(upper \o lower, 1, 2) = upper
      /\ SubSeq(upper \o lower, 3, 4) = lower
      /\ upper \o lower \in Seq(Int) /\ Len(upper \o lower) = 4
  <2> DEFINE n == 2
             k == 3
             m == 4
  <2>1. n \in Nat \ {0} /\ k \in Nat /\ m \in Nat /\ k = n + 1 /\ m = n + n
    OBVIOUS
  <2>2. Len(upper) = n /\ Len(lower) = n /\ upper \in Seq(Int) /\ lower \in Seq(Int)
    BY <1>2
  <2> HIDE DEF n, k, m
  <2>3. /\ SubSeq(upper \o lower, 1, n) = upper
        /\ SubSeq(upper \o lower, k, m) = lower
        /\ upper \o lower \in Seq(Int) /\ Len(upper \o lower) = m
    BY <2>1, <2>2, Halves
  <2> QED
    BY <2>3 DEF n, k, m
<1>5. ((x \div Uint16) % Uint16) * Uint16 + (x % Uint16) = x % Uint32
  <2>1. ((x \div Uint16) % Uint16) * Uint16 + (x % Uint16) = x % (Uint16 * Uint16)
    <3>1. Uint16 \in Nat \ {0}
      BY Widths
    <3> QED
      BY <3>1, TwoDigits
  <2> QED
    BY <2>1, Widths
<1> QED
  BY <1>2, <1>3, <1>4, <1>5 DEF Ntohl

(* ... and of 8. *)
LEMMA Read64 ==
    ASSUME NEW x \in Int
    PROVE  Ntoh64(Hton64(x)) = x % Uint64
<1> DEFINE upper == Htonl(x \div Uint32)
           lower == Htonl(x)
<1>1. x \div Uint32 \in Int
  BY Widths, DivBounds
<1>2. /\ upper \in Seq(Int) /\ Len(upper) = 4
      /\ lower \in Seq(Int) /\ Len(lower) = 4
      /\ Ntohl(upper) = (x \div Uint32) % Uint32
      /\ Ntohl(lower) = x % Uint32
  BY <1>1, ReadLong
<1>3. Hton64(x) = upper \o lower
  BY DEF Hton64
<1> HIDE DEF upper, lower
<1>4. /\ SubSeq(upper \o lower, 1, 4) = upper
      /\ SubSeq(upper \o lower, 5, 8) = lower
  <2> DEFINE n == 4
             k == 5
             m == 8
  <2>1. n \in Nat \ {0} /\ k \in Nat /\ m \in Nat /\ k = n + 1 /\ m = n + n
    OBVIOUS
  <2>2. Len(upper) = n /\ Len(lower) = n /\ upper \in Seq(Int) /\ lower \in Seq(Int)
    BY <1>2
  <2> HIDE DEF n, k, m
  <2>3. /\ SubSeq(upper \o lower, 1, n) = upper
        /\ SubSeq(upper \o lower, k, m) = lower
    BY <2>1, <2>2, Halves
  <2> QED
    BY <2>3 DEF n, k, m
<1>5. ((x \div Uint32) % Uint32) * Uint32 + (x % Uint32) = x % Uint64
  <2>1. ((x \div Uint32) % Uint32) * Uint32 + (x % Uint32) = x % (Uint32 * Uint32)
    <3>1. Uint32 \in Nat \ {0}
      BY Widths
    <3> QED
      BY <3>1, TwoDigits
  <2> QED
    BY <2>1, Widths
<1> QED
  BY <1>2, <1>3, <1>4, <1>5 DEF Ntoh64

-----------------------------------------------------------------------------
(* Every non-empty set of natural numbers has a least element. *)
LEMMA LeastNumber ==
    ASSUME NEW T \in SUBSET Nat, T # {}
    PROVE  \E x \in T : \A y \in T : x <= y
<1> DEFINE R == {ss \in Nat \X Nat : ss[1] < ss[2]}
<1>1. IsWellFoundedOn(R, Nat)
  BY NatLessThanWellFounded DEF OpToRel
<1>2. \A x, y \in Nat : y < x => <<y, x>> \in R
  OBVIOUS
<1> HIDE DEF R
<1>3. PICK x \in T : \A y \in T : ~(<<y, x>> \in R)
  BY <1>1, WFMin
<1>4. ASSUME NEW y \in T PROVE x <= y
  <2>1. x \in Nat /\ y \in Nat /\ ~(<<y, x>> \in R)
    BY <1>3
  <2> QED
    BY <1>2, <2>1
<1> QED
  BY <1>4

(* The numbers of 32 bits, and a row of Or, computed from the rows in f. *)
Word == 0 .. Uint32 - 1

OrRow(f, a) ==
    [b \in Word |->
        IF a = 0 \/ b = 0 THEN a + b
        ELSE 2 * f[a \div 2][b \div 2] + (IF a % 2 = 0 /\ b % 2 = 0 THEN 0 ELSE 1)]

(* A row depends on rows before it only. *)
LEMMA RowsBefore ==
    ASSUME NEW f, NEW g, NEW a \in Word, \A n \in 0 .. a - 1 : f[n] = g[n]
    PROVE  OrRow(f, a) = OrRow(g, a)
<1>1. CASE a = 0
  BY <1>1 DEF OrRow
<1>2. CASE a # 0
  <2>1. a \in Nat \ {0}
    BY <1>2, Widths DEF Word
  <2>2. a \div 2 \in 0 .. a - 1
    BY <2>1
  <2>3. f[a \div 2] = g[a \div 2]
    BY <2>2
  <2> QED
    BY <2>3 DEF OrRow
<1> QED
  BY <1>1, <1>2

(***************************************************************************)
(* The recursion that defines Or has a solution, else there would be a     *)
(* least row that has none.                                                *)
(***************************************************************************)
LEMMA OrDefined ==
    \A a \in Word : Or[a] = OrRow(Or, a)
<1> DEFINE solves(f, m) == \A a \in 0 .. m - 1 : f[a] = OrRow(f, a)
           T == {m \in 0 .. Uint32 : ~ \E f : solves(f, m)}
<1>1. T = {}
  <2>1. SUFFICES ASSUME T # {} PROVE FALSE
    OBVIOUS
  <2>2. PICK m \in T : \A k \in T : m <= k
    <3>1. T \in SUBSET Nat
      BY Widths
    <3> HIDE DEF T
    <3> QED
      BY <2>1, <3>1, LeastNumber
  <2>3. m \in 0 .. Uint32 /\ ~ \E f : solves(f, m)
    BY <2>2
  <2>4. m # 0
    <3>1. solves(Or, 0)
      OBVIOUS
    <3> HIDE DEF solves
    <3> QED
      BY <2>3, <3>1
  <2>5. m - 1 \in 0 .. Uint32 /\ ~(m <= m - 1) /\ m \in Nat \ {0} /\ m - 1 \in Word
    BY <2>3, <2>4, Widths DEF Word
  <2>6. PICK g : solves(g, m - 1)
    <3>1. m - 1 \notin T
      BY <2>2, <2>5
    <3> HIDE DEF solves
    <3> QED
      BY <2>5, <3>1
  <2> DEFINE f == [a \in 0 .. m - 1 |-> IF a = m - 1 THEN OrRow(g, a) ELSE g[a]]
  <2>7. ASSUME NEW a \in 0 .. m - 1 PROVE f[a] = OrRow(f, a)
    <3>1. a \in Word
      BY <2>3, <2>5, Widths DEF Word
    <3>2. ASSUME NEW n \in 0 .. a - 1 PROVE f[n] = g[n]
      <4>1. n \in 0 .. m - 1 /\ n # m - 1
        BY <2>5
      <4> QED
        BY <4>1
    <3>3. f[a] = OrRow(g, a)
      <4>1. CASE a = m - 1
        BY <4>1
      <4>2. CASE a # m - 1
        <5>1. a \in 0 .. (m - 1) - 1
          BY <2>5, <4>2
        <5>2. g[a] = OrRow(g, a)
          BY <2>6, <5>1
        <5> QED
          BY <4>2, <5>2
      <4> QED
        BY <4>1, <4>2
    <3> HIDE DEF f
    <3>4. OrRow(f, a) = OrRow(g, a)
      BY <3>1, <3>2, RowsBefore
    <3> QED
      BY <3>3, <3>4
  <2>8. solves(f, m)
    BY <2>7
  <2> HIDE DEF solves, f
  <2> QED
    BY <2>3, <2>8
<1>2. PICK g : solves(g, Uint32)
  <2>1. Uint32 \in 0 .. Uint32 /\ Uint32 \notin T
    BY <1>1, Widths
  <2> HIDE DEF solves
  <2> QED
    BY <2>1
<1> DEFINE def(f) == f = [a \in Word |-> OrRow(f, a)]
           h == [a \in Word |-> g[a]]
<1>3. def(h)
  <2>1. ASSUME NEW a \in Word PROVE h[a] = OrRow(h, a)
    <3>1. ASSUME NEW n \in 0 .. a - 1 PROVE h[n] = g[n]
      <4>1. n \in Word
        BY Widths DEF Word
      <4> QED
        BY <4>1
    <3>2. h[a] = OrRow(g, a)
      BY <1>2 DEF Word
    <3> HIDE DEF h
    <3>3. OrRow(h, a) = OrRow(g, a)
      BY <3>1, RowsBefore
    <3> QED
      BY <3>2, <3>3
  <2> QED
    BY <2>1
<1>4. Or = CHOOSE f : def(f)
  BY DEF Or, OrRow, Word
<1>5. def(Or)
  <2> HIDE DEF def, h
  <2> QED
    BY <1>3, <1>4
<1> QED
  BY <1>5

(***************************************************************************)
(* The or of two numbers is a number, and with 0 it is the number itself.  *)
(***************************************************************************)
LEMMA OrValues ==
    /\ \A a, b \in Word : Or[a][b] \in Nat
    /\ \A a \in Word : Or[a][0] = a
<1>0. 0 \in Word /\ Word \subseteq Nat
  BY Widths DEF Word
<1>1. ASSUME NEW a \in Word PROVE Or[a][0] = a
  <2>1. OrRow(Or, a)[0] = a
    BY <1>0 DEF OrRow
  <2> QED
    BY <2>1, OrDefined
<1> DEFINE T == {a \in Word : ~ \A b \in Word : Or[a][b] \in Nat}
<1>2. T = {}
  <2>1. SUFFICES ASSUME T # {} PROVE FALSE
    OBVIOUS
  <2>2. PICK a \in T : \A k \in T : a <= k
    <3>1. T \in SUBSET Nat
      BY <1>0
    <3> HIDE DEF T
    <3> QED
      BY <2>1, <3>1, LeastNumber
  <2>3. PICK b \in Word : Or[a][b] \notin Nat
    BY <2>2
  <2>4. a \in Word /\ a \in Nat /\ b \in Nat
    BY <1>0, <2>2
  <2>5. Or[a][b] = IF a = 0 \/ b = 0 THEN a + b
                   ELSE 2 * Or[a \div 2][b \div 2]
                            + (IF a % 2 = 0 /\ b % 2 = 0 THEN 0 ELSE 1)
    <3>1. Or[a] = OrRow(Or, a)
      BY <2>4, OrDefined
    <3> QED
      BY <3>1 DEF OrRow
  <2>6. a # 0 /\ b # 0
    BY <2>3, <2>4, <2>5
  <2>7. a \div 2 \in Word /\ b \div 2 \in Word /\ ~(a <= a \div 2)
    BY <2>4, <2>6, Widths DEF Word
  <2>8. Or[a \div 2][b \div 2] \in Nat
    BY <2>2, <2>7
  <2>9. Or[a][b] \in Nat
    <3> DEFINE rest == Or[a \div 2][b \div 2]
    <3>1. rest \in Nat
      BY <2>8
    <3> HIDE DEF rest
    <3>2. 2 * rest + (IF a % 2 = 0 /\ b % 2 = 0 THEN 0 ELSE 1) \in Nat
      BY <3>1
    <3> QED
      BY <2>5, <2>6, <3>2 DEF rest
  <2> QED
    BY <2>3, <2>9
<1> QED
  BY <1>1, <1>2

-----------------------------------------------------------------------------
(* Half of the numbers of 64 bits are so many corrections of 1 ns. *)
LEMMA HalfRange ==
    /\ Uint48 \div 2 \in Nat \ {0} /\ Uint64 \div 2 \in Nat \ {0}
    /\ Uint64 \div 2 = Uint16 * (Uint48 \div 2)
    /\ Uint64 = 2 * (Uint64 \div 2)
<1> DEFINE half == Byte \div 2
           q == (half * Byte) * Uint32
<1>1. half \in Nat \ {0} /\ Byte = 2 * half
  BY MsgAssumption
<1> HIDE DEF half
<1>2. half * Byte \in Nat \ {0} /\ Uint16 = 2 * (half * Byte)
  BY <1>1, Widths
<1>3. q \in Nat \ {0}
  BY <1>2, Widths
<1>4. Uint48 = 2 * q
  <2> DEFINE h == half * Byte
  <2>1. h \in Nat \ {0} /\ Uint16 = 2 * h
    BY <1>2
  <2> HIDE DEF h
  <2>2. Uint16 * Uint32 = 2 * (h * Uint32)
    BY <2>1, Widths
  <2> QED
    BY <2>2 DEF h, Uint48
<1> HIDE DEF q
<1>5. Uint48 \div 2 = q
  BY <1>3, <1>4
<1>6. Uint16 * q \in Nat \ {0}
  BY <1>3, Widths
<1>7. Uint64 = 2 * (Uint16 * q)
  <2>1. Uint16 * (2 * q) = 2 * (Uint16 * q)
    BY <1>3, Widths
  <2> QED
    BY <1>4, <2>1 DEF Uint64
<1> DEFINE p == Uint16 * q
<1> HIDE DEF p
<1>8. Uint64 \div 2 = p
  <2>1. p \in Nat \ {0} /\ Uint64 = 2 * p
    BY <1>6, <1>7 DEF p
  <2> QED
    BY <2>1
<1> QED
  BY <1>3, <1>5, <1>6, <1>7, <1>8 DEF p

(* The correction is the one that was sent, rounded down to nanoseconds. *)
LEMMA CorrectionExact ==
    ASSUME NEW m \in Sendable
    PROVE  /\ Correction(Wire(m)) = m.correction \div Uint16
           /\ Correction(Wire(m)) \in -(Uint48 \div 2) .. Uint48 \div 2 - 1
<1> DEFINE c == m.correction
           h == Uint64 \div 2
           q == Uint48 \div 2
<1>1. c \in -h .. h - 1
  BY MsgAssumption
<1>2. h \in Nat \ {0} /\ q \in Nat \ {0} /\ h = Uint16 * q /\ Uint64 = 2 * h
  BY HalfRange
<1>3. Ntoh64(Hton64(c)) = c % Uint64
  BY <1>1, <1>2, Read64
<1>4. Correction(Wire(m)) = Signed(c % Uint64) \div Uint16
  BY <1>3 DEF Correction, Wire
<1>5. \A bits : Signed(bits) = IF bits < h THEN bits ELSE bits - Uint64
  BY DEF Signed
<1> HIDE DEF c, h, q
<1>6. Signed(c % Uint64) = c
  <2>1. CASE c >= 0
    <3>1. c \in 0 .. Uint64 - 1 /\ c < h
      BY <1>1, <1>2, <2>1
    <3> QED
      BY <1>5, <3>1, ModSmall, Widths
  <2>2. CASE c < 0
    <3>1. c + Uint64 \in 0 .. Uint64 - 1 /\ ~(c + Uint64 < h)
      BY <1>1, <1>2, <2>2
    <3>2. c % Uint64 = c + Uint64
      <4> DEFINE u == Uint64
      <4>1. u \in Nat \ {0} /\ c + u \in 0 .. u - 1 /\ c \in Int /\ u * (-1) + (c + u) = c
        BY <1>1, <1>2, <3>1, Widths
      <4> HIDE DEF u
      <4>2. (u * (-1) + (c + u)) % u = c + u
        BY <4>1, DivUnique
      <4> QED
        BY <4>1, <4>2 DEF u
    <3>3. (c + Uint64) - Uint64 = c
      BY <1>1, <1>2
    <3> QED
      BY <1>5, <3>1, <3>2, <3>3
  <2> QED
    BY <1>1, <1>2, <2>1, <2>2
<1>7. c \div Uint16 \in -q .. q - 1
  <2> DEFINE d == c \div Uint16
             r == c % Uint16
  <2>1. d \in Int /\ r \in 0 .. Uint16 - 1 /\ c = Uint16 * d + r
    <3>1. c \in Int /\ Uint16 \in Nat \ {0}
      BY <1>1, <1>2, Widths
    <3> QED
      BY <3>1, DivBounds
  <2> HIDE DEF d, r
  <2>2. /\ Uint16 * d \in Int /\ Uint16 * q \in Int
        /\ Uint16 * (d - q) = Uint16 * d - Uint16 * q
        /\ Uint16 * (d + q) = Uint16 * d + Uint16 * q
    BY <1>2, <2>1, Widths
  <2>3. Uint16 * (d - q) < 0 /\ Uint16 * (d + q) > -Uint16
    BY <1>1, <1>2, <2>1, <2>2, Widths
  <2>4. d - q < 0
    <3>1. ASSUME d - q >= 0 PROVE FALSE
      <4>1. Uint16 * (d - q) >= 0
        BY <1>2, <2>1, <3>1, Widths
      <4> QED
        BY <1>2, <2>1, <2>2, <2>3, <4>1
    <3> QED
      BY <1>2, <2>1, <3>1
  <2>5. d + q > -1
    <3>1. ASSUME d + q <= -1 PROVE FALSE
      <4>1. Uint16 * (d + q) <= -Uint16
        BY <1>2, <2>1, <3>1, Widths
      <4> QED
        BY <1>2, <2>1, <2>2, <2>3, <4>1, Widths
    <3> QED
      BY <1>2, <2>1, <3>1
  <2>6. d \in -q .. q - 1
    BY <1>2, <2>1, <2>4, <2>5
  <2> QED
    BY <2>6 DEF d
<1> QED
  BY <1>4, <1>6, <1>7 DEF c, q

(***************************************************************************)
(* A time stamp is a number of nanoseconds that an int64_t holds, and the  *)
(* one that ptp4l measured as long as seconds_lsb counts its seconds.      *)
(***************************************************************************)
LEMMA TimestampExact ==
    ASSUME NEW m \in Sendable, NEW time \in {m.master, m.slave}
    PROVE  LET ns == Signed(TimestampNtohns(Stamp(time)))
           IN  /\ ns \in 0 .. NsPerSec * Uint32 - 1
               /\ time.sec < Uint32 => ns = Ns(time)
<1> DEFINE sec == time.sec
           ns == time.ns
           lsb == sec % Uint32
           msb == (sec \div Uint32) % Uint16
           seconds == Or[lsb][msb * Uint16] % Uint32
           whole == seconds * NsPerSec + ns
<1>1. sec \in 0 .. Uint48 - 1 /\ ns \in 0 .. NsPerSec - 1
  BY MsgAssumption
<1>2. /\ NsPerSec \in Nat \ {0} /\ NsPerSec < Uint32
      /\ NsPerSec * Uint32 + Uint48 \div 2 <= Uint64 \div 2
  BY MsgAssumption, Widths
<1>3. lsb \in Word /\ msb \in 0 .. Uint16 - 1 /\ sec \div Uint32 \in Int
  <2>1. sec \in Int
    BY <1>1, Widths
  <2>2. lsb \in 0 .. Uint32 - 1 /\ sec \div Uint32 \in Int
    BY <2>1, Widths, DivBounds
  <2>3. msb \in 0 .. Uint16 - 1
    BY <2>2, Widths, DivBounds
  <2> QED
    BY <2>2, <2>3 DEF Word
<1>4. Ntohl(Stamp(time).seconds_lsb) = lsb
  <2>1. sec \in Int
    BY <1>1, Widths
  <2>2. Ntohl(Htonl(sec)) = lsb
    BY <2>1, ReadLong
  <2> QED
    BY <2>2 DEF Stamp
<1>5. Ntohs(Stamp(time).seconds_msb) = msb
  BY <1>3, ReadShort DEF Stamp
<1>6. Ntohl(Stamp(time).nanoseconds) = ns
  <2>1. ns \in 0 .. Uint32 - 1
    BY <1>1, <1>2, Widths
  <2>2. Ntohl(Htonl(ns)) = ns % Uint32
    <3>1. ns \in Int
      BY <1>1, <1>2
    <3> QED
      BY <3>1, ReadLong
  <2>3. ns % Uint32 = ns
    BY <2>1, Widths, ModSmall
  <2> QED
    BY <2>2, <2>3 DEF Stamp
<1>7. TimestampNtohns(Stamp(time)) = whole % Uint64
  BY <1>4, <1>5, <1>6 DEF TimestampNtohns
<1>8. msb * Uint16 \in Word
  <2> DEFINE b == msb
  <2> HIDE DEF msb
  <2>1. msb * Uint16 <= (Uint16 - 1) * Uint16 /\ msb * Uint16 \in Nat
    BY <1>3, Widths
  <2>2. (Uint16 - 1) * Uint16 = Uint32 - Uint16
    BY Widths
  <2> QED
    BY <2>1, <2>2, Widths DEF Word
<1>9. seconds \in 0 .. Uint32 - 1
  <2>1. Or[lsb][msb * Uint16] \in Int
    BY <1>3, <1>8, OrValues
  <2> QED
    BY <2>1, Widths, DivBounds
<1>10. sec < Uint32 => seconds = sec
  <2>1. SUFFICES ASSUME sec < Uint32 PROVE seconds = sec
    OBVIOUS
  <2>2. sec \in 0 .. Uint32 - 1
    BY <1>1, <2>1, Widths
  <2>3. lsb = sec /\ sec \div Uint32 = 0
    BY <2>2, Widths, ModSmall
  <2>4. msb = 0
    BY <2>3, Widths, ModSmall
  <2>5. msb * Uint16 = 0
    BY <2>4, Widths
  <2>6. Or[lsb][msb * Uint16] = sec
    BY <1>3, <2>3, <2>5, OrValues
  <2> QED
    BY <2>2, <2>6, Widths, ModSmall
<1> HIDE DEF seconds, lsb, msb
<1>11. whole \in 0 .. NsPerSec * Uint32 - 1
  <2>1. /\ seconds * NsPerSec \in Nat
        /\ seconds * NsPerSec <= (Uint32 - 1) * NsPerSec
        /\ (Uint32 - 1) * NsPerSec = NsPerSec * Uint32 - NsPerSec
        /\ NsPerSec * Uint32 \in Nat
    BY <1>2, <1>9, Widths
  <2> QED
    BY <1>1, <1>2, <2>1
<1>12. whole < Uint64 \div 2
  <2>1. NsPerSec * Uint32 \in Nat
    BY <1>2, Widths
  <2> QED
    BY <1>2, <1>11, <2>1, HalfRange
<1>13. whole \in 0 .. Uint64 - 1
  <2>1. NsPerSec * Uint32 \in Nat
    BY <1>2, Widths
  <2> QED
    BY <1>11, <1>12, <2>1, HalfRange
<1>14. sec < Uint32 => whole = Ns(time)
  BY <1>10 DEF Ns
<1> HIDE DEF whole
<1>15. Signed(whole % Uint64) = whole
  BY <1>12, <1>13, Widths, ModSmall DEF Signed
<1> QED
  BY <1>7, <1>11, <1>14, <1>15

-----------------------------------------------------------------------------
(***************************************************************************)
(* What the record of a message does to the times: the master's is moved   *)
(* by the correction, and both stay within an int64_t.                     *)
(***************************************************************************)
LEMMA RecordDecoded ==
    ASSUME NEW m \in Sendable, wire' = Wire(m),
           \/ m.kind = "sync" /\ ProcessRxSyncMsg(wire')
           \/ m.kind = "delay" /\ ProcessDelayTimingMsg(wire')
    PROVE  /\ {master_time', slave_time'}
                  \subseteq -(Uint64 \div 2) .. Uint64 \div 2 - 1
           /\ InEra(m) =>
                  /\ slave_time' = Ns(m.slave)
                  /\ master_time' = IF m.kind = "delay"
                                    THEN Ns(m.master) - m.correction \div Uint16
                                    ELSE Ns(m.master) + m.correction \div Uint16
<1> DEFINE master == Signed(TimestampNtohns(Stamp(m.master)))
           slave == Signed(TimestampNtohns(Stamp(m.slave)))
           corr == m.correction \div Uint16
           h == Uint64 \div 2
           q == Uint48 \div 2
           t == NsPerSec * Uint32
<1>1. /\ master \in 0 .. t - 1 /\ slave \in 0 .. t - 1
      /\ m.master.sec < Uint32 => master = Ns(m.master)
      /\ m.slave.sec < Uint32 => slave = Ns(m.slave)
  BY TimestampExact
<1>2. corr \in -q .. q - 1 /\ Correction(Wire(m)) = corr
  BY CorrectionExact
<1>3. /\ slave_time' = slave
      /\ master_time' = IF m.kind = "delay" THEN master - corr ELSE master + corr
  BY <1>2 DEF ProcessRxSyncMsg, ProcessDelayTimingMsg, Wire
<1>4. InEra(m) => m.master.sec < Uint32 /\ m.slave.sec < Uint32
  BY Widths DEF InEra
<1>5. h \in Nat \ {0} /\ q \in Nat \ {0} /\ t + q <= h /\ t \in Nat
  BY MsgAssumption, HalfRange, Widths
<1>6. Uint64 \div 2 = h
  OBVIOUS
<1>7. InEra(m) =>
          /\ slave_time' = Ns(m.slave)
          /\ master_time' = IF m.kind = "delay" THEN Ns(m.master) - corr
                                                ELSE Ns(m.master) + corr
  BY <1>1, <1>3, <1>4
<1> HIDE DEF master, slave, corr, h, q, t
<1>8. slave_time' \in -h .. h - 1
  BY <1>1, <1>3, <1>5
<1>9. master_time' \in -h .. h - 1
  <2>1. master - corr \in -h .. h - 1 /\ master + corr \in -h .. h - 1
    BY <1>1, <1>2, <1>5
  <2> QED
    BY <1>3, <2>1
<1> QED
  BY <1>6, <1>7, <1>8, <1>9 DEF corr

(***************************************************************************)
(* The times of main() stay within an int64_t, whatever may be sent: the   *)
(* sum of a time stamp and a correction never overflows.                   *)
(***************************************************************************)
THEOREM MsgTypes == Spec => []TypeOK
<1>1. Init => TypeOK
  <2>1. 0 \in -(Uint64 \div 2) .. Uint64 \div 2 - 1
    BY HalfRange
  <2> QED
    BY <2>1 DEF Init, TypeOK
<1>2. ASSUME TypeOK, [Receive]_vars PROVE TypeOK'
  <2>1. CASE Receive
    <3>1. PICK m \in Sendable : sent' = m /\ wire' = Wire(m) /\ ProcessMessage
      BY <2>1 DEF Receive
    <3>2. wire'.kind = m.kind
      BY <3>1 DEF Wire
    <3>3. CASE m.kind \in {"sync", "delay"}
      <4>1. /\ msg_type' = m.kind
            /\ \/ m.kind = "sync" /\ ProcessRxSyncMsg(wire')
               \/ m.kind = "delay" /\ ProcessDelayTimingMsg(wire')
        BY <3>1, <3>2, <3>3 DEF ProcessMessage
      <4>2. {master_time', slave_time'}
                \subseteq -(Uint64 \div 2) .. Uint64 \div 2 - 1
        BY <3>1, <4>1, RecordDecoded
      <4> QED
        BY <3>1, <3>3, <4>1, <4>2 DEF TypeOK
    <3>4. CASE m.kind \notin {"sync", "delay"}
      <4>1. /\ UNCHANGED <<master_time, slave_time>>
            /\ msg_type' \in {"other_tlv", msg_type}
        BY <3>1, <3>2, <3>4 DEF ProcessMessage
      <4> QED
        BY <1>2, <3>1, <4>1 DEF TypeOK
    <3> QED
      BY <3>3, <3>4
  <2>2. CASE UNCHANGED vars
    BY <1>2, <2>2 DEF TypeOK, vars
  <2> QED
    BY <1>2, <2>1, <2>2
<1> QED
  BY <1>1, <1>2, PTL DEF Spec

(* Rounding a whole number of nanoseconds and a correction in fractions. *)
LEMMA RoundedTime ==
    ASSUME NEW ns \in Int, NEW c \in Int, NEW b \in Nat \ {0}
    PROVE  /\ (ns * b + c) \div b = ns + c \div b
           /\ -((-(ns * b - c)) \div b) = ns - c \div b
<1> DEFINE q == c \div b
           r == c % b
<1>1. q \in Int /\ r \in 0 .. b - 1 /\ c = b * q + r
  BY DivBounds
<1>2. ns * b \in Int /\ ns * b = b * ns
  OBVIOUS
<1> HIDE DEF q, r
<1>3. /\ b * q \in Int /\ b * (ns + q) = b * ns + b * q
      /\ b * (q - ns) = b * q - b * ns
  BY <1>1
<1>4. (ns * b + c) \div b = ns + q
  <2> DEFINE x == ns * b + c
             p == ns + q
  <2>1. p \in Int /\ x = b * p + r
    BY <1>1, <1>2, <1>3
  <2> HIDE DEF x, p
  <2>2. x \div b = p
    BY <1>1, <2>1, DivUnique
  <2> QED
    BY <2>2 DEF x, p
<1>5. (-(ns * b - c)) \div b = q - ns
  <2> DEFINE x == -(ns * b - c)
             p == q - ns
  <2>1. p \in Int /\ x = b * p + r
    BY <1>1, <1>2, <1>3
  <2> HIDE DEF x, p
  <2>2. x \div b = p
    BY <1>1, <2>1, DivUnique
  <2> QED
    BY <2>2 DEF x, p
<1>6. -(q - ns) = ns - q
  BY <1>1
<1> QED
  BY <1>4, <1>5, <1>6 DEF q

(***************************************************************************)
(* What process_message() makes of the bytes is what Messages, and with it *)
(* the main loop of ExtServo, takes a datagram for: the times that ptp4l   *)
(* measured, the master's rounded to the nanosecond.  It holds for every   *)
(* message whose seconds seconds_lsb can count.                            *)
(***************************************************************************)
THEOREM BytesRefineMessages == Spec => GivesWhatWasMeasured
<1>1. ASSUME [Receive]_vars
      PROVE  [InEra(sent') => Decoded!ProcessMessage(Rounded(sent'))]_vars
  <2>1. SUFFICES ASSUME Receive, InEra(sent')
                 PROVE  Decoded!ProcessMessage(Rounded(sent'))
    BY <1>1
  <2>2. PICK m \in Sendable : sent' = m /\ wire' = Wire(m) /\ ProcessMessage
    BY <2>1 DEF Receive
  <2>3. wire'.kind = m.kind /\ Rounded(m).kind = m.kind
    BY <2>2 DEF Wire, Rounded
  <2>4. InEra(m)
    BY <2>1, <2>2
  <2>5. CASE m.kind \in {"sync", "delay"}
    <3>1. /\ msg_type' = m.kind
          /\ \/ m.kind = "sync" /\ ProcessRxSyncMsg(wire')
             \/ m.kind = "delay" /\ ProcessDelayTimingMsg(wire')
      BY <2>2, <2>3, <2>5 DEF ProcessMessage
    <3>2. /\ slave_time' = Ns(m.slave)
          /\ master_time' = IF m.kind = "delay"
                            THEN Ns(m.master) - m.correction \div Uint16
                            ELSE Ns(m.master) + m.correction \div Uint16
      BY <2>2, <2>4, <3>1, RecordDecoded
    <3>3. Rounded(m).slave = Ns(m.slave)
      BY DEF Rounded
    <3>4. Rounded(m).master = master_time'
      <4>1. Ns(m.master) \in Int /\ m.correction \in Int /\ Uint16 \in Nat \ {0}
        <5>1. /\ m.master.sec \in Int /\ m.master.ns \in Int /\ NsPerSec \in Int
              /\ m.correction \in Int
          BY MsgAssumption, HalfRange, Widths
        <5>2. m.master.sec * NsPerSec \in Int
          BY <5>1
        <5> QED
          BY <5>1, <5>2, Widths DEF Ns
      <4> DEFINE ns == Ns(m.master)
                 c == m.correction
                 u == Uint16
      <4>2. Rounded(m).master = IF m.kind = "delay"
                                THEN -((-(ns * u + (-c))) \div u)
                                ELSE (ns * u + c) \div u
        BY DEF Rounded, ExactMasterTime
      <4>3. ns \in Int /\ c \in Int /\ u \in Nat \ {0}
        BY <4>1
      <4>4. master_time' = IF m.kind = "delay" THEN ns - c \div u ELSE ns + c \div u
        BY <3>2
      <4> HIDE DEF ns, c, u
      <4>5. ns * u + (-c) = ns * u - c
        <5>1. ns * u \in Int
          BY <4>3
        <5> QED
          BY <4>3, <5>1
      <4>6. /\ (ns * u + c) \div u = ns + c \div u
            /\ -((-(ns * u - c)) \div u) = ns - c \div u
        BY <4>3, RoundedTime
      <4> QED
        BY <4>2, <4>4, <4>5, <4>6
    <3> QED
      BY <2>2, <2>3, <2>5, <3>1, <3>2, <3>3, <3>4 DEF Decoded!ProcessMessage
  <2>6. CASE m.kind \notin {"sync", "delay"}
    <3>1. /\ UNCHANGED <<master_time, slave_time>>
          /\ msg_type' = IF m.kind = "not_signaling" THEN msg_type ELSE m.kind
      BY <2>2, <2>3, <2>6 DEF ProcessMessage
    <3> QED
      BY <2>2, <2>3, <2>6, <3>1 DEF Decoded!ProcessMessage
  <2> QED
    BY <2>5, <2>6
<1> QED
  BY <1>1, PTL DEF Spec, GivesWhatWasMeasured

(***************************************************************************)
(* And what ptp4l measured is a datagram as Messages knows it.             *)
(***************************************************************************)
THEOREM MeasuredIsDatagram ==
    ASSUME NEW m \in Sendable
    PROVE  Rounded(m) \in Decoded!Datagram
<1> DEFINE ns(time) == time.sec * NsPerSec + time.ns
<1>1. NsPerSec \in Nat /\ Uint16 \in Nat \ {0} /\ m.correction \in Int
  BY MsgAssumption, HalfRange, Widths
<1>2. ASSUME NEW time \in {m.master, m.slave}
      PROVE  ns(time) \in Nat /\ ns(time) = Ns(time)
  <2>1. time.sec \in Nat /\ time.ns \in Nat
    BY <1>1, MsgAssumption, Widths
  <2>2. time.sec * NsPerSec \in Nat
    BY <1>1, <2>1
  <2> QED
    BY <2>1, <2>2 DEF Ns
<1>3. Ns(m.master) \in Nat /\ Ns(m.slave) \in Nat
  BY <1>2
<1>4. Rounded(m).master \in Int
  <2> DEFINE exact == ExactMasterTime(m)
             u == Uint16
  <2>1. exact \in Int
    <3>1. Ns(m.master) * Uint16 \in Int
      BY <1>1, <1>3
    <3> QED
      BY <1>1, <3>1 DEF ExactMasterTime
  <2>2. Rounded(m).master = IF m.kind = "delay" THEN -((-exact) \div u)
                            ELSE exact \div u
    BY DEF Rounded
  <2>3. u \in Nat \ {0}
    BY <1>1
  <2> HIDE DEF exact, u
  <2>4. exact \div u \in Int /\ (-exact) \div u \in Int
    BY <2>1, <2>3, DivBounds
  <2> QED
    BY <2>2, <2>4
<1>5. m.kind \in Decoded!Kinds
  BY MsgAssumption DEF Decoded!Kinds
<1> QED
  BY <1>3, <1>4, <1>5 DEF Rounded, Decoded!Datagram

(***************************************************************************)
(* The era ends where InEra says: of a time whose seconds seconds_lsb      *)
(* cannot count, timestamp_ntohns() makes another one, an earlier one.     *)
(***************************************************************************)
THEOREM EraEnds ==
    ASSUME NEW m \in Sendable, NEW time \in {m.master, m.slave},
           time.sec >= Uint32
    PROVE  Signed(TimestampNtohns(Stamp(time))) < Ns(time)
<1> DEFINE sec == time.sec
           ns == time.ns
           read == Signed(TimestampNtohns(Stamp(time)))
           t == NsPerSec * Uint32
<1>1. read \in 0 .. t - 1
  BY TimestampExact
<1>2. NsPerSec \in Nat /\ sec \in Nat /\ ns \in Nat /\ sec >= Uint32
  BY MsgAssumption, Widths
<1>3. Ns(time) = sec * NsPerSec + ns
  BY DEF Ns
<1> HIDE DEF sec, ns, read
<1>4. sec * NsPerSec >= t /\ sec * NsPerSec \in Nat /\ t \in Nat
  <2>1. (sec - Uint32) * NsPerSec >= 0
    BY <1>2, Widths
  <2>2. (sec - Uint32) * NsPerSec = sec * NsPerSec - Uint32 * NsPerSec
    BY <1>2, Widths
  <2>3. Uint32 * NsPerSec = NsPerSec * Uint32
    BY <1>2, Widths
  <2>4. sec * NsPerSec \in Nat /\ Uint32 * NsPerSec \in Nat
    BY <1>2, Widths
  <2> QED
    BY <2>1, <2>2, <2>3, <2>4
<1> HIDE DEF t
<1>5. read < sec * NsPerSec + ns
  BY <1>1, <1>2, <1>4
<1> QED
  BY <1>3, <1>5 DEF read
=============================================================================
