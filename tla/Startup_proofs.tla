--------------------------- MODULE Startup_proofs ---------------------------
(***************************************************************************)
(* Proofs that what main() sets up, and what it then asks of the clocks,   *)
(* is right for every USER_HZ, clock, range and file.                      *)
(***************************************************************************)
EXTENDS Startup, SequenceTheorems, TLAPS

(***************************************************************************)
(* What the division of natural numbers leaves is less than the divisor.   *)
(***************************************************************************)
LEMMA DivBounds ==
    ASSUME NEW a \in Nat, NEW b \in Nat \ {0}
    PROVE  /\ a \div b \in Nat
           /\ b * (a \div b) <= a
           /\ a < b * (a \div b) + b
  OBVIOUS

(* Rounding to a multiple errs by half of it at most. *)
LEMMA RoundBounds ==
    ASSUME NEW a \in Int, NEW b \in Nat \ {0}
    PROVE  /\ RoundDiv(a, b) \in Int
           /\ b * RoundDiv(a, b) \in Int
           /\ 2 * (a - b * RoundDiv(a, b)) \in -b .. b
<1>1. CASE a >= 0
  <2> DEFINE q == (2 * a + b) \div (2 * b)
  <2>1. 2 * a + b \in Nat /\ 2 * b \in Nat \ {0}
    BY <1>1
  <2>2. q \in Nat /\ (2 * b) * q <= 2 * a + b /\ 2 * a + b < (2 * b) * q + 2 * b
    BY <2>1, DivBounds
  <2>3. RoundDiv(a, b) = q
    BY <1>1, <2>1 DEF RoundDiv, TmvDiv
  <2> HIDE DEF q
  <2>4. b * q \in Int /\ (2 * b) * q = 2 * (b * q)
    BY <2>2
  <2> QED
    BY <2>2, <2>3, <2>4
<1>2. CASE a < 0
  <2> DEFINE q == (-(2 * a) + b) \div (2 * b)
  <2>1. -(2 * a) + b \in Nat /\ 2 * b \in Nat \ {0}
    BY <1>2
  <2>2. /\ q \in Nat
        /\ (2 * b) * q <= -(2 * a) + b
        /\ -(2 * a) + b < (2 * b) * q + 2 * b
    BY <2>1, DivBounds
  <2>3. RoundDiv(a, b) = -q
    <3>1. -(2 * a + -b) = -(2 * a) + b /\ ~(2 * a + -b >= 0)
      BY <1>2
    <3> QED
      BY <1>2, <3>1 DEF RoundDiv, TmvDiv
  <2> HIDE DEF q
  <2>4. b * q \in Int /\ (2 * b) * q = 2 * (b * q) /\ b * (-q) = -(b * q)
    BY <2>2
  <2> QED
    BY <2>2, <2>3, <2>4
<1> QED
  BY <1>1, <1>2

(* What is nearer to a multiple than half of it is rounded to that one. *)
LEMMA RoundNearest ==
    ASSUME NEW a \in Int, NEW k \in Int, NEW b \in Nat \ {0},
           2 * (a - b * k) < b, -b < 2 * (a - b * k)
    PROVE  RoundDiv(a, b) = k
<1> DEFINE r == RoundDiv(a, b)
<1>1. b * k \in Int
  OBVIOUS
<1>2. r \in Int /\ b * r \in Int /\ 2 * (a - b * r) \in -b .. b
  BY <1>1, RoundBounds
<1> HIDE DEF r
<1>3. b * (k - r) = b * k - b * r /\ k - r \in Int
  BY <1>2
<1>4. 2 * (b * (k - r)) < 2 * b /\ -(2 * b) < 2 * (b * (k - r))
  BY <1>1, <1>2, <1>3
<1>5. ASSUME NEW d \in Int, d >= 1  PROVE b * d >= b
  BY <1>5
<1>6. ~(k - r >= 1)
  BY <1>3, <1>4, <1>5
<1>7. ~(r - k >= 1)
  <2>1. b * (r - k) = -(b * (k - r)) /\ r - k \in Int
    BY <1>2
  <2>2. b * (k - r) \in Int
    BY <1>3
  <2> QED
    BY <1>4, <1>5, <2>1, <2>2
<1>8. r = k
  BY <1>2, <1>6, <1>7
<1> QED
  BY <1>8 DEF r

(* Rounding does not leave a range that ends in multiples. *)
LEMMA RoundRange ==
    ASSUME NEW a \in Int, NEW b \in Nat \ {0}, NEW k \in Nat,
           AbsVal(a) <= k * b
    PROVE  RoundDiv(a, b) \in -k .. k
<1> DEFINE r == RoundDiv(a, b)
<1>1. r \in Int /\ b * r \in Int /\ 2 * (a - b * r) \in -b .. b
  BY RoundBounds
<1> HIDE DEF r
<1>2. k * b \in Nat /\ a <= k * b /\ -(k * b) <= a /\ k * b = b * k
  BY DEF AbsVal
<1>3. ASSUME NEW d \in Int, d >= 1  PROVE b * d >= b
  BY <1>3
<1>4. ~(r - k >= 1)
  <2>1. b * (r - k) = b * r - b * k /\ r - k \in Int
    BY <1>1
  <2> QED
    BY <1>1, <1>2, <1>3, <2>1
<1>5. ~(-r - k >= 1)
  <2>1. b * (-r - k) = -(b * r) - b * k /\ -r - k \in Int
    BY <1>1
  <2> QED
    BY <1>1, <1>2, <1>3, <2>1
<1> QED
  BY <1>1, <1>4, <1>5 DEF r

-----------------------------------------------------------------------------
(* The kernel's clocks: the system clock keeps to its tolerance and ticks. *)
KernelOK ==
    /\ user_hz \in Hertz
    /\ hw \in [Clocks -> [tick : Nat, freq : Int]]
    /\ hw["realtime"].freq \in -Tolerance .. Tolerance
    /\ hw["realtime"].tick \in KernelTicks(user_hz)

\* What clockadj_init() has set or not
AdjOK ==
    \/ realtime_hz = 0 /\ realtime_nominal_tick = 0
    \/ realtime_hz = user_hz /\ realtime_nominal_tick = NominalTick(user_hz)

\* Once the clocks are chosen they are both the system clock or both PHCs
ClocksOK ==
    /\ {freq_clk_id, tod_clk_id} \subseteq Clocks \union {"none"}
    /\ pc \in {"tsproc_create", "phc_caps_get", "system_clock", "get_freq",
               "servo_create", "loop"} =>
           /\ {freq_clk_id, tod_clk_id} \subseteq Clocks
           /\ freq_clk_id = "realtime" <=> tod_clk_id = "realtime"

\* Before the frequency is read the range is the one of the clock
RangeOK ==
    /\ max_frequency \in Nat
    /\ pc = "system_clock" /\ freq_clk_id # "realtime"
           => max_frequency = PhcMaxAdj[freq_clk_id]
    /\ pc \in {"get_freq", "servo_create", "loop"} =>
           IF freq_clk_id = "realtime"
           THEN /\ realtime_hz = user_hz
                /\ realtime_nominal_tick = NominalTick(user_hz)
                /\ max_frequency = MaxFreq("realtime")
           ELSE max_frequency = PhcMaxAdj[freq_clk_id]

\* A tick is set by clockadj_set_freq() only
TickFound ==
    pc \notin {"servo_create", "loop", "exit"} => hw["realtime"].tick # 0

RequestOK ==
    /\ pc # "loop" => request = NoRequest
    /\ \A step \in request.step : step \in Int /\ tx_time = StepTime(step)

KernelInv ==
    KernelOK /\ AdjOK /\ ClocksOK /\ RangeOK /\ TickFound /\ RequestOK

(* Of every USER_HZ: a tick is positive, and so is its effect. *)
LEMMA HertzFacts ==
    ASSUME NEW hz \in Hertz
    PROVE  /\ hz \in Nat \ {0}
           /\ TickPpb(hz) \in Nat \ {0}
           /\ NominalTick(hz) \in Nat \ {0}
<1>1. hz \in 1 .. UsecPerSec /\ UsecPerSec \in Nat
  BY StartupAssumption, ClockAdjAssumption
<1>2. /\ hz \in Nat \ {0} /\ hz \div 2 \in Nat
      /\ UsecPerSec + hz \div 2 \in Nat /\ UsecPerSec + hz \div 2 >= hz
  BY <1>1
<1>3. NominalTick(hz) \in Nat \ {0}
  <2> DEFINE n == UsecPerSec + hz \div 2
             q == n \div hz
  <2>1. q \in Nat /\ hz * q <= n /\ n < hz * q + hz
    BY <1>2, DivBounds
  <2>2. q # 0
    <3>1. SUFFICES ASSUME q = 0  PROVE FALSE
      OBVIOUS
    <3> HIDE DEF n, q
    <3>2. hz * q = 0
      BY <1>2, <3>1
    <3> QED
      BY <1>2, <2>1, <3>2 DEF n
  <2> QED
    BY <2>1, <2>2 DEF NominalTick
<1> QED
  BY <1>2, <1>3 DEF TickPpb

(* The ticks of a kernel are natural numbers. *)
LEMMA KernelTicksNat ==
    ASSUME NEW hz \in Hertz
    PROVE  KernelTicks(hz) \subseteq Nat
<1>1. 9 * UsecPerSec \in Nat /\ 10 * hz \in Nat \ {0}
  BY ClockAdjAssumption, HertzFacts
<1>2. (9 * UsecPerSec) \div (10 * hz) \in Nat
  BY <1>1, DivBounds
<1> QED
  BY <1>2 DEF KernelTicks

(* clockadj_set_freq() keeps the domain of the clocks. *)
LEMMA SetFreqType ==
    ASSUME KernelOK, AdjOK, NEW clk \in Clocks, NEW freq \in Int,
           SetFreq(clk, freq), UNCHANGED user_hz
    PROVE  KernelOK'
<1> USE DEF KernelOK
<1>1. ASSUME NEW tick \in Int, NEW f \in Int, AdjustRealtime(tick, f)
      PROVE  KernelOK'
  <2>1. Limited(f) \in -Tolerance .. Tolerance
    BY ClockAdjAssumption DEF Limited
  <2>2. TickAccepted(tick) => tick \in Nat
    BY KernelTicksNat DEF TickAccepted
  <2>3. Limited(f) \in Int /\ "realtime" \in Clocks
    BY <2>1, ClockAdjAssumption DEF Clocks
  <2>4. CASE TickAccepted(tick)
    <3>1. hw' = [hw EXCEPT !["realtime"] = [tick |-> tick, freq |-> Limited(f)]]
      BY <1>1, <2>4 DEF AdjustRealtime
    <3>2. [tick |-> tick, freq |-> Limited(f)] \in [tick : Nat, freq : Int]
      BY <2>2, <2>3, <2>4
    <3>3. hw' \in [Clocks -> [tick : Nat, freq : Int]]
      BY <3>1, <3>2
    <3>4. hw'["realtime"].freq = Limited(f) /\ hw'["realtime"].tick = tick
      BY <2>3, <3>1
    <3>5. tick \in KernelTicks(user_hz')
      BY <2>4 DEF TickAccepted
    <3> QED
      BY <2>1, <3>3, <3>4, <3>5
  <2> QED
    BY <1>1, <2>4 DEF AdjustRealtime
<1>2. CASE UsesTick(clk)
  <2> DEFINE ticks == RoundDiv(freq, TickPpb(realtime_hz))
  <2>1. realtime_hz = user_hz /\ realtime_nominal_tick = NominalTick(user_hz)
    BY <1>2 DEF UsesTick, AdjOK
  <2>2. ticks \in Int /\ TickPpb(realtime_hz) * ticks \in Int
        /\ realtime_nominal_tick \in Int
    BY <2>1, HertzFacts, RoundBounds
  <2>3. AdjustRealtime(ticks + realtime_nominal_tick,
                       freq - TickPpb(realtime_hz) * ticks)
    BY <1>2 DEF SetFreq
  <2> HIDE DEF ticks
  <2>4. /\ ticks + realtime_nominal_tick \in Int
        /\ freq - TickPpb(realtime_hz) * ticks \in Int
    BY <2>2
  <2> QED
    BY <1>1, <2>3, <2>4
<1>3. CASE ~UsesTick(clk) /\ clk = "realtime"
  <2>1. AdjustRealtime(hw[clk].tick, freq) /\ hw[clk].tick \in Int
    BY <1>3 DEF SetFreq
  <2> QED
    BY <1>1, <2>1
<1>4. CASE clk # "realtime"
  <2>1. hw' \in {hw, [hw EXCEPT ![clk].freq = freq]}
    BY <1>4 DEF SetFreq, UsesTick, AdjustPhc
  <2>2. "realtime" \in Clocks
    BY DEF Clocks
  <2>3. [hw[clk] EXCEPT !.freq = freq] \in [tick : Nat, freq : Int]
    OBVIOUS
  <2>4. hw' \in [Clocks -> [tick : Nat, freq : Int]]
    BY <2>1, <2>3
  <2>5. hw'["realtime"] = hw["realtime"]
    BY <1>4, <2>1, <2>2
  <2> QED
    BY <2>4, <2>5
<1> QED
  BY <1>2, <1>3, <1>4

(***************************************************************************)
(* Setting a clock that keeps its tick apart to the frequency that it has  *)
(* leaves its rate as it is, whether the kernel takes the tick or not.     *)
(***************************************************************************)
LEMMA AdoptingKeepsRates ==
    ASSUME KernelOK, NEW clk \in Clocks,
           clk = "realtime" =>
               /\ realtime_hz = user_hz
               /\ realtime_nominal_tick = NominalTick(user_hz)
               /\ hw["realtime"].tick # 0,
           SetFreq(clk, GetFreq(clk)), UNCHANGED user_hz
    PROVE  /\ GetFreq(clk) = Rate(clk)
           /\ \A c \in Clocks : Rate(c)' = Rate(c)
<1> USE DEF KernelOK
<1>1. CASE clk = "realtime"
  <2> DEFINE b == TickPpb(user_hz)
             n == NominalTick(user_hz)
             k == hw["realtime"].tick - n
             f == hw["realtime"].freq
             r == RoundDiv(GetFreq(clk), b)
  <2>1. /\ b \in Nat \ {0} /\ n \in Nat \ {0}
        /\ hw["realtime"].tick \in Nat /\ f \in -Tolerance .. Tolerance
    BY <1>1, HertzFacts
  <2>2. GetFreq(clk) = b * k + f /\ GetFreq(clk) = Rate(clk)
    BY <1>1, <2>1 DEF GetFreq, UsesTick, Rate
  <2>3. k \in Int /\ f \in Int /\ b * k \in Int /\ GetFreq(clk) \in Int
    BY <2>1, <2>2, ClockAdjAssumption
  <2>4. r \in Int /\ b * r \in Int /\ 2 * (GetFreq(clk) - b * r) \in -b .. b
    BY <2>1, <2>3, RoundBounds
  <2>5. AdjustRealtime(r + n, GetFreq(clk) - b * r)
    BY <1>1, <2>1 DEF SetFreq, UsesTick
  <2>6. b * r + Limited(GetFreq(clk) - b * r) = GetFreq(clk)
    <3>1. CASE 2 * Tolerance >= b
      BY <2>1, <2>3, <2>4, <3>1, ClockAdjAssumption DEF Limited
    <3>2. CASE 2 * Tolerance < b
      <4>1. 2 * f < b /\ -b < 2 * f
        BY <2>1, <3>2, ClockAdjAssumption
      <4>2. r = k
        <5>1. GetFreq(clk) - b * k = f
          BY <2>2, <2>3
        <5> HIDE DEF k
        <5> QED
          BY <2>1, <2>3, <4>1, <5>1, RoundNearest
      <4>3. GetFreq(clk) - b * r = f
        BY <2>2, <2>3, <4>2
      <4> QED
        BY <2>1, <2>2, <2>3, <4>2, <4>3, ClockAdjAssumption DEF Limited
    <3> QED
      BY <2>1, <3>1, <3>2, ClockAdjAssumption
  <2>7. Limited(GetFreq(clk) - b * r) \in Int
    BY <2>3, <2>4, ClockAdjAssumption DEF Limited
  <2>8. CASE ~TickAccepted(r + n)
    BY <2>2, <2>5, <2>8 DEF AdjustRealtime, Rate
  <2>9. CASE TickAccepted(r + n)
    <3>1. hw' = [hw EXCEPT !["realtime"] =
                   [tick |-> r + n, freq |-> Limited(GetFreq(clk) - b * r)]]
      BY <2>5, <2>9 DEF AdjustRealtime
    <3> DEFINE g == Limited(GetFreq(clk) - b * r)
    <3>2. "realtime" \in Clocks
      BY DEF Clocks
    <3>3. hw'["realtime"].tick = r + n /\ hw'["realtime"].freq = g
      BY <3>1, <3>2
    <3>4. Rate("realtime")' = g + b * ((r + n) - n)
      BY <3>3 DEF Rate
    <3>5. (r + n) - n = r
      BY <2>1, <2>4
    <3> HIDE DEF g
    <3>6. Rate("realtime")' = Rate("realtime")
      BY <1>1, <2>2, <2>4, <2>6, <2>7, <3>4, <3>5 DEF g
    <3>7. ASSUME NEW c \in Clocks, c # "realtime"  PROVE Rate(c)' = Rate(c)
      BY <3>1, <3>7 DEF Rate
    <3> QED
      BY <2>2, <3>6, <3>7
  <2> QED
    BY <2>8, <2>9
<1>2. CASE clk # "realtime"
  <2>1. GetFreq(clk) = hw[clk].freq /\ hw[clk].freq \in Int
    BY <1>2 DEF GetFreq, UsesTick
  <2>2. hw' = hw \/ hw' = [hw EXCEPT ![clk].freq = hw[clk].freq]
    BY <1>2, <2>1 DEF SetFreq, UsesTick, AdjustPhc
  <2>3. hw' = hw
    BY <2>2
  <2> QED
    BY <1>2, <2>1, <2>3 DEF Rate
<1> QED
  BY <1>1, <1>2

(***************************************************************************)
(* An adjustment of the range of the clock is what the clock then has: the *)
(* kernel takes the tick, and cuts nothing off the rest.                   *)
(***************************************************************************)
LEMMA RangeIsObeyed ==
    ASSUME KernelOK, NEW clk \in Clocks, NEW freq \in Int,
           IF clk = "realtime"
           THEN /\ realtime_hz = user_hz
                /\ realtime_nominal_tick = NominalTick(user_hz)
                /\ AbsVal(freq) <= MaxFreq("realtime")
           ELSE AbsVal(freq) <= PhcMaxAdj[clk],
           SetFreq(clk, freq), UNCHANGED user_hz
    PROVE  Rate(clk)' = freq
<1> USE DEF KernelOK
<1>1. CASE clk = "realtime"
  <2> DEFINE b == TickPpb(user_hz)
             n == NominalTick(user_hz)
             r == RoundDiv(freq, b)
             tenth == n \div 10
  <2>1. /\ b \in Nat \ {0} /\ n \in Nat \ {0}
        /\ realtime_hz = user_hz /\ realtime_nominal_tick = n
    BY <1>1, HertzFacts
  <2>2. r \in Int /\ b * r \in Int /\ 2 * (freq - b * r) \in -b .. b
    BY <2>1, RoundBounds
  <2>3. tenth \in Nat
    BY <2>1, DivBounds
  <2>4. AbsVal(freq) <= IF 2 * Tolerance >= b THEN tenth * b ELSE Tolerance
    BY <1>1, <2>1 DEF MaxFreq, UsesTick
  <2>5. /\ r \in -tenth .. tenth
        /\ freq - b * r \in -Tolerance .. Tolerance
    <3>1. CASE 2 * Tolerance >= b
      <4>1. AbsVal(freq) <= tenth * b
        BY <2>4, <3>1
      <4>2. r \in -tenth .. tenth
        BY <2>1, <2>3, <4>1, RoundRange
      <4> DEFINE br == b * r
      <4>3. br \in Int /\ 2 * (freq - br) \in -b .. b
        BY <2>2
      <4> HIDE DEF b, n, r, tenth, br
      <4>4. freq - br \in -Tolerance .. Tolerance
        BY <2>1, <3>1, <4>3, ClockAdjAssumption
      <4> QED
        BY <4>2, <4>4 DEF br
    <3>2. CASE 2 * Tolerance < b
      <4>1. AbsVal(freq) <= Tolerance
        BY <2>1, <2>4, <3>2, ClockAdjAssumption
      <4>2. freq <= Tolerance /\ -Tolerance <= freq
        BY <4>1, ClockAdjAssumption DEF AbsVal
      <4> HIDE DEF b, n, r, tenth
      <4>3. 2 * freq < b /\ -b < 2 * freq
        BY <2>1, <3>2, <4>2, ClockAdjAssumption
      <4>5. RoundDiv(freq, b) = 0
        <5>1. freq - b * 0 = freq
          BY <2>1
        <5> QED
          BY <2>1, <4>3, <5>1, RoundNearest
      <4>6. r = 0
        BY <4>5 DEF r
      <4>7. b * r = 0
        BY <2>1, <4>6
      <4>8. freq - b * r = freq
        BY <4>7
      <4> QED
        BY <2>3, <4>2, <4>6, <4>8, ClockAdjAssumption
    <3> QED
      BY <2>1, <3>1, <3>2, ClockAdjAssumption
  <2>6. TickAccepted(r + n)
    <3>1. {n - tenth, n + tenth} \subseteq
              (9 * UsecPerSec) \div (10 * user_hz)
                  .. (11 * UsecPerSec) \div (10 * user_hz)
      BY StartupAssumption DEF KernelTicks
    <3>2. /\ (9 * UsecPerSec) \div (10 * user_hz) \in Int
          /\ (11 * UsecPerSec) \div (10 * user_hz) \in Int
      <4>1. /\ 9 * UsecPerSec \in Nat /\ 11 * UsecPerSec \in Nat
            /\ 10 * user_hz \in Nat \ {0}
        BY ClockAdjAssumption, HertzFacts
      <4> QED
        BY <4>1, DivBounds
    <3> DEFINE low == (9 * UsecPerSec) \div (10 * user_hz)
               high == (11 * UsecPerSec) \div (10 * user_hz)
    <3>3. n - tenth \in low .. high /\ n + tenth \in low .. high
      BY <3>1
    <3>4. low \in Int /\ high \in Int
      BY <3>2
    <3> HIDE DEF b, n, r, tenth, low, high
    <3>5. r + n \in low .. high
      BY <2>1, <2>3, <2>5, <3>3, <3>4
    <3> QED
      BY <3>5 DEF TickAccepted, KernelTicks, low, high
  <2>7. AdjustRealtime(r + n, freq - b * r)
    BY <1>1, <2>1 DEF SetFreq, UsesTick
  <2>8. Limited(freq - b * r) = freq - b * r
    BY <2>5, ClockAdjAssumption DEF Limited
  <2>9. hw' = [hw EXCEPT !["realtime"] = [tick |-> r + n, freq |-> freq - b * r]]
    BY <2>6, <2>7, <2>8 DEF AdjustRealtime
  <2>10. "realtime" \in Clocks
    BY DEF Clocks
  <2>11. hw'["realtime"].tick = r + n /\ hw'["realtime"].freq = freq - b * r
    BY <2>9, <2>10
  <2>12. Rate("realtime")' = (freq - b * r) + b * ((r + n) - n)
    BY <2>11 DEF Rate
  <2>13. (r + n) - n = r
    BY <2>1, <2>2
  <2>14. (freq - b * r) + b * r = freq
    BY <2>2
  <2> QED
    BY <1>1, <2>12, <2>13, <2>14
<1>2. CASE clk # "realtime"
  <2>1. hw' = [hw EXCEPT ![clk].freq = freq]
    BY <1>2 DEF SetFreq, UsesTick, AdjustPhc
  <2>2. hw'[clk].freq = freq
    BY <2>1
  <2> QED
    BY <1>2, <2>2 DEF Rate
<1> QED
  BY <1>1, <1>2

(* The timeval of a step is its number of nanoseconds, normalized. *)
LEMMA StepTimeExact ==
    ASSUME NEW step \in Int
    PROVE  /\ StepTime(step).tv_sec * NsPerSec + StepTime(step).tv_usec = step
           /\ StepTime(step).tv_usec \in 0 .. NsPerSec - 1
<1> DEFINE a == AbsVal(step)
           q == a \div NsPerSec
           m == a % NsPerSec
<1>1. a \in Nat /\ NsPerSec \in Nat \ {0}
  BY ClockAdjAssumption DEF AbsVal
<1> HIDE DEF a
<1>2. /\ q \in Nat /\ m \in 0 .. NsPerSec - 1
      /\ NsPerSec * q + m = a
  BY <1>1
<1> USE DEF a
<1>3. CASE step >= 0
  <2>1. a = step
    BY <1>3 DEF AbsVal
  <2>2. StepTime(step) = [tv_sec |-> 1 * q, tv_usec |-> 1 * m]
    BY <1>2, <1>3 DEF StepTime
  <2> HIDE DEF a, q, m
  <2>3. 1 * q = q /\ 1 * m = m /\ q * NsPerSec = NsPerSec * q
    BY <1>1, <1>2
  <2> QED
    BY <1>1, <1>2, <2>1, <2>2, <2>3
<1>4. CASE step < 0 /\ m = 0
  <2>1. a = -step
    BY <1>4 DEF AbsVal
  <2>2. StepTime(step) = [tv_sec |-> (-1) * q, tv_usec |-> (-1) * m]
    BY <1>2, <1>4 DEF StepTime
  <2> HIDE DEF a, q, m
  <2>3. ((-1) * q) * NsPerSec = -(NsPerSec * q) /\ (-1) * m = 0
        /\ NsPerSec * q \in Int
    BY <1>1, <1>2, <1>4
  <2> QED
    BY <1>1, <1>2, <1>4, <2>1, <2>2, <2>3
<1>5. CASE step < 0 /\ m # 0
  <2>1. a = -step
    BY <1>5 DEF AbsVal
  <2>2. StepTime(step) = [tv_sec |-> (-1) * q - 1, tv_usec |-> (-1) * m + NsPerSec]
    BY <1>2, <1>5 DEF StepTime
  <2> HIDE DEF a, q, m
  <2>3. ((-1) * q - 1) * NsPerSec = -(NsPerSec * q) - NsPerSec
        /\ (-1) * m = -m /\ NsPerSec * q \in Int
    BY <1>1, <1>2
  <2> QED
    BY <1>1, <1>2, <1>5, <2>1, <2>2, <2>3
<1> QED
  BY <1>2, <1>3, <1>4, <1>5

-----------------------------------------------------------------------------
\* The actions that leave kernel and clocks alone
Quiet ==
    Fails \/ LogInit \/ Options \/ ParseConfig \/ ParseReturns \/ UdsCreate
        \/ TsprocCreate \/ ServoCreate

Kept == <<user_hz, hw, clkVars, max_frequency, adjVars, historyVars>>

(* They do so, and none of them passes over a step of main(). *)
LEMMA QuietSteps ==
    ASSUME Quiet \/ UNCHANGED vars
    PROVE  /\ UNCHANGED Kept
           /\ \/ pc' = pc \/ pc' = "exit"
              \/ pc' \in {"options", "servo_config_parse", "uds_create",
                          "device_init", "phc_caps_get"}
                  /\ pc \in {"sys_log_init", "options", "servo_config_parse",
                             "uds_create", "tsproc_create"}
                  /\ (pc' = "phc_caps_get" => pc = "tsproc_create")
              \/ pc = "servo_create" /\ pc' = "loop"
           /\ pc = "loop" => pc' = "loop"
<1>1. CASE Fails \/ Options \/ UdsCreate
  BY <1>1 DEF Fails, Options, UdsCreate, Goto, Kept, kernelVars, madeVars,
              servoConfigVars
<1>2. CASE LogInit
  BY <1>2 DEF LogInit, Goto, Kept, kernelVars, madeVars, servoConfigVars
<1>3. CASE ParseConfig \/ ParseReturns
  BY <1>3 DEF ParseConfig, ParseReturns, Goto, Kept, kernelVars, madeVars,
              servoConfigVars
<1>4. CASE TsprocCreate
  BY <1>4 DEF TsprocCreate, Goto, Kept, kernelVars, madeVars, servoConfigVars
<1>5. CASE ServoCreate
  BY <1>5 DEF ServoCreate, Goto, Kept, kernelVars, servoConfigVars
<1>6. CASE UNCHANGED vars
  BY <1>6 DEF vars, Kept, kernelVars, madeVars, servoConfigVars
<1> QED
  BY <1>1, <1>2, <1>3, <1>4, <1>5, <1>6 DEF Quiet

(* The clocks main() starts with are in order. *)
LEMMA KernelInit == Init => KernelInv
<1> SUFFICES ASSUME Init  PROVE KernelInv
  OBVIOUS
<1>1. "realtime" \in Clocks /\ \A clk \in Clocks : clk # "realtime" => clk \in Phcs
  BY DEF Clocks
<1>2. hw["realtime"] \in [tick : KernelTicks(user_hz) \ {0},
                           freq : -Tolerance .. Tolerance]
  BY <1>1, StartupAssumption DEF Init
<1>0. KernelTicks(user_hz) \subseteq Nat
  <2>1. user_hz \in Hertz
    BY DEF Init
  <2> QED
    BY <2>1, KernelTicksNat
<1>3. \A clk \in Clocks : hw[clk] \in [tick : Nat, freq : Int]
  <2> TAKE clk \in Clocks
  <2>1. CASE clk = "realtime"
    BY <1>0, <1>2, <2>1, ClockAdjAssumption
  <2>2. CASE clk # "realtime"
    BY <1>1, <2>2, StartupAssumption DEF Init
  <2> QED
    BY <2>1, <2>2
<1>4. hw \in [Clocks -> [tick : Nat, freq : Int]]
  <2>1. hw \in [Clocks -> UNION {Found(clk, user_hz) : clk \in Clocks}]
    BY DEF Init
  <2> QED
    BY <1>3, <2>1
<1>5. KernelOK /\ TickFound
  BY <1>2, <1>4 DEF Init, KernelOK, TickFound
<1>6. AdjOK /\ ClocksOK /\ RangeOK /\ RequestOK
  BY DEF Init, AdjOK, ClocksOK, RangeOK, RequestOK, NoRequest
<1> QED
  BY <1>5, <1>6 DEF KernelInv

(* clockadj_max_freq() is a range. *)
LEMMA TenthNat ==
    ASSUME NEW hz \in Hertz
    PROVE  (NominalTick(hz) \div 10) * TickPpb(hz) \in Nat
<1>1. NominalTick(hz) \div 10 \in Nat /\ TickPpb(hz) \in Nat
  BY HertzFacts, DivBounds
<1>2. \A m \in Nat, n \in Nat : m * n \in Nat
  OBVIOUS
<1> QED
  BY <1>1, <1>2

(* So it is whether clockadj_init() was called or not. *)
LEMMA MaxFreqNat ==
    ASSUME KernelOK, AdjOK
    PROVE  MaxFreq("realtime") \in Nat
<1>1. CASE UsesTick("realtime")
  <2>1. realtime_hz = user_hz /\ realtime_nominal_tick = NominalTick(user_hz)
    BY <1>1 DEF UsesTick, AdjOK
  <2> QED
    BY <2>1, TenthNat, ClockAdjAssumption DEF MaxFreq, KernelOK
<1>2. CASE ~UsesTick("realtime")
  BY <1>2, ClockAdjAssumption DEF MaxFreq
<1> QED
  BY <1>1, <1>2

(* What the kernel runs a clock with is an integer. *)
LEMMA GetFreqInt ==
    ASSUME KernelOK, AdjOK, NEW clk \in Clocks
    PROVE  GetFreq(clk) \in Int
<1>1. hw[clk].freq \in Int /\ hw[clk].tick \in Int
  BY DEF KernelOK
<1>2. CASE UsesTick(clk)
  <2>1. realtime_hz = user_hz /\ realtime_nominal_tick = NominalTick(user_hz)
    BY <1>2 DEF UsesTick, AdjOK
  <2>2. TickPpb(realtime_hz) \in Int /\ realtime_nominal_tick \in Int
    BY <2>1, HertzFacts DEF KernelOK
  <2>3. TickPpb(realtime_hz) * (hw[clk].tick - realtime_nominal_tick) \in Int
    BY <1>1, <2>2
  <2> QED
    BY <1>1, <2>3 DEF GetFreq
<1>3. CASE ~UsesTick(clk)
  BY <1>1, <1>3 DEF GetFreq
<1> QED
  BY <1>2, <1>3

(* A request of the loop is one of integers, and obeyed. *)
LEMMA AskStep ==
    ASSUME KernelInv, NEW freq \in Int, AskFreq(freq)
    PROVE  /\ KernelOK' /\ AdjOK' /\ ClocksOK' /\ RangeOK' /\ TickFound'
           /\ Rate(freq_clk_id)' = freq
<1> USE DEF KernelInv
<1>1. /\ pc = "loop" /\ pc' = "loop" /\ AbsVal(freq) <= max_frequency
      /\ SetFreq(freq_clk_id, freq)
      /\ UNCHANGED <<user_hz, freq_clk_id, tod_clk_id, max_frequency,
                     realtime_hz, realtime_nominal_tick>>
  BY DEF AskFreq, madeVars, clkVars, servoConfigVars, adjVars
<1>2. freq_clk_id \in Clocks
  BY <1>1 DEF ClocksOK
<1>3. KernelOK'
  BY <1>1, <1>2, SetFreqType
<1>4. AdjOK' /\ ClocksOK' /\ TickFound'
  BY <1>1 DEF AdjOK, ClocksOK, TickFound
<1>5. RangeOK'
  BY <1>1 DEF RangeOK, MaxFreq, UsesTick
<1>6. IF freq_clk_id = "realtime"
      THEN /\ realtime_hz = user_hz
           /\ realtime_nominal_tick = NominalTick(user_hz)
           /\ AbsVal(freq) <= MaxFreq("realtime")
      ELSE AbsVal(freq) <= PhcMaxAdj[freq_clk_id]
  BY <1>1 DEF RangeOK
<1>7. ASSUME NEW clk \in Clocks, clk = freq_clk_id  PROVE Rate(clk)' = freq
  BY <1>1, <1>6, <1>7, RangeIsObeyed
<1>8. Rate(freq_clk_id)' = freq
  BY <1>1, <1>2, <1>7 DEF Rate
<1> QED
  BY <1>3, <1>4, <1>5, <1>8

(***************************************************************************)
(* Every step of main() keeps kernel and clocks in order, and until the    *)
(* loop the rate of every clock.                                           *)
(***************************************************************************)
LEMMA KernelStep ==
    ASSUME \A max \in Nat : Asked(max) \subseteq Int,
           KernelInv, [Next]_vars
    PROVE  /\ KernelInv'
           /\ pc' # "loop" => \A clk \in Clocks : Rate(clk)' = Rate(clk)
           /\ RateUntouched /\ pc' # "loop" => RateUntouched'
<1> USE DEF KernelInv
<1> SUFFICES /\ KernelInv'
             /\ pc' # "loop" =>
                    /\ pc # "loop" /\ found_rate' = found_rate
                    /\ \A clk \in Clocks : Rate(clk)' = Rate(clk)
  BY DEF RateUntouched
<1>1. CASE Quiet \/ UNCHANGED vars
  <2>1. UNCHANGED Kept
    BY <1>1, QuietSteps
  <2>2. /\ UNCHANGED <<user_hz, hw, freq_clk_id, tod_clk_id, max_frequency>>
        /\ UNCHANGED <<realtime_hz, realtime_nominal_tick, tx_time, request>>
        /\ UNCHANGED found_rate
    BY <2>1 DEF Kept, clkVars, adjVars, historyVars
  <2>3. /\ \/ pc' = pc \/ pc' = "exit"
           \/ pc' \in {"options", "servo_config_parse", "uds_create",
                       "device_init", "phc_caps_get"}
               /\ pc \in {"sys_log_init", "options", "servo_config_parse",
                          "uds_create", "tsproc_create"}
               /\ (pc' = "phc_caps_get" => pc = "tsproc_create")
           \/ pc = "servo_create" /\ pc' = "loop"
        /\ pc = "loop" => pc' = "loop"
    BY <1>1, QuietSteps
  <2>4. KernelOK' /\ AdjOK'
    BY <2>2 DEF KernelOK, AdjOK
  <2>5. ClocksOK'
    BY <2>2, <2>3 DEF ClocksOK
  <2>6. RangeOK'
    BY <2>2, <2>3 DEF RangeOK, MaxFreq, UsesTick
  <2>7. TickFound' /\ RequestOK'
    BY <2>2, <2>3 DEF TickFound, RequestOK
  <2> QED
    BY <2>2, <2>3, <2>4, <2>5, <2>6, <2>7 DEF Rate
<1>2. CASE DeviceInit
  <2>1. /\ UNCHANGED <<user_hz, hw, max_frequency, tx_time, request, found_rate>>
        /\ UNCHANGED <<realtime_hz, realtime_nominal_tick>>
        /\ pc = "device_init" /\ pc' \in {"tsproc_create", "exit"}
    BY <1>2 DEF DeviceInit, Goto, kernelVars, servoConfigVars, adjVars,
                historyVars
  <2>2. /\ {freq_clk_id', tod_clk_id'} \subseteq Clocks \union {"none"}
        /\ pc' = "tsproc_create" =>
               /\ {freq_clk_id', tod_clk_id'} \subseteq Clocks
               /\ freq_clk_id' = "realtime" <=> tod_clk_id' = "realtime"
    BY <1>2, ClockAdjAssumption
    DEF DeviceInit, Goto, CanOpen, Clocks, clkVars, ClocksOK
  <2>3. ClocksOK'
    BY <2>1, <2>2 DEF ClocksOK, Clocks
  <2>4. KernelOK' /\ AdjOK'
    BY <2>1 DEF KernelOK, AdjOK
  <2>5. RangeOK' /\ TickFound' /\ RequestOK'
    BY <2>1 DEF RangeOK, TickFound, RequestOK
  <2> QED
    BY <2>1, <2>3, <2>4, <2>5 DEF Rate
<1>3. CASE PhcCapsGet
  <2>1. /\ UNCHANGED <<user_hz, hw, freq_clk_id, tod_clk_id>>
        /\ UNCHANGED <<realtime_hz, realtime_nominal_tick, tx_time, request>>
        /\ UNCHANGED found_rate
        /\ pc = "phc_caps_get" /\ pc' = "system_clock"
        /\ max_frequency' = IF freq_clk_id = "realtime" THEN MaxFreq("realtime")
                            ELSE PhcMaxAdj[freq_clk_id]
    BY <1>3 DEF PhcCapsGet, Goto, kernelVars, clkVars, adjVars, historyVars
  <2>2. max_frequency' \in Nat
    BY <2>1, MaxFreqNat, ClockAdjAssumption DEF ClocksOK, Clocks
  <2>3. ClocksOK' /\ RangeOK'
    BY <2>1, <2>2 DEF ClocksOK, RangeOK
  <2>4. KernelOK' /\ AdjOK' /\ TickFound' /\ RequestOK'
    BY <2>1 DEF KernelOK, AdjOK, TickFound, RequestOK
  <2> QED
    BY <2>1, <2>3, <2>4 DEF Rate
<1>4. CASE SystemClock
  <2>1. /\ UNCHANGED <<user_hz, hw, freq_clk_id, tod_clk_id>>
        /\ UNCHANGED <<tx_time, request, found_rate>>
        /\ pc = "system_clock" /\ pc' = "get_freq"
    BY <1>4 DEF SystemClock, Goto, clkVars, historyVars
  <2>2. \/ /\ tod_clk_id = "realtime"
           /\ realtime_hz' = user_hz
           /\ realtime_nominal_tick' = NominalTick(user_hz)
           /\ max_frequency' = MaxFreq("realtime")'
        \/ /\ tod_clk_id # "realtime"
           /\ UNCHANGED <<max_frequency, realtime_hz, realtime_nominal_tick>>
    BY <1>4 DEF SystemClock, ClockadjInit, adjVars
  <2>3. KernelOK' /\ AdjOK' /\ TickFound' /\ RequestOK'
    BY <2>1, <2>2 DEF KernelOK, AdjOK, TickFound, RequestOK
  <2>4. tod_clk_id = "realtime" => MaxFreq("realtime")' \in Nat
    BY <2>2, TenthNat, ClockAdjAssumption DEF MaxFreq, KernelOK
  <2>5. ClocksOK' /\ RangeOK'
    BY <2>1, <2>2, <2>4 DEF ClocksOK, RangeOK
  <2> QED
    BY <2>1, <2>3, <2>5 DEF Rate
<1>5. CASE AdoptFreq
  <2>1. /\ UNCHANGED <<user_hz, freq_clk_id, tod_clk_id, max_frequency>>
        /\ UNCHANGED <<realtime_hz, realtime_nominal_tick, tx_time, request>>
        /\ UNCHANGED found_rate
        /\ pc = "get_freq" /\ pc' = "servo_create"
        /\ SetFreq(freq_clk_id, GetFreq(freq_clk_id))
    BY <1>5 DEF AdoptFreq, Goto, clkVars, adjVars, historyVars
  <2>2. freq_clk_id \in Clocks /\ GetFreq(freq_clk_id) \in Int
    BY <2>1, GetFreqInt DEF ClocksOK
  <2>3. \A clk \in Clocks : Rate(clk)' = Rate(clk)
    BY <2>1, <2>2, AdoptingKeepsRates DEF RangeOK, TickFound
  <2>4. KernelOK'
    BY <2>1, <2>2, SetFreqType
  <2>5. AdjOK' /\ ClocksOK' /\ TickFound' /\ RequestOK'
    BY <2>1 DEF AdjOK, ClocksOK, TickFound, RequestOK
  <2>6. RangeOK'
    BY <2>1 DEF RangeOK, MaxFreq, UsesTick
  <2> QED
    BY <2>1, <2>3, <2>4, <2>5, <2>6
<1>6. CASE LoopSetFreq
  <2>1. PICK freq \in Asked(max_frequency) :
            /\ AskFreq(freq)
            /\ request' = [freq |-> {freq}, step |-> {}]
            /\ UNCHANGED tx_time
    BY <1>6 DEF LoopSetFreq
  <2>2. freq \in Int
    BY DEF RangeOK
  <2>3. KernelOK' /\ AdjOK' /\ ClocksOK' /\ RangeOK' /\ TickFound'
    BY <2>1, <2>2, AskStep
  <2>4. pc' = "loop" /\ RequestOK'
    BY <2>1 DEF AskFreq, RequestOK
  <2> QED
    BY <2>3, <2>4
<1>7. CASE LoopJump
  <2>1. PICK freq \in Asked(max_frequency), step \in Steps :
            /\ AskFreq(freq) /\ Step(step)
            /\ request' = [freq |-> {freq}, step |-> {step}]
    BY <1>7 DEF LoopJump
  <2>2. freq \in Int /\ step \in Int
    BY StartupAssumption DEF RangeOK
  <2>3. KernelOK' /\ AdjOK' /\ ClocksOK' /\ RangeOK' /\ TickFound'
    BY <2>1, <2>2, AskStep
  <2>4. pc' = "loop" /\ RequestOK'
    BY <2>1, <2>2 DEF AskFreq, Step, RequestOK
  <2> QED
    BY <2>3, <2>4
<1> QED
  BY <1>1, <1>2, <1>3, <1>4, <1>5, <1>6, <1>7 DEF Next, Main, Quiet

(* Kernel and clocks stay in order. *)
LEMMA KernelInvariance ==
    ASSUME \A max \in Nat : Asked(max) \subseteq Int
    PROVE  Spec => []KernelInv
  BY KernelInit, KernelStep, PTL DEF Spec

(***************************************************************************)
(* The start-up leaves every clock at the rate it was found with.          *)
(***************************************************************************)
THEOREM RatesAreUntouched ==
    ASSUME \A max \in Nat : Asked(max) \subseteq Int
    PROVE  Spec => []RateUntouched
<1>1. Init => RateUntouched
  BY DEF Init, RateUntouched
<1>2. KernelInv /\ RateUntouched /\ [Next]_vars => RateUntouched'
  <2> SUFFICES ASSUME KernelInv, RateUntouched, [Next]_vars  PROVE RateUntouched'
    OBVIOUS
  <2>1. CASE pc' = "loop"
    BY <2>1 DEF RateUntouched
  <2> QED
    BY <2>1, KernelStep
<1> QED
  BY <1>1, <1>2, KernelInvariance, PTL DEF Spec

(***************************************************************************)
(* The servo starts from the rate that the clock has, tick included.       *)
(***************************************************************************)
THEOREM ServoKnowsTheRate ==
    ASSUME \A max \in Nat : Asked(max) \subseteq Int
    PROVE  Spec => []ServoKnowsRate
<1>1. Init => ServoKnowsRate
  BY DEF Init, ServoKnowsRate
<1>2. KernelInv /\ ServoKnowsRate /\ [Next]_vars => ServoKnowsRate'
  <2> SUFFICES ASSUME KernelInv, ServoKnowsRate, [Next]_vars,
                      pc' = "servo_create"
               PROVE  intial_adj' = -(Rate(freq_clk_id)')
    BY DEF ServoKnowsRate
  <2>1. CASE AdoptFreq
    <3>1. /\ UNCHANGED <<user_hz, freq_clk_id>> /\ pc = "get_freq"
          /\ SetFreq(freq_clk_id, GetFreq(freq_clk_id))
          /\ intial_adj' = -GetFreq(freq_clk_id)
      BY <2>1 DEF AdoptFreq, Goto, clkVars
    <3>2. freq_clk_id \in Clocks
      BY <3>1 DEF KernelInv, ClocksOK
    <3>3. GetFreq(freq_clk_id) = Rate(freq_clk_id)
      BY <3>1, <3>2, AdoptingKeepsRates DEF KernelInv, RangeOK, TickFound
    <3>4. \A clk \in Clocks : Rate(clk)' = Rate(clk)
      BY <3>1, <3>2, AdoptingKeepsRates DEF KernelInv, RangeOK, TickFound
    <3>5. Rate(freq_clk_id)' = Rate(freq_clk_id)
      BY <3>1, <3>2, <3>4 DEF Rate
    <3> QED
      BY <3>1, <3>3, <3>5
  <2>2. CASE UNCHANGED vars
    BY <2>2 DEF ServoKnowsRate, vars, kernelVars, madeVars, clkVars,
                servoConfigVars, Rate
  <2>3. CASE Quiet
    <3>1. pc = "servo_create" /\ UNCHANGED Kept
      BY <2>3, QuietSteps
    <3>2. UNCHANGED <<user_hz, hw, freq_clk_id>>
      BY <3>1 DEF Kept, clkVars
    <3>3. FALSE
      BY <2>3, <3>1 DEF Quiet, Fails, LogInit, Options, ParseConfig, ParseReturns,
                        UdsCreate, TsprocCreate, ServoCreate, Goto
    <3> QED
      BY <3>3
  <2>4. CASE DeviceInit \/ PhcCapsGet \/ SystemClock \/ LoopSetFreq \/ LoopJump
    BY <2>4 DEF DeviceInit, PhcCapsGet, SystemClock, LoopSetFreq, LoopJump,
                AskFreq, Goto
  <2> QED
    BY <2>1, <2>2, <2>3, <2>4 DEF Next, Main, Quiet
<1> QED
  BY <1>1, <1>2, KernelInvariance, PTL DEF Spec

(***************************************************************************)
(* The clock gets every frequency of its range exactly, for every USER_HZ, *)
(* tolerance and max_adj.                                                  *)
(***************************************************************************)
THEOREM ClocksObey ==
    ASSUME \A max \in Nat : Asked(max) \subseteq Int
    PROVE  Spec => []ClockObeys
<1>1. Init => ClockObeys
  BY DEF Init, NoRequest, ClockObeys
<1>2. KernelInv /\ ClockObeys /\ [Next]_vars => ClockObeys'
  <2> SUFFICES ASSUME KernelInv, ClockObeys, [Next]_vars  PROVE ClockObeys'
    OBVIOUS
  <2>1. CASE LoopSetFreq \/ LoopJump
    <3>1. PICK freq \in Asked(max_frequency) :
              AskFreq(freq) /\ request'.freq = {freq}
      BY <2>1 DEF LoopSetFreq, LoopJump
    <3>2. freq \in Int
      BY DEF KernelInv, RangeOK
    <3>3. Rate(freq_clk_id)' = freq
      BY <3>1, <3>2, AskStep
    <3> QED
      BY <3>1, <3>3 DEF ClockObeys
  <2>2. CASE UNCHANGED vars
    BY <2>2 DEF ClockObeys, vars, kernelVars, madeVars, clkVars, historyVars, Rate
  <2>3. CASE Quiet
    <3>1. UNCHANGED <<user_hz, hw, freq_clk_id, request>>
      BY <2>3, QuietSteps DEF Kept, clkVars, historyVars
    <3> QED
      BY <3>1 DEF ClockObeys, Rate
  <2>4. CASE DeviceInit \/ PhcCapsGet \/ SystemClock \/ AdoptFreq
    <3>1. pc # "loop" /\ request' = request
      BY <2>4 DEF DeviceInit, PhcCapsGet, SystemClock, AdoptFreq, Goto, historyVars
    <3>2. request' = NoRequest
      BY <3>1 DEF KernelInv, RequestOK
    <3> QED
      BY <3>2 DEF ClockObeys, NoRequest
  <2> QED
    BY <2>1, <2>2, <2>3, <2>4 DEF Next, Main, Quiet
<1> QED
  BY <1>1, <1>2, KernelInvariance, PTL DEF Spec

(***************************************************************************)
(* The kernel gets the step that was asked for, with tv_usec in its range. *)
(***************************************************************************)
THEOREM StepsAreExact ==
    ASSUME \A max \in Nat : Asked(max) \subseteq Int
    PROVE  Spec => []StepIsExact
<1>1. KernelInv => StepIsExact
  BY StepTimeExact DEF KernelInv, RequestOK, StepIsExact
<1> QED
  BY <1>1, KernelInvariance, PTL

-----------------------------------------------------------------------------
(***************************************************************************)
(* The numbers of the servo's section: of the configuration, and of the    *)
(* union while the section is read.                                        *)
(***************************************************************************)
NumbersOK ==
    /\ token.text.num \in Int /\ token.text.int \in Int
    /\ state = "servo" => \A f \in Members("servo") : pending[f] \in Int
    /\ \A f \in Members("servo") : config["servo"][f] \in Int

\* Once the log file was to be opened
LogOK == config["logging"].use_syslog # 0 => log_fp

ConfigInv == ConfigTypeOK /\ DOMAIN config = Sections /\ NumbersOK

(* What value_range_check() makes of a text for a field of the servo. *)
LEMMA ServoNumber ==
    ASSUME NEW f \in DOMAIN servo_config_tbl, NEW text,
           text.num \in Int, text.int \in Int
    PROVE  Assigned(f, servo_config_tbl[f], Converted(servo_config_tbl[f], text))
               \subseteq Int
<1> DEFINE field == servo_config_tbl[f]
<1>1. \/ field.var_type = "INTEGER" \/ field.var_type = "DOUBLE"
      \/ field = [var_type |-> "ENUM", enum_list |-> servo_types]
  BY DEF servo_config_tbl, Integer, Double, Number, Enum
<1> HIDE DEF field
<1>2. f \in DOMAIN Width => Width[f] \in Nat \ {0}
  BY DEF Width
<1>3. GetKeyVal(text.word, servo_types) \in Int
  <2>1. DOMAIN servo_types = 1 .. 3
    BY DEF servo_types
  <2> QED
    BY <2>1 DEF GetKeyVal
<1>4. Converted(field, text) \in Int
  BY <1>1, <1>3 DEF Converted
<1>5. Assigned(f, field, Converted(field, text)) \subseteq Int
  BY <1>1, <1>2, <1>4 DEF Assigned
<1> QED
  BY <1>5 DEF field

(* A section starts with zeros. *)
LEMMA ClearedServo ==
    /\ DOMAIN Cleared("servo") = Members("servo")
    /\ \A f \in Members("servo") : Cleared("servo")[f] = 0
<1>1. ASSUME NEW f \in DOMAIN servo_config_tbl  PROVE servo_config_tbl[f] # Str
  <2>1. \/ servo_config_tbl[f].var_type = "INTEGER"
        \/ servo_config_tbl[f].var_type = "DOUBLE"
        \/ servo_config_tbl[f].var_type = "ENUM"
    BY DEF servo_config_tbl, Integer, Double, Number, Enum
  <2>2. Str.var_type = "STRING"
    BY DEF Str
  <2> QED
    BY <2>1, <2>2
<1>2. Table("servo") = servo_config_tbl
  BY DEF Table
<1> QED
  BY <1>1, <1>2 DEF Cleared, Members

(* What a scalar of the scanner counts as a number is an integer. *)
LEMMA ScanNumber ==
    ASSUME \A name : TextsOf(name) \subseteq Text,
           token.text.num \in Int, token.text.int \in Int, Scan
    PROVE  token'.text.num \in Int /\ token'.text.int \in Int
<1>1. NoText.num \in Int /\ NoText.int \in Int
  BY DEF NoText
<1>2. CASE ScalarNode
  BY <1>2 DEF ScalarNode, Scalar, Text
<1>3. CASE Name
  BY <1>3 DEF Name, Scalar
<1>4. CASE StreamStart \/ Key \/ Value \/ Entry \/ BlockEnd \/ StreamEnd \/ NoToken
           \/ Starts("mapping", "BLOCK_MAPPING_START")
           \/ Starts("sequence", "BLOCK_SEQUENCE_START")
  <2>1. PICK type : token' = Token(type)
    BY <1>4 DEF StreamStart, Key, Value, Entry, BlockEnd, StreamEnd, NoToken, Starts
  <2> QED
    BY <1>1, <2>1 DEF Token
<1> QED
  BY <1>2, <1>3, <1>4 DEF Scan

(* A field is assigned, or the parse fails. *)
LEMMA UpdateStep ==
    ASSUME ConfigInv, state \in Sections, NEW name, NEW text,
           text.num \in Int, text.int \in Int, Update(state, name, text)
    PROVE  /\ state' \in {state, "failed"}
           /\ DOMAIN pending' = DOMAIN pending
           /\ state = "servo" => \A f \in Members("servo") : pending'[f] \in Int
<1> DEFINE field == Table(state)[name]
           val   == Converted(field, text)
<1> USE DEF ConfigInv, ConfigTypeOK, NumbersOK
<1>1. CASE name \notin DOMAIN Table(state) \/ OutOfRange(field, val)
  BY <1>1 DEF Update
<1>2. CASE ~(name \notin DOMAIN Table(state) \/ OutOfRange(field, val))
  <2>1. state' = state
    BY <1>2 DEF Update
  <2>2. PICK v \in Assigned(name, field, val) :
            pending' = [f \in DOMAIN pending |-> IF f = name THEN v ELSE pending[f]]
    BY <1>2 DEF Update
  <2>3. state = "servo" => v \in Int
    <3> SUFFICES ASSUME state = "servo"  PROVE v \in Int
      OBVIOUS
    <3>1. Table(state) = servo_config_tbl
      BY DEF Table
    <3> QED
      BY <1>2, <2>2, <3>1, ServoNumber
  <2> HIDE DEF field, val
  <2> QED
    BY <2>1, <2>2, <2>3
<1> QED
  BY <1>1, <1>2

(* A section that ends is copied to the configuration, and left. *)
LEMMA SectionEndStep ==
    ASSUME ConfigInv, state \in Sections, SectionEnds
    PROVE  /\ state' = "START_BLOCK"
           /\ DOMAIN config' = Sections
           /\ \A section \in Sections : DOMAIN config'[section] = Members(section)
           /\ \A f \in Members("servo") : config'["servo"][f] \in Int
           /\ ~log_fp /\ LogOK => config'["logging"].use_syslog = 0
<1> USE DEF ConfigInv, ConfigTypeOK, NumbersOK
<1> DEFINE new == IF state = "logging" /\ ~log_fp
                  THEN [pending EXCEPT !.use_syslog = 0] ELSE pending
<1>1. config' = [config EXCEPT ![state] = new] /\ state' = "START_BLOCK"
  BY DEF SectionEnds, ServoUpdateConfig
<1>2. DOMAIN new = Members(state)
  BY DEF ConfigTypeOK
<1>3. "use_syslog" \in Members("logging") /\ {"logging", "servo"} \subseteq Sections
  BY DEF Members, Table, logger_tbl, Dropped, Sections
<1>4. state = "servo" => new = pending
  OBVIOUS
<1>5. state = "logging" /\ ~log_fp => new.use_syslog = 0
  BY <1>3
<1> HIDE DEF new
<1>6. DOMAIN config' = Sections
      /\ \A section \in Sections :
             config'[section] = IF section = state THEN new ELSE config[section]
  BY <1>1
<1> QED
  BY <1>1, <1>2, <1>3, <1>4, <1>5, <1>6 DEF LogOK

(* A round of the parser keeps configuration and union in order. *)
LEMMA ParseStep ==
    ASSUME \A name : TextsOf(name) \subseteq Text,
           ConfigInv, LogOK, Parse \/ ParseError, UNCHANGED log_fp
    PROVE  ConfigInv' /\ LogOK'
<1> USE DEF ConfigInv, ConfigTypeOK
<1>1. CASE ParseError
  BY <1>1 DEF ParseError, yamlVars, NumbersOK, LogOK, Sections
<1>2. CASE Parse
  <2>1. Scan /\ ServoConfigParser /\ Note
    BY <1>2 DEF Parse
  <2>2. token'.text.num \in Int /\ token'.text.int \in Int
    BY <2>1, ScanNumber DEF NumbersOK
  <2>3. plain' \in BOOLEAN
    BY <2>1 DEF Note
  <2>4. CASE state \notin Sections
    <3>1. config' = config /\ UNCHANGED <<key, value>>
      BY <2>1, <2>4 DEF ServoConfigParser
    <3>2. CASE /\ state = "START_BLOCK" /\ token'.type = "BLOCK_MAPPING_START"
               /\ data_key \in Sections
      <4>1. state' = data_key /\ pending' = Cleared(data_key) /\ top_key' = top_key
        BY <2>1, <2>4, <3>2 DEF ServoConfigParser, ParserBlockManagement, OpenSection
      <4>2. DOMAIN pending' = Members(state')
        BY <4>1 DEF Cleared
      <4>3. state' \in Sections /\ top_key' \in BOOLEAN
        BY <3>2, <4>1
      <4>4. state' = "servo" => \A f \in Members("servo") : pending'[f] \in Int
        BY <4>1, ClearedServo
      <4> QED
        BY <2>2, <2>3, <3>1, <4>2, <4>3, <4>4 DEF NumbersOK, LogOK
    <3>3. CASE ~(/\ state = "START_BLOCK" /\ token'.type = "BLOCK_MAPPING_START"
                 /\ data_key \in Sections)
      <4>1. /\ state' \in {state, "START_BLOCK", "STOP_PARSE"}
            /\ top_key' \in BOOLEAN
        BY <2>1, <2>4, <3>3 DEF ServoConfigParser, StartParse, ParserBlockManagement
      <4>2. state' \notin Sections
        BY <2>4, <4>1 DEF Sections
      <4> QED
        BY <2>2, <2>3, <3>1, <4>1, <4>2 DEF NumbersOK, LogOK, Sections
    <3> QED
      BY <3>2, <3>3
  <2>5. CASE state \in Sections
    <3>1. UpdateBlockConfig
      BY <2>1, <2>5 DEF ServoConfigParser, Sections
    <3>2. CASE SectionEnds
      <4>1. /\ state' = "START_BLOCK" /\ DOMAIN config' = Sections
            /\ \A section \in Sections : DOMAIN config'[section] = Members(section)
            /\ \A f \in Members("servo") : config'["servo"][f] \in Int
            /\ ~log_fp => config'["logging"].use_syslog = 0
        BY <2>5, <3>2, SectionEndStep
      <4>2. UNCHANGED <<top_key, key, value>>
        BY <3>2 DEF SectionEnds
      <4>3. state' \notin Sections
        BY <4>1 DEF Sections
      <4> QED
        BY <2>2, <2>3, <4>1, <4>2, <4>3 DEF NumbersOK, LogOK
    <3>3. CASE token'.type = "SCALAR" /\ ~SectionEnds
      <4>1. /\ SectionScalar /\ UNCHANGED <<top_key, key, value, config>>
        BY <3>1, <3>3 DEF UpdateBlockConfig
      <4>2. /\ state' \in {state, "failed"} /\ DOMAIN pending' = DOMAIN pending
            /\ state = "servo" => \A f \in Members("servo") : pending'[f] \in Int
        <5>1. CASE UNCHANGED <<state, pending>>
          BY <5>1 DEF NumbersOK
        <5>2. CASE Update(state, data_key, token'.text)
          BY <2>2, <2>5, <5>2, UpdateStep
        <5> QED
          BY <4>1, <5>1, <5>2 DEF SectionScalar
      <4>3. "failed" \notin Sections
        BY DEF Sections
      <4> QED
        BY <2>2, <2>3, <2>5, <4>1, <4>2, <4>3 DEF NumbersOK, LogOK
    <3>4. CASE token'.type # "SCALAR" /\ ~SectionEnds
      <4>1. UNCHANGED <<state, pending, config>>
            /\ {top_key', key', value'} \subseteq BOOLEAN
        BY <3>1, <3>4 DEF UpdateBlockConfig, parserVars
      <4> QED
        BY <2>2, <2>3, <4>1 DEF NumbersOK, LogOK
    <3> QED
      BY <3>2, <3>3, <3>4
  <2> QED
    BY <2>4, <2>5
<1> QED
  BY <1>1, <1>2

-----------------------------------------------------------------------------
\* servo_create() has derived the gains from the configuration
GainsOK ==
    /\ gains \in [kp : Int, ki : Int]
    /\ pc = "loop" /\ servo_config.type = 0
           => gains = PiSyncInterval(Configured(servo_config))

StartInv ==
    /\ KernelInv /\ ConfigInv /\ LogsToOpenFile /\ GainsOK
    /\ intial_adj \in Int /\ unsync \in BOOLEAN

(* The gains are numbers, and positive if the file lets them be. *)
LEMMA GainsFromConfig ==
    ASSUME NEW cfg, \A f \in Members("servo") : cfg[f] \in Int
    PROVE  /\ PiSyncInterval(Configured(cfg)) \in [kp : Int, ki : Int]
           /\ MayAmplify(cfg) =>
                  /\ PiSyncInterval(Configured(cfg)).kp > 0
                  /\ PiSyncInterval(Configured(cfg)).ki > 0
<1>1. GainFields \subseteq Members("servo")
  BY DEF GainFields, Members, Table, servo_config_tbl, Dropped
<1>2. \A f \in GainFields : cfg[f] \in Int
  BY <1>1
<1> DEFINE p == Configured(cfg)
<1>3. /\ p.kp_scale \in Int /\ p.ki_scale \in Int
      /\ p.kp_norm_max \in Int /\ p.ki_norm_max \in Int
  BY <1>2 DEF GainFields, Configured, GainParameters, HWTS_KP_SCALE, HWTS_KI_SCALE,
      SWTS_KP_SCALE, SWTS_KI_SCALE, MAX_KP_NORM_MAX, MAX_KI_NORM_MAX
<1>4. MayAmplify(cfg) =>
          /\ p.kp_scale > 0 /\ p.ki_scale > 0
          /\ p.kp_norm_max > 0 /\ p.ki_norm_max > 0
  BY <1>2 DEF MayAmplify, GainFields, Configured, ConstantsGiven, ScalesGiven,
      GainParameters, HWTS_KP_SCALE, HWTS_KI_SCALE, SWTS_KP_SCALE, SWTS_KI_SCALE,
      MAX_KP_NORM_MAX, MAX_KI_NORM_MAX
<1> HIDE DEF p
<1>5. PiSyncInterval(p) = [kp |-> AtMost(p.kp_scale, p.kp_norm_max),
                           ki |-> AtMost(p.ki_scale, p.ki_norm_max)]
  BY DEF PiSyncInterval
<1>6. PiSyncInterval(p) \in [kp : Int, ki : Int]
  BY <1>3, <1>5 DEF AtMost
<1>7. MayAmplify(cfg) => PiSyncInterval(p).kp > 0 /\ PiSyncInterval(p).ki > 0
  BY <1>3, <1>4, <1>5 DEF AtMost
<1> QED
  BY <1>6, <1>7 DEF p

(* What the program starts with is in order. *)
LEMMA StartInit == Init => StartInv
<1> SUFFICES ASSUME Init  PROVE StartInv
  OBVIOUS
<1>1. DOMAIN config = Sections
  BY DEF Init, ConfigInit, InitialConfig
<1>2. \A section \in Sections : DOMAIN config[section] = Members(section)
  <2>1. config = InitialConfig
    BY DEF Init, ConfigInit
  <2>2. DOMAIN config["logging"] = Members("logging")
    <3>1. config["logging"] = [logging_level |-> 7, use_syslog |-> 1,
                               msg_tag |-> "servo", use_stdout |-> 1]
      BY <2>1 DEF InitialConfig, Sections
    <3>2. Members("logging") = {"logging_level", "use_syslog", "msg_tag", "use_stdout"}
      BY DEF Members, Table, logger_tbl, Dropped
    <3> QED
      BY <3>1, <3>2
  <2>3. ASSUME NEW section \in Sections \ {"logging"}
        PROVE  DOMAIN config[section] = Members(section)
    BY <2>1 DEF InitialConfig, Cleared
  <2> QED
    BY <2>2, <2>3
<1>3. ConfigTypeOK
  BY <1>2 DEF Init, ConfigInit, ConfigTypeOK, Sections
<1>4. NumbersOK
  <2>1. config["servo"] = Cleared("servo")
    BY DEF Init, ConfigInit, InitialConfig, Sections
  <2>2. token.text.num = 0 /\ token.text.int = 0
    BY DEF Init, ConfigInit, YamlInit, Token, NoText
  <2>3. state # "servo"
    BY DEF Init, ConfigInit
  <2>4. \A f \in Members("servo") : config["servo"][f] = 0
    BY <2>1, ClearedServo
  <2> QED
    BY <2>2, <2>3, <2>4 DEF NumbersOK
<1>5. LogsToOpenFile /\ GainsOK /\ intial_adj \in Int /\ unsync \in BOOLEAN
  BY DEF Init, LogsToOpenFile, GainsOK, NoGains
<1> QED
  BY <1>1, <1>3, <1>4, <1>5, KernelInit DEF StartInv, ConfigInv

(* What a step that reads nothing of the file keeps. *)
LEMMA UnreadStep ==
    ASSUME ConfigInv, UNCHANGED configVars, UNCHANGED log_fp
    PROVE  ConfigInv'
  BY DEF ConfigInv, ConfigTypeOK, NumbersOK, configVars, parserVars, yamlVars

(* Every step keeps what is configured in order. *)
LEMMA StartStep ==
    ASSUME \A max \in Nat : Asked(max) \subseteq Int,
           \A name : TextsOf(name) \subseteq Text,
           StartInv, [Next]_vars
    PROVE  StartInv'
<1> USE DEF StartInv
<1>1. KernelInv'
  BY KernelStep
<1>2. CASE LogInit
  <2>1. /\ SysLogInit /\ UNCHANGED <<parserVars, yamlVars, plain, written>>
        /\ UNCHANGED <<intial_adj, gains, unsync>> /\ pc' = "options"
    BY <1>2 DEF LogInit, Goto, madeVars, kernelVars, servoConfigVars
  <2>2. /\ log_fp' \in BOOLEAN
        /\ config' = IF log_fp' THEN config
                     ELSE [config EXCEPT !["logging"].use_syslog = 0]
    BY <2>1 DEF SysLogInit
  <2>3. "use_syslog" \in Members("logging") /\ {"logging", "servo"} \subseteq Sections
    BY DEF Members, Table, logger_tbl, Dropped, Sections
  <2>4. /\ DOMAIN config' = Sections
        /\ \A section \in Sections : DOMAIN config'[section] = Members(section)
        /\ config'["servo"] = config["servo"]
        /\ ~log_fp' => config'["logging"].use_syslog = 0
    BY <2>2, <2>3 DEF ConfigInv, ConfigTypeOK
  <2>5. ConfigInv'
    BY <2>1, <2>2, <2>4
    DEF ConfigInv, ConfigTypeOK, NumbersOK, parserVars, yamlVars
  <2> QED
    BY <1>1, <2>1, <2>2, <2>4, <2>5 DEF LogsToOpenFile, GainsOK
<1>3. CASE ParseConfig
  <2>1. /\ pc = "servo_config_parse" /\ (Parse \/ ParseError)
        /\ UNCHANGED <<pc, log_fp, intial_adj, gains, unsync>>
    BY <1>3 DEF ParseConfig, madeVars, kernelVars, servoConfigVars
  <2>2. LogOK
    BY <2>1 DEF LogsToOpenFile, LogOK
  <2>3. ConfigInv' /\ LogOK'
    BY <2>1, <2>2, ParseStep
  <2> QED
    BY <1>1, <2>1, <2>3 DEF LogsToOpenFile, LogOK, GainsOK
<1>4. CASE ParseReturns
  <2>1. /\ UNCHANGED <<config, log_fp, state, intial_adj, gains, unsync>>
        /\ ~top_key' /\ ~key' /\ ~value' /\ ~plain'
        /\ {top_key', key', value', plain'} \subseteq BOOLEAN
        /\ token'.text.num = 0 /\ token'.text.int = 0
        /\ pc = "servo_config_parse" /\ pc' # "loop" /\ pc' # "sys_log_init"
        /\ state \in {"STOP_PARSE", "failed"}
    BY <1>4 DEF ParseReturns, Goto, madeVars, kernelVars, servoConfigVars,
                Token, NoText
  <2>2. ConfigInv'
    BY <2>1 DEF ConfigInv, ConfigTypeOK, NumbersOK, Sections
  <2> QED
    BY <1>1, <2>1, <2>2 DEF LogsToOpenFile, GainsOK
<1>5. CASE ServoCreate
  <2>1. /\ UNCHANGED <<configVars, log_fp, intial_adj, unsync>>
        /\ config' = config /\ pc = "servo_create" /\ pc' \in {"loop", "exit"}
        /\ pc' = "loop" => servo_config.type \in 0 .. 2
        /\ gains' = gains
              \/ gains' = PiSyncInterval(Configured(servo_config))
        /\ pc' = "loop" /\ servo_config.type = 0
              => gains' = PiSyncInterval(Configured(servo_config))
    BY <1>5 DEF ServoCreate, Goto, kernelVars, readVars, servoConfigVars, configVars
  <2>2. gains' \in [kp : Int, ki : Int]
    BY <2>1, GainsFromConfig DEF ConfigInv, NumbersOK, GainsOK, servo_config
  <2>3. GainsOK'
    BY <2>1, <2>2 DEF GainsOK, servo_config
  <2> QED
    BY <1>1, <2>1, <2>3, UnreadStep DEF LogsToOpenFile
<1>6. CASE Fails \/ Options \/ UdsCreate \/ TsprocCreate \/ UNCHANGED vars
  <2>1. /\ UNCHANGED <<configVars, log_fp, intial_adj, gains, unsync>>
        /\ config' = config
        /\ pc' = "loop" => pc = "loop"
        /\ pc = "sys_log_init" => pc' = "sys_log_init"
    BY <1>6 DEF Fails, Options, UdsCreate, TsprocCreate, Goto, kernelVars, readVars,
                madeVars, servoConfigVars, configVars, vars
  <2> QED
    BY <1>1, <2>1, UnreadStep DEF LogsToOpenFile, GainsOK, servo_config
<1>7. CASE DeviceInit \/ PhcCapsGet \/ SystemClock
  <2>1. /\ UNCHANGED <<configVars, log_fp, intial_adj, gains>>
        /\ config' = config /\ pc' # "loop" /\ pc # "sys_log_init"
        /\ unsync' \in BOOLEAN
    BY <1>7 DEF DeviceInit, PhcCapsGet, SystemClock, SetLeap, Goto, kernelVars,
                readVars, servoConfigVars, configVars
  <2> QED
    BY <1>1, <2>1, UnreadStep DEF LogsToOpenFile, GainsOK
<1>8. CASE AdoptFreq
  <2>1. /\ UNCHANGED <<configVars, log_fp, unsync, gains>>
        /\ config' = config /\ pc = "get_freq" /\ pc' = "servo_create"
        /\ intial_adj' = -GetFreq(freq_clk_id)
    BY <1>8 DEF AdoptFreq, Goto, readVars, configVars
  <2>2. freq_clk_id \in Clocks
    BY <2>1 DEF KernelInv, ClocksOK
  <2>3. GetFreq(freq_clk_id) \in Int
    BY <2>2, GetFreqInt DEF KernelInv
  <2> QED
    BY <1>1, <2>1, <2>3, UnreadStep DEF LogsToOpenFile, GainsOK
<1>9. CASE LoopSetFreq \/ LoopJump
  <2>1. PICK freq : AskFreq(freq)
    BY <1>9 DEF LoopSetFreq, LoopJump
  <2>2. /\ UNCHANGED <<configVars, log_fp, intial_adj, gains, unsync, pc>>
        /\ config' = config
    BY <2>1 DEF AskFreq, readVars, madeVars, servoConfigVars, configVars
  <2> QED
    BY <1>1, <2>2, UnreadStep DEF LogsToOpenFile, GainsOK, servo_config
<1> QED
  BY <1>2, <1>3, <1>4, <1>5, <1>6, <1>7, <1>8, <1>9 DEF Next, Main

(* The whole start-up stays in order. *)
LEMMA StartInvariance ==
    ASSUME \A max \in Nat : Asked(max) \subseteq Int,
           \A name : TextsOf(name) \subseteq Text
    PROVE  Spec => []StartInv
  BY StartInit, StartStep, PTL DEF Spec

(***************************************************************************)
(* The state of the start-up stays in its domain.                          *)
(***************************************************************************)
THEOREM StartupTypes ==
    ASSUME \A max \in Nat : Asked(max) \subseteq Int,
           \A name : TextsOf(name) \subseteq Text
    PROVE  Spec => []TypeOK
<1>1. StartInv => TypeOK
  <2> SUFFICES ASSUME StartInv  PROVE TypeOK
    OBVIOUS
  <2>1. KernelOK /\ AdjOK /\ ClocksOK /\ RangeOK
    BY DEF StartInv, KernelInv
  <2>2. realtime_hz \in Nat /\ realtime_nominal_tick \in Nat
    BY <2>1, HertzFacts DEF KernelOK, AdjOK
  <2> QED
    BY <2>1, <2>2
    DEF StartInv, ConfigInv, KernelOK, ClocksOK, RangeOK, GainsOK, TypeOK
<1> QED
  BY <1>1, StartInvariance, PTL

(***************************************************************************)
(* The log file that could not be opened is never written to.              *)
(***************************************************************************)
THEOREM LogIsOpen ==
    ASSUME \A max \in Nat : Asked(max) \subseteq Int,
           \A name : TextsOf(name) \subseteq Text
    PROVE  Spec => []LogsToOpenFile
<1>1. StartInv => LogsToOpenFile
  BY DEF StartInv
<1> QED
  BY <1>1, StartInvariance, PTL

(***************************************************************************)
(* The PI servo has positive gains whatever fields for them the file gives.*)
(***************************************************************************)
THEOREM ServoCanSteer ==
    ASSUME \A max \in Nat : Asked(max) \subseteq Int,
           \A name : TextsOf(name) \subseteq Text
    PROVE  Spec => []ServoSteers
<1>1. StartInv => ServoSteers
  BY GainsFromConfig
  DEF StartInv, ConfigInv, NumbersOK, GainsOK, ServoSteers, servo_config
<1> QED
  BY <1>1, StartInvariance, PTL

-----------------------------------------------------------------------------
(***************************************************************************)
(* What the parser knows of a file that consists of sections.  How deep    *)
(* the scanner is in its mappings, and where in the inner one, tells the   *)
(* flags of the parser.                                                    *)
(***************************************************************************)
Places == {"start", "first", "key", "name", "value", "node", "end", "over"}
Names == STRING \union {""}   \* the provers do not find that "" is in STRING
Collections == [coll : {"stream", "mapping"}, at : Places, name : Names]

Depth == Len(open)
At == open[Len(open)].at
InnerName == open[Len(open)].name
FileKey == open[2].name

\* The file is a mapping of mappings
ShapeOK ==
    /\ open \in Seq(Collections) /\ Depth \in 1 .. 3
    /\ open[1].coll = "stream"
    /\ Depth = 1 => At \in {"start", "node", "end", "over"}
    /\ Depth >= 2 =>
           /\ open[1].at = "end" /\ open[2].coll = "mapping"
           /\ At \in {"first", "key", "name", "value", "node"}
    /\ Depth = 3 => open[2].at = "key" /\ open[3].coll = "mapping"

\* The parser is in a section exactly if the scanner is below its name
PlaceOK ==
    /\ state \in Sections \union {"START_PARSE", "START_BLOCK", "STOP_PARSE"}
    /\ state = "START_PARSE" => Depth = 1
    /\ state = "START_BLOCK" /\ Depth = 1 => At = "end"
    /\ state \in Sections => Depth = 3 /\ state = FileKey
    /\ Depth = 3 /\ FileKey \in Sections => state = FileKey
    /\ state = "STOP_PARSE" => Depth = 1 /\ At = "over"

\* Its flags tell the name of a key from the scalar that is its value
FlagsOK ==
    /\ state = "START_BLOCK" /\ Depth >= 2 => (top_key <=> At = "name")
    /\ state = "START_PARSE" => ~top_key
    /\ state \in Sections =>
           /\ ~top_key /\ (key <=> At \in {"name", "value"})
           /\ At = "node" => value
    /\ state \notin Sections => ~key
    /\ Depth >= 2 /\ At \in {"value", "node"} => data_key = InnerName

\* What the member of the section that is read may have been given so far
PendingMay(f) ==
    IF f \notin DOMAIN written[state] THEN {Cleared(state)[f]}
    ELSE LET field == Table(state)[f]
         IN  Assigned(f, field, Converted(field, written[state][f]))

\* What the program may run with
MayMean(section, f) ==
    IF section = "logging" /\ f = "use_syslog" /\ ~log_fp THEN {0}
    ELSE IF section \notin DOMAIN written THEN {InitialConfig[section][f]}
    ELSE IF f \notin DOMAIN written[section] THEN {Cleared(section)[f]}
    ELSE LET field == Table(section)[f]
         IN  Assigned(f, field, Converted(field, written[section][f]))

MeaningOK ==
    /\ DOMAIN written \subseteq Sections
    /\ \A s \in DOMAIN written : DOMAIN written[s] \subseteq DOMAIN Table(s)
    /\ \A s \in Sections \ {state} : \A f \in Members(s) : config[s][f] \in MayMean(s, f)
    /\ state \in Sections =>
           /\ state \in DOMAIN written
           /\ \A f \in Members(state) : pending[f] \in PendingMay(f)

ReadOK == ShapeOK /\ PlaceOK /\ FlagsOK /\ MeaningOK

ReadInv ==
    /\ pc = "sys_log_init" =>
           state = "START_PARSE" /\ config = InitialConfig /\ written = Nothing
    /\ plain /\ state # "failed" =>
           ShapeOK /\ PlaceOK /\ FlagsOK /\ (pc # "sys_log_init" => MeaningOK)

(* The scanner leaves a collection. *)
LEMMA Left ==
    ASSUME NEW s \in Seq(Collections), s # <<>>
    PROVE  /\ Len(s) \in Nat \ {0}
           /\ Front(s) \in Seq(Collections) /\ Len(Front(s)) = Len(s) - 1
           /\ \A i \in 1 .. Len(s) - 1 : Front(s)[i] = s[i]
<1> DEFINE n == Len(s) - 1
<1>1. n \in Nat /\ \A i \in 1 .. n : s[i] \in Collections
  BY LenProperties, EmptySeq
<1> HIDE DEF n
<1>2. /\ SubSeq(s, 1, n) \in Seq(Collections)
      /\ Len(SubSeq(s, 1, n)) = n
      /\ \A i \in 1 .. n : SubSeq(s, 1, n)[i] = s[i]
  BY <1>1, SMT
<1>3. Front(s) = SubSeq(s, 1, n)
  BY DEF Front, n
<1>4. Len(s) \in Nat \ {0}
  BY LenProperties, EmptySeq
<1> QED
  BY <1>2, <1>3, <1>4 DEF n

(* It goes on within one. *)
LEMMA Replaced ==
    ASSUME NEW s \in Seq(Collections), s # <<>>, NEW c \in Collections
    PROVE  /\ Front(s) \o <<c>> \in Seq(Collections)
           /\ Len(Front(s) \o <<c>>) = Len(s)
           /\ (Front(s) \o <<c>>)[Len(s)] = c
           /\ \A i \in 1 .. Len(s) - 1 : (Front(s) \o <<c>>)[i] = s[i]
<1>1. Len(s) \in Nat \ {0}
  BY Left
<1>2. /\ Front(s) \in Seq(Collections) /\ Len(Front(s)) = Len(s) - 1
      /\ \A i \in 1 .. Len(s) - 1 : Front(s)[i] = s[i]
  BY Left
<1>3. <<c>> \in Seq(Collections) /\ Len(<<c>>) = 1 /\ <<c>>[1] = c
  OBVIOUS
<1>4. /\ Len(Front(s) \o <<c>>) = Len(Front(s)) + Len(<<c>>)
      /\ Front(s) \o <<c>> \in Seq(Collections)
      /\ \A i \in 1 .. Len(Front(s)) + Len(<<c>>) :
             (Front(s) \o <<c>>)[i] = IF i <= Len(Front(s)) THEN Front(s)[i]
                                     ELSE <<c>>[i - Len(Front(s))]
  BY <1>2, <1>3, ConcatProperties
<1> QED
  BY <1>1, <1>2, <1>3, <1>4

(* It opens another one. *)
LEMMA Nested ==
    ASSUME NEW s \in Seq(Collections), s # <<>>,
           NEW c \in Collections, NEW d \in Collections
    PROVE  /\ Front(s) \o <<c, d>> \in Seq(Collections)
           /\ Len(Front(s) \o <<c, d>>) = Len(s) + 1
           /\ (Front(s) \o <<c, d>>)[Len(s)] = c
           /\ (Front(s) \o <<c, d>>)[Len(s) + 1] = d
           /\ \A i \in 1 .. Len(s) - 1 : (Front(s) \o <<c, d>>)[i] = s[i]
<1>1. Len(s) \in Nat \ {0}
  BY Left
<1>2. /\ Front(s) \in Seq(Collections) /\ Len(Front(s)) = Len(s) - 1
      /\ \A i \in 1 .. Len(s) - 1 : Front(s)[i] = s[i]
  BY Left
<1>3. <<c, d>> \in Seq(Collections) /\ Len(<<c, d>>) = 2
      /\ <<c, d>>[1] = c /\ <<c, d>>[2] = d
  OBVIOUS
<1> QED
  BY <1>1, <1>2, <1>3, ConcatProperties

\* A token that leaves the scanner at this depth and place
Moves(depth, at) == Depth' = depth /\ At' = at
SameKeys == InnerName' = InnerName /\ (Depth >= 2 => FileKey' = FileKey)

\* What a token says of the scanner's way through a file of sections
TokenMoves ==
    \/ /\ token'.type = "STREAM_START" /\ Depth = 1 /\ At = "start"
       /\ Moves(1, "node")
    \/ /\ token'.type = "KEY" /\ Depth >= 2 /\ At \in {"first", "key", "node"}
       /\ Moves(Depth, "name") /\ SameKeys
    \/ /\ token'.type = "SCALAR" /\ Depth >= 2 /\ At = "name"
       /\ Moves(Depth, "value") /\ InnerName' = token'.text.word
       /\ Depth = 3 => FileKey' = FileKey
    \/ /\ token'.type = "VALUE" /\ Depth >= 2 /\ At = "value"
       /\ Moves(Depth, "node") /\ SameKeys
    \/ /\ token'.type = "SCALAR" /\ Depth >= 2 /\ At = "node"
       /\ Moves(Depth, "key") /\ SameKeys
    \/ /\ token'.type = "SCALAR" /\ Depth = 1 /\ At = "node"
       /\ Moves(1, "end")
    \/ /\ token'.type = "BLOCK_MAPPING_START" /\ Depth = 1 /\ At = "node"
       /\ Moves(2, "first")
    \/ /\ token'.type = "BLOCK_MAPPING_START" /\ Depth = 2 /\ At = "node"
       /\ Moves(3, "first") /\ FileKey' = InnerName
    \/ /\ token'.type = "BLOCK_END" /\ Depth >= 2 /\ At \in {"key", "node"}
       /\ Moves(Depth - 1, IF Depth = 2 THEN "end" ELSE "key")
    \/ /\ token'.type = "STREAM_END" /\ Depth = 1 /\ At \in {"end", "node"}
       /\ Moves(1, "over")
    \/ /\ token'.type = "NO" /\ Depth = 1 /\ At = "over"
       /\ Moves(1, "over")

(* The inner collection: the file, or one of its mappings. *)
LEMMA InnerFacts ==
    ASSUME ShapeOK
    PROVE  /\ open # <<>> /\ open \in Seq(Collections) /\ Len(open) \in 1 .. 3
           /\ \A i \in 1 .. Len(open) : open[i] \in Collections
           /\ Inner = open[Len(open)] /\ Inner \in Collections
           /\ Inner.at = At /\ Inner.name = InnerName
           /\ Depth = 1 => Inner.coll = "stream"
           /\ Depth >= 2 => Inner.coll = "mapping"
<1>1. open # <<>>
  BY EmptySeq DEF ShapeOK, Depth
<1>2. /\ open # <<>> /\ open \in Seq(Collections) /\ Len(open) \in 1 .. 3
      /\ \A i \in 1 .. Len(open) : open[i] \in Collections
  BY <1>1, ElementOfSeq DEF ShapeOK, Depth
<1> QED
  BY <1>2 DEF Inner, Last, At, InnerName, ShapeOK, Depth

(***************************************************************************)
(* As long as no sequence and no mapping deeper than a section is opened,  *)
(* the scanner keeps to this way.                                          *)
(***************************************************************************)
LEMMA ScanMoves ==
    ASSUME \A name : NamesIn(name) \subseteq STRING,
           ShapeOK, Scan,
           token'.type # "BLOCK_SEQUENCE_START",
           token'.type = "BLOCK_MAPPING_START" => Depth \in {1, 2}
    PROVE  ShapeOK' /\ TokenMoves
<1>1. /\ open # <<>> /\ open \in Seq(Collections) /\ Len(open) \in 1 .. 3
      /\ \A i \in 1 .. Len(open) : open[i] \in Collections
  BY InnerFacts
<1>3. \A type : Token(type).type = type
  BY DEF Token
<1>4. /\ Inner = open[Len(open)] /\ Inner \in Collections
      /\ Inner.at = At /\ Inner.name = InnerName
      /\ Depth = 1 => Inner.coll = "stream"
      /\ Depth >= 2 => Inner.coll = "mapping"
  BY InnerFacts
<1>5. ASSUME NEW c \in Collections, open' = Front(open) \o <<c>>,
             c.coll = Inner.coll,
             Depth = 1 => c.at \in {"node", "end", "over"},
             Depth >= 2 => c.at \in {"key", "name", "value", "node"}
      PROVE  /\ ShapeOK' /\ Depth' = Depth /\ At' = c.at /\ InnerName' = c.name
             /\ Depth = 3 => FileKey' = FileKey
             /\ c.name = Inner.name => SameKeys
  <2>1. /\ open' \in Seq(Collections) /\ Len(open') = Len(open)
        /\ open'[Len(open)] = c
        /\ \A i \in 1 .. Len(open) - 1 : open'[i] = open[i]
    BY <1>1, <1>5, Replaced
  <2>2. Depth' = Depth /\ At' = c.at /\ InnerName' = c.name
    BY <2>1 DEF Depth, At, InnerName
  <2>3. CASE Len(open) = 1
    BY <1>1, <1>4, <1>5, <2>1, <2>2, <2>3
    DEF ShapeOK, Depth, At, InnerName, SameKeys
  <2>4. CASE Len(open) = 2
    <3>1. open'[1] = open[1] /\ open'[2] = c
      BY <2>1, <2>4
    <3> QED
      BY <1>1, <1>4, <1>5, <2>1, <2>2, <2>4, <3>1
      DEF ShapeOK, Depth, At, InnerName, SameKeys, FileKey
  <2>5. CASE Len(open) = 3
    <3>1. open'[1] = open[1] /\ open'[2] = open[2] /\ open'[3] = c
      BY <2>1, <2>5
    <3> QED
      BY <1>1, <1>4, <1>5, <2>1, <2>2, <2>5, <3>1
      DEF ShapeOK, Depth, At, InnerName, SameKeys, FileKey
  <2> QED
    BY <1>1, <2>3, <2>4, <2>5
<1>7. Depth \in {1, 2, 3} /\ (Depth = 1 \/ Depth >= 2)
  BY DEF ShapeOK
<1>6. ASSUME NEW at, Goes(at),
             Depth = 1 => at \in {"node", "end", "over"},
             Depth >= 2 => at \in {"key", "name", "value", "node"}
      PROVE  ShapeOK' /\ Moves(Depth, at) /\ SameKeys
  <2> DEFINE c == [Inner EXCEPT !.at = at]
  <2>0. at \in Places
    BY <1>6, <1>7 DEF Places
  <2>1. c \in Collections /\ c.coll = Inner.coll /\ c.at = at /\ c.name = Inner.name
    BY <1>4, <2>0 DEF Collections
  <2>2. open' = Front(open) \o <<c>>
    BY <1>6 DEF Goes
  <2> HIDE DEF c
  <2> QED
    BY <1>5, <1>6, <2>1, <2>2 DEF Moves
<1>8. /\ Depth = 1 => At \in {"start", "node", "end", "over"}
      /\ Depth >= 2 => At \in {"first", "key", "name", "value", "node"}
  BY DEF ShapeOK
<1>9. CASE StreamStart
  <2>1. At = "start" /\ Goes("node") /\ token'.type = "STREAM_START"
    BY <1>3, <1>4, <1>9 DEF StreamStart
  <2>2. Depth = 1
    BY <1>7, <1>8, <2>1
  <2> QED
    BY <1>6, <2>1, <2>2 DEF TokenMoves
<1>10. CASE Key
  <2>1. /\ Inner.coll = "mapping" /\ At \in {"first", "key", "node"}
        /\ Goes("name") /\ token'.type = "KEY"
    BY <1>3, <1>4, <1>10 DEF Key, Behind
  <2>2. Depth >= 2
    BY <1>4, <1>7, <2>1
  <2>3. ShapeOK' /\ Moves(Depth, "name") /\ SameKeys
    BY <1>6, <1>7, <2>1, <2>2
  <2> QED
    BY <2>1, <2>2, <2>3 DEF TokenMoves
<1>11. CASE Name
  <2>1. At = "name" /\ Depth >= 2
    BY <1>4, <1>7, <1>8, <1>11 DEF Name
  <2>2. PICK name \in NamesIn(open[Len(open) - 1].name) :
            /\ token' = Scalar([word |-> name, int |-> 0, num |-> 0])
            /\ open' = Front(open) \o <<Collection("mapping", "value", name)>>
    BY <1>11 DEF Name
  <2>3. name \in Names
    <3>1. name \in STRING
      BY <2>2
    <3> QED
      BY <3>1, Zenon DEF Names
  <2>4. token'.type = "SCALAR" /\ token'.text.word = name
    BY <2>2 DEF Scalar
  <2> DEFINE c == Collection("mapping", "value", name)
  <2>5. c \in Collections /\ c.coll = "mapping" /\ c.at = "value" /\ c.name = name
    BY <2>3 DEF Collection, Collections, Places
  <2>6. open' = Front(open) \o <<c>>
    BY <2>2
  <2> HIDE DEF c
  <2>7. /\ ShapeOK' /\ Depth' = Depth /\ At' = "value" /\ InnerName' = name
        /\ Depth = 3 => FileKey' = FileKey
    BY <1>4, <1>5, <1>7, <2>1, <2>5, <2>6
  <2> QED
    BY <2>1, <2>4, <2>7 DEF TokenMoves, Moves
<1>12. CASE Value
  <2>1. At = "value" /\ Goes("node") /\ token'.type = "VALUE"
    BY <1>3, <1>4, <1>12 DEF Value
  <2>2. Depth >= 2
    BY <1>7, <1>8, <2>1
  <2>3. ShapeOK' /\ Moves(Depth, "node") /\ SameKeys
    BY <1>6, <1>7, <2>1, <2>2
  <2> QED
    BY <2>1, <2>2, <2>3 DEF TokenMoves
<1>13. CASE Entry
  BY <1>4, <1>7, <1>13 DEF Entry
<1>14. CASE ScalarNode
  <2>1. /\ At = "node" /\ Goes(AfterNode(Inner.coll))
        /\ token'.type = "SCALAR"
    BY <1>4, <1>14 DEF ScalarNode, Scalar
  <2>2. CASE Depth = 1
    <3>1. Goes("end")
      BY <1>4, <2>1, <2>2 DEF AfterNode
    <3>2. ShapeOK' /\ Moves(Depth, "end")
      BY <1>6, <1>7, <2>2, <3>1
    <3> QED
      BY <2>1, <2>2, <3>2 DEF TokenMoves
  <2>3. CASE Depth >= 2
    <3>1. Goes("key")
      BY <1>4, <2>1, <2>3 DEF AfterNode
    <3>2. ShapeOK' /\ Moves(Depth, "key") /\ SameKeys
      BY <1>6, <1>7, <2>3, <3>1
    <3> QED
      BY <2>1, <2>3, <3>2 DEF TokenMoves
  <2> QED
    BY <1>7, <2>2, <2>3
<1>15. CASE Starts("mapping", "BLOCK_MAPPING_START")
  <2>1. /\ At = "node" /\ token'.type = "BLOCK_MAPPING_START"
        /\ open' = Front(open) \o <<[Inner EXCEPT !.at = AfterNode(Inner.coll)],
                                    Collection("mapping", "first", Inner.name)>>
    BY <1>3, <1>4, <1>15 DEF Starts
  <2>2. Depth = 1 \/ Depth = 2
    BY <2>1
  <2>3. AfterNode(Inner.coll) = IF Depth = 1 THEN "end" ELSE "key"
    BY <1>4, <2>2 DEF AfterNode
  <2> DEFINE c == [Inner EXCEPT !.at = AfterNode(Inner.coll)]
             d == Collection("mapping", "first", Inner.name)
  <2>4. /\ c \in Collections /\ c.coll = Inner.coll /\ c.name = Inner.name
        /\ c.at = IF Depth = 1 THEN "end" ELSE "key"
    BY <1>4, <2>3 DEF Collections, Places
  <2>5. Inner.name \in Names /\ Inner = [coll |-> Inner.coll, at |-> Inner.at,
                                         name |-> Inner.name]
    BY <1>4 DEF Collections
  <2>6. d \in Collections /\ d.coll = "mapping" /\ d.at = "first" /\ d.name = Inner.name
    BY <2>5 DEF Collection, Collections, Places
  <2>7. open' = Front(open) \o <<c, d>>
    BY <2>1
  <2> HIDE DEF c, d
  <2>8. /\ open' \in Seq(Collections) /\ Len(open') = Len(open) + 1
        /\ open'[Len(open)] = c /\ open'[Len(open) + 1] = d
        /\ \A i \in 1 .. Len(open) - 1 : open'[i] = open[i]
    BY <1>1, <2>4, <2>6, <2>7, Nested
  <2>9. CASE Depth = 1
    <3>1. Len(open') = 2 /\ open'[1] = c /\ open'[2] = d
      BY <2>8, <2>9 DEF Depth
    <3>2. ShapeOK' /\ Moves(2, "first")
      BY <1>4, <2>4, <2>6, <2>8, <2>9, <3>1 DEF ShapeOK, Depth, At, Moves
    <3> QED
      BY <2>1, <2>9, <3>2 DEF TokenMoves
  <2>10. CASE Depth = 2
    <3>1. /\ Len(open') = 3 /\ open'[1] = open[1] /\ open'[2] = c /\ open'[3] = d
          /\ open[1].coll = "stream" /\ open[1].at = "end"
      BY <2>8, <2>10 DEF Depth, ShapeOK
    <3>2. ShapeOK' /\ Moves(3, "first") /\ FileKey' = InnerName
      BY <1>4, <2>4, <2>6, <2>8, <2>10, <3>1
      DEF ShapeOK, Depth, At, Moves, FileKey
    <3> QED
      BY <2>1, <2>10, <3>2 DEF TokenMoves
  <2> QED
    BY <2>2, <2>9, <2>10
<1>16. CASE Starts("sequence", "BLOCK_SEQUENCE_START")
  BY <1>3, <1>16 DEF Starts
<1>17. CASE BlockEnd
  <2>1. /\ Depth >= 2 /\ At \in {"key", "node"} /\ token'.type = "BLOCK_END"
        /\ open' = Front(open)
    BY <1>3, <1>4, <1>7, <1>17 DEF BlockEnd, Behind
  <2>2. /\ open' \in Seq(Collections) /\ Len(open') = Len(open) - 1
        /\ \A i \in 1 .. Len(open) - 1 : open'[i] = open[i]
    BY <1>1, <2>1, Left
  <2>3. CASE Depth = 2
    <3>1. Len(open') = 1 /\ open'[1] = open[1]
      BY <2>2, <2>3 DEF Depth
    <3>2. ShapeOK' /\ Moves(1, "end")
      BY <2>2, <2>3, <3>1 DEF ShapeOK, Depth, At, Moves
    <3> QED
      BY <2>1, <2>3, <3>2 DEF TokenMoves
  <2>4. CASE Depth = 3
    <3>1. Len(open') = 2 /\ open'[1] = open[1] /\ open'[2] = open[2]
      BY <2>2, <2>4 DEF Depth
    <3>2. ShapeOK' /\ Moves(2, "key")
      BY <2>2, <2>4, <3>1 DEF ShapeOK, Depth, At, Moves
    <3> QED
      BY <2>1, <2>4, <3>2 DEF TokenMoves
  <2> QED
    BY <1>7, <2>1, <2>3, <2>4
<1>18. CASE StreamEnd
  <2>1. /\ Inner.coll = "stream" /\ At \in {"end", "node"} /\ Goes("over")
        /\ token'.type = "STREAM_END"
    BY <1>3, <1>4, <1>18 DEF StreamEnd, Behind
  <2>2. Depth = 1
    BY <1>4, <1>7, <2>1
  <2>3. ShapeOK' /\ Moves(Depth, "over")
    BY <1>6, <2>1, <2>2
  <2> QED
    BY <2>1, <2>2, <2>3 DEF TokenMoves
<1>19. CASE NoToken
  <2>1. At = "over" /\ open' = open /\ token'.type = "NO"
    BY <1>3, <1>4, <1>19 DEF NoToken
  <2>2. Depth = 1
    BY <1>7, <1>8, <2>1
  <2>3. ShapeOK' /\ Moves(1, "over")
    BY <2>1, <2>2 DEF ShapeOK, Depth, At, Moves
  <2> QED
    BY <2>1, <2>2, <2>3 DEF TokenMoves
<1> QED
  BY <1>9, <1>10, <1>11, <1>12, <1>13, <1>14, <1>15, <1>16, <1>17, <1>18, <1>19
  DEF Scan

Put(f, n, v) == [m \in DOMAIN f \union {n} |-> IF m = n THEN v ELSE f[m]]

(* What the token adds to what the file of sections says. *)
LEMMA NoteMoves ==
    ASSUME ShapeOK, Note, plain'
    PROVE  /\ token'.type # "BLOCK_SEQUENCE_START"
           /\ token'.type = "BLOCK_MAPPING_START" => Depth \in {1, 2}
           /\ written' =
                  IF /\ token'.type = "BLOCK_MAPPING_START"
                     /\ Depth = 2 /\ InnerName \in Sections
                  THEN Put(written, InnerName, Nothing)
                  ELSE IF /\ token'.type = "SCALAR" /\ At = "node"
                          /\ Depth = 3 /\ FileKey \in DOMAIN written
                  THEN Put(written, FileKey,
                           Put(written[FileKey], InnerName, token'.text))
                  ELSE written
<1>1. /\ Inner.at = At /\ Inner.name = InnerName
      /\ Depth >= 2 => Inner.coll = "mapping"
  BY InnerFacts
<1>2. BelowFileKey <=> Depth = 2
  <2>1. Depth = 2 => Inner.coll = "mapping"
    BY <1>1
  <2> QED
    BY <2>1 DEF BelowFileKey, Depth
<1>3. /\ token'.type # "BLOCK_SEQUENCE_START"
      /\ token'.type = "BLOCK_MAPPING_START" => Depth \in {1, 2}
  BY <1>2 DEF Note, Depth
<1> QED
  BY <1>1, <1>2, <1>3 DEF Note, Put, FileKey, Depth

(* What a value may be depends only on what its section says. *)
LEMMA SameMeaning ==
    ASSUME NEW s, NEW f, log_fp' = log_fp,
           s \in DOMAIN written' <=> s \in DOMAIN written,
           s \in DOMAIN written => written'[s] = written[s]
    PROVE  MayMean(s, f)' = MayMean(s, f)
  BY DEF MayMean

(* A step outside the sections that opens none. *)
LEMMA SamePlain ==
    ASSUME MeaningOK, log_fp' = log_fp, written' = written, config' = config,
           state' \notin Sections, state \notin Sections
    PROVE  MeaningOK'
  BY SameMeaning DEF MeaningOK

(* Before the first mapping of the file. *)
LEMMA ReadStart ==
    ASSUME ReadOK, Parse, plain, plain', log_fp' = log_fp, TokenMoves,
           state = "START_PARSE"
    PROVE  PlaceOK' /\ FlagsOK' /\ MeaningOK'
<1> USE DEF ReadOK
<1>1. Depth = 1 /\ "START_PARSE" \notin Sections /\ "START_BLOCK" \notin Sections
  BY DEF PlaceOK, Sections
<1>2. /\ state' = IF token'.type = "BLOCK_MAPPING_START" THEN "START_BLOCK"
                  ELSE state
      /\ UNCHANGED <<data_key, pending, top_key, key, value, config>>
  BY <1>1 DEF Parse, ServoConfigParser, StartParse
<1>3. written' = written
  BY <1>1, NoteMoves DEF Parse
<1>4. MeaningOK'
  BY <1>1, <1>2, <1>3, SamePlain
<1>5. \/ token'.type # "BLOCK_MAPPING_START" /\ Depth' = 1
      \/ token'.type = "BLOCK_MAPPING_START" /\ Depth' = 2 /\ At' = "first"
  BY <1>1 DEF TokenMoves, Moves
<1>6. PlaceOK'
  BY <1>1, <1>2, <1>5 DEF PlaceOK
<1>7. FlagsOK'
  BY <1>1, <1>2, <1>5 DEF FlagsOK
<1> QED
  BY <1>4, <1>6, <1>7

(* Between the sections: a mapping below the name of one opens it. *)
LEMMA ReadBetween ==
    ASSUME ReadOK, Parse, plain, plain', log_fp' = log_fp, TokenMoves, ConfigTypeOK,
           state = "START_BLOCK"
    PROVE  PlaceOK' /\ FlagsOK' /\ MeaningOK'
<1> USE DEF ReadOK
<1>1. /\ "START_PARSE" \notin Sections /\ "START_BLOCK" \notin Sections
      /\ "STOP_PARSE" \notin Sections
  BY DEF Sections
<1>2. ParserBlockManagement /\ UNCHANGED <<key, value, config>> /\ ~key
  BY <1>1 DEF Parse, ServoConfigParser, FlagsOK
<1>3. /\ Depth = 1 => At = "end"
      /\ Depth = 3 => FileKey \notin Sections
      /\ Depth \in {1, 2, 3}
      /\ Depth >= 2 => (top_key <=> At = "name")
      /\ Depth >= 2 /\ At \in {"value", "node"} => data_key = InnerName
      /\ top_key \in BOOLEAN
  BY <1>1 DEF PlaceOK, FlagsOK, ShapeOK, ConfigTypeOK
<1>4. DOMAIN written \subseteq Sections
  BY DEF MeaningOK
<1>5. CASE token'.type = "BLOCK_MAPPING_START" /\ InnerName \in Sections
  <2>1. Depth = 2 /\ At = "node" /\ Moves(3, "first") /\ FileKey' = InnerName
    BY <1>3, <1>5 DEF TokenMoves
  <2>2. data_key = InnerName /\ ~top_key
    BY <1>3, <2>1
  <2>3. /\ state' = InnerName /\ pending' = Cleared(InnerName)
        /\ UNCHANGED <<data_key, top_key>>
    BY <1>2, <1>5, <2>2 DEF ParserBlockManagement, OpenSection
  <2>4. written' = Put(written, InnerName, Nothing)
    BY <1>5, <2>1, NoteMoves DEF Parse
  <2>5. PlaceOK'
    BY <1>1, <1>5, <2>1, <2>3 DEF PlaceOK, Moves
  <2>6. FlagsOK'
    BY <1>1, <1>2, <1>5, <2>1, <2>2, <2>3 DEF FlagsOK, Moves
  <2>7. /\ DOMAIN written' = DOMAIN written \union {InnerName}
        /\ DOMAIN Nothing = {} /\ written'[InnerName] = Nothing
        /\ \A s \in DOMAIN written \ {InnerName} : written'[s] = written[s]
    BY <2>4 DEF Put, Nothing
  <2>8. ASSUME NEW s \in Sections \ {state'}, NEW f \in Members(s)
        PROVE  config'[s][f] \in MayMean(s, f)'
    <3>1. MayMean(s, f)' = MayMean(s, f)
      BY <2>3, <2>7, <2>8, SameMeaning
    <3> QED
      BY <1>1, <1>2, <2>8, <3>1 DEF MeaningOK
  <2>9. \A f \in Members(state') : pending'[f] \in PendingMay(f)'
    BY <2>3, <2>7 DEF PendingMay
  <2>10. \A s \in DOMAIN written' : DOMAIN written'[s] \subseteq DOMAIN Table(s)
    BY <2>7 DEF MeaningOK
  <2> QED
    BY <1>4, <1>5, <2>3, <2>5, <2>6, <2>7, <2>8, <2>9, <2>10 DEF MeaningOK
<1>6. CASE token'.type = "BLOCK_MAPPING_START" /\ InnerName \notin Sections
  <2>1. Depth = 2 /\ At = "node" /\ Moves(3, "first") /\ FileKey' = InnerName
    BY <1>3, <1>6 DEF TokenMoves
  <2>2. data_key = InnerName /\ ~top_key
    BY <1>3, <2>1
  <2>3. UNCHANGED <<state, data_key, pending, top_key>>
    BY <1>2, <1>6, <2>2 DEF ParserBlockManagement
  <2>4. written' = written
    BY <1>6, NoteMoves DEF Parse
  <2>5. PlaceOK'
    BY <1>1, <1>6, <2>1, <2>3 DEF PlaceOK, Moves
  <2>6. FlagsOK'
    BY <1>1, <1>2, <2>1, <2>2, <2>3 DEF FlagsOK, Moves
  <2> QED
    BY <1>1, <1>2, <2>3, <2>4, <2>5, <2>6, SamePlain
<1>7. CASE token'.type # "BLOCK_MAPPING_START"
  <2>1. written' = written
    BY <1>3, <1>4, <1>7, NoteMoves DEF Parse
  <2>2. CASE token'.type = "STREAM_END"
    <3>1. Moves(1, "over")
      BY <2>2 DEF TokenMoves
    <3>2. state' = "STOP_PARSE" /\ UNCHANGED <<data_key, pending, top_key>>
      BY <1>2, <2>2 DEF ParserBlockManagement
    <3>3. PlaceOK' /\ FlagsOK'
      BY <1>1, <1>2, <3>1, <3>2 DEF PlaceOK, FlagsOK, Moves
    <3> QED
      BY <1>1, <1>2, <2>1, <3>2, <3>3, SamePlain
  <2>3. CASE token'.type = "KEY"
    <3>1. Depth >= 2 /\ Moves(Depth, "name") /\ SameKeys
      BY <2>3 DEF TokenMoves
    <3>2. top_key' = TRUE /\ UNCHANGED <<state, data_key, pending>>
      BY <1>2, <2>3 DEF ParserBlockManagement
    <3>3. PlaceOK' /\ FlagsOK'
      BY <1>1, <1>2, <1>3, <3>1, <3>2 DEF PlaceOK, FlagsOK, Moves, SameKeys
    <3> QED
      BY <1>1, <1>2, <2>1, <3>2, <3>3, SamePlain
  <2>4. CASE token'.type = "SCALAR" /\ At = "name"
    <3>1. /\ Depth >= 2 /\ Moves(Depth, "value") /\ InnerName' = token'.text.word
          /\ Depth = 3 => FileKey' = FileKey
      BY <1>3, <2>4 DEF TokenMoves
    <3>2. /\ data_key' = token'.text.word /\ top_key' = FALSE
          /\ UNCHANGED <<state, pending>>
      BY <1>2, <1>3, <2>4, <3>1 DEF ParserBlockManagement
    <3>3. PlaceOK' /\ FlagsOK'
      BY <1>1, <1>2, <1>3, <3>1, <3>2 DEF PlaceOK, FlagsOK, Moves
    <3> QED
      BY <1>1, <1>2, <2>1, <3>2, <3>3, SamePlain
  <2>5. CASE token'.type = "SCALAR" /\ At # "name"
    <3>1. Depth >= 2 /\ At = "node" /\ Moves(Depth, "key") /\ SameKeys
      BY <1>3, <2>5 DEF TokenMoves
    <3>2. UNCHANGED <<state, data_key, pending, top_key>>
      BY <1>2, <1>3, <2>5, <3>1 DEF ParserBlockManagement
    <3>3. PlaceOK' /\ FlagsOK'
      BY <1>1, <1>2, <1>3, <3>1, <3>2 DEF PlaceOK, FlagsOK, Moves, SameKeys
    <3> QED
      BY <1>1, <1>2, <2>1, <3>2, <3>3, SamePlain
  <2>6. CASE token'.type = "VALUE"
    <3>1. Depth >= 2 /\ At = "value" /\ Moves(Depth, "node") /\ SameKeys
      BY <2>6 DEF TokenMoves
    <3>2. UNCHANGED <<state, data_key, pending, top_key>>
      BY <1>2, <2>6 DEF ParserBlockManagement
    <3>3. PlaceOK' /\ FlagsOK'
      BY <1>1, <1>2, <1>3, <3>1, <3>2 DEF PlaceOK, FlagsOK, Moves, SameKeys
    <3> QED
      BY <1>1, <1>2, <2>1, <3>2, <3>3, SamePlain
  <2>7. CASE token'.type = "BLOCK_END"
    <3>1. /\ Depth >= 2 /\ At \in {"key", "node"}
          /\ Moves(Depth - 1, IF Depth = 2 THEN "end" ELSE "key")
      BY <2>7 DEF TokenMoves
    <3>2. UNCHANGED <<state, data_key, pending, top_key>> /\ ~top_key
      BY <1>2, <1>3, <2>7, <3>1 DEF ParserBlockManagement
    <3>3. \/ Depth' = 1 /\ At' = "end"
          \/ Depth' = 2 /\ At' = "key"
      BY <1>3, <3>1 DEF Moves
    <3>4. PlaceOK' /\ FlagsOK'
      BY <1>1, <1>2, <3>2, <3>3 DEF PlaceOK, FlagsOK
    <3> QED
      BY <1>1, <1>2, <2>1, <3>2, <3>4, SamePlain
  <2> QED
    BY <1>3, <1>7, <2>2, <2>3, <2>4, <2>5, <2>6, <2>7 DEF TokenMoves
<1> QED
  BY <1>5, <1>6, <1>7

(* In a section: names and values by turns, and the end. *)
LEMMA ReadSection ==
    ASSUME ReadOK, Parse, plain, plain', log_fp' = log_fp, TokenMoves, ConfigInv,
           state \in Sections, state' # "failed"
    PROVE  PlaceOK' /\ FlagsOK' /\ MeaningOK'
<1> USE DEF ReadOK
<1>1. /\ "START_PARSE" \notin Sections /\ "START_BLOCK" \notin Sections
      /\ "STOP_PARSE" \notin Sections
      /\ state # "START_PARSE" /\ state # "START_BLOCK" /\ state # "STOP_PARSE"
  BY DEF Sections
<1>2. /\ Depth = 3 /\ state = FileKey /\ ~top_key
      /\ key <=> At \in {"name", "value"}
      /\ At = "node" => value
      /\ At \in {"value", "node"} => data_key = InnerName
      /\ {key, value, top_key} \subseteq BOOLEAN
  BY DEF PlaceOK, FlagsOK, ConfigInv, ConfigTypeOK
<1>3. UpdateBlockConfig
  BY <1>1 DEF Parse, ServoConfigParser
<1>4. /\ DOMAIN written \subseteq Sections /\ state \in DOMAIN written
      /\ \A s \in DOMAIN written : DOMAIN written[s] \subseteq DOMAIN Table(s)
      /\ \A f \in Members(state) : pending[f] \in PendingMay(f)
  BY DEF MeaningOK
<1>5. ASSUME ~(token'.type = "SCALAR" /\ At = "node")
      PROVE  written' = written
  BY <1>2, <1>5, NoteMoves DEF Parse
<1>6. ASSUME Depth' = 3, FileKey' = FileKey, UNCHANGED <<state, pending, config>>,
             written' = written
      PROVE  PlaceOK' /\ MeaningOK'
  <2>1. PlaceOK'
    BY <1>1, <1>2, <1>6 DEF PlaceOK
  <2>2. ASSUME NEW s, NEW f  PROVE MayMean(s, f)' = MayMean(s, f)
    BY <1>6, SameMeaning
  <2>3. ASSUME NEW f  PROVE PendingMay(f)' = PendingMay(f)
    BY <1>6 DEF PendingMay
  <2> QED
    BY <1>6, <2>1, <2>2, <2>3 DEF MeaningOK
<1>7. CASE token'.type = "KEY"
  <2>1. Moves(3, "name") /\ FileKey' = FileKey
    BY <1>2, <1>7 DEF TokenMoves, SameKeys
  <2>2. key' = TRUE /\ UNCHANGED <<state, data_key, pending, top_key, value, config>>
    BY <1>3, <1>7 DEF UpdateBlockConfig, SectionEnds
  <2>3. FlagsOK'
    BY <1>1, <1>2, <2>1, <2>2 DEF FlagsOK, Moves
  <2> QED
    BY <1>5, <1>6, <1>7, <2>1, <2>2, <2>3 DEF Moves
<1>8. CASE token'.type = "VALUE"
  <2>1. /\ At = "value" /\ Moves(3, "node") /\ FileKey' = FileKey
        /\ InnerName' = InnerName
    BY <1>2, <1>8 DEF TokenMoves, SameKeys
  <2>2. /\ key' = FALSE /\ value' = (key \/ value)
        /\ UNCHANGED <<state, data_key, pending, top_key, config>>
    BY <1>3, <1>8 DEF UpdateBlockConfig, SectionEnds
  <2>3. key = TRUE /\ value' = TRUE
    BY <1>2, <2>1, <2>2
  <2>4. FlagsOK'
    BY <1>1, <1>2, <2>1, <2>2, <2>3 DEF FlagsOK, Moves
  <2> QED
    BY <1>5, <1>6, <1>8, <2>1, <2>2, <2>4 DEF Moves
<1>9. CASE token'.type = "SCALAR" /\ At = "name"
  <2>1. Moves(3, "value") /\ InnerName' = token'.text.word /\ FileKey' = FileKey
    BY <1>2, <1>9 DEF TokenMoves
  <2>2. /\ data_key' = token'.text.word
        /\ UNCHANGED <<state, pending, top_key, key, value, config>>
    BY <1>2, <1>3, <1>9 DEF UpdateBlockConfig, SectionScalar, SectionEnds
  <2>3. FlagsOK'
    BY <1>1, <1>2, <1>9, <2>1, <2>2 DEF FlagsOK, Moves
  <2> QED
    BY <1>5, <1>6, <1>9, <2>1, <2>2, <2>3 DEF Moves
<1>10. CASE token'.type = "SCALAR" /\ At # "name"
  <2>1. At = "node" /\ Moves(3, "key") /\ InnerName' = InnerName /\ FileKey' = FileKey
    BY <1>2, <1>10 DEF TokenMoves, SameKeys
  <2>2. ~key /\ value /\ data_key = InnerName
    BY <1>2, <2>1
  <2>3. /\ data_key' = data_key /\ Update(state, InnerName, token'.text)
        /\ UNCHANGED <<top_key, key, value, config>>
    BY <1>3, <1>10, <2>2 DEF UpdateBlockConfig, SectionScalar
  <2> DEFINE field == Table(state)[InnerName]
             val   == Converted(field, token'.text)
  <2>4. InnerName \in DOMAIN Table(state) /\ state' = state
    BY <2>3 DEF Update
  <2>5. PICK v \in Assigned(InnerName, field, val) :
            pending' = [f \in DOMAIN pending |-> IF f = InnerName THEN v ELSE pending[f]]
    BY <2>3, <2>4 DEF Update
  <2>6. written' = Put(written, state, Put(written[state], InnerName, token'.text))
    BY <1>2, <1>4, <1>10, <2>1, NoteMoves DEF Parse
  <2>7. /\ DOMAIN written' = DOMAIN written
        /\ DOMAIN written'[state] = DOMAIN written[state] \union {InnerName}
        /\ written'[state][InnerName] = token'.text
        /\ \A f \in DOMAIN written[state] \ {InnerName} :
               written'[state][f] = written[state][f]
        /\ \A s \in DOMAIN written \ {state} : written'[s] = written[s]
    BY <1>4, <2>6 DEF Put
  <2>8. ASSUME NEW f \in Members(state)  PROVE pending'[f] \in PendingMay(f)'
    <3>1. DOMAIN pending = Members(state)
      BY DEF ConfigInv, ConfigTypeOK
    <3>2. CASE f = InnerName
      <4>1. PendingMay(f)' = Assigned(f, field, val)
        BY <2>4, <2>7, <3>2 DEF PendingMay
      <4> QED
        BY <2>5, <2>8, <3>1, <3>2, <4>1
    <3>3. CASE f # InnerName
      <4>1. PendingMay(f)' = PendingMay(f)
        BY <2>4, <2>7, <3>3 DEF PendingMay
      <4>2. pending'[f] = pending[f]
        BY <2>5, <2>8, <3>1, <3>3
      <4> QED
        BY <1>4, <2>8, <4>1, <4>2
    <3> QED
      BY <3>2, <3>3
  <2> HIDE DEF field, val
  <2>9. ASSUME NEW s \in Sections \ {state}, NEW f \in Members(s)
        PROVE  config'[s][f] \in MayMean(s, f)'
    <3>1. MayMean(s, f)' = MayMean(s, f)
      BY <2>7, <2>9, SameMeaning
    <3> QED
      BY <2>3, <2>9, <3>1 DEF MeaningOK
  <2>10. MeaningOK'
    BY <1>4, <2>4, <2>7, <2>8, <2>9 DEF MeaningOK
  <2>11. PlaceOK' /\ FlagsOK'
    BY <1>1, <1>2, <2>1, <2>2, <2>3, <2>4 DEF PlaceOK, FlagsOK, Moves
  <2> QED
    BY <2>10, <2>11
<1>11. CASE token'.type = "BLOCK_END"
  <2>1. At \in {"key", "node"} /\ Moves(2, "key")
    BY <1>2, <1>11 DEF TokenMoves
  <2>2. /\ ServoUpdateConfig /\ state' = "START_BLOCK"
        /\ UNCHANGED <<data_key, pending, top_key, key, value>> /\ ~key
    BY <1>2, <1>3, <1>11, <2>1 DEF UpdateBlockConfig, SectionEnds
  <2>3. written' = written
    BY <1>5, <1>11
  <2>4. PlaceOK' /\ FlagsOK'
    BY <1>1, <1>2, <2>1, <2>2 DEF PlaceOK, FlagsOK, Moves
  <2> DEFINE new == IF state = "logging" /\ ~log_fp
                    THEN [pending EXCEPT !.use_syslog = 0] ELSE pending
  <2>5. \A s \in Sections : config'[s] = IF s = state THEN new ELSE config[s]
    BY <2>2 DEF ServoUpdateConfig, ConfigInv
  <2>6. ASSUME NEW f \in Members(state)  PROVE new[f] \in MayMean(state, f)
    <3>1. DOMAIN pending = Members(state) /\ pending[f] \in PendingMay(f)
      BY <1>4, <2>6 DEF ConfigInv, ConfigTypeOK
    <3>2. CASE state = "logging" /\ f = "use_syslog" /\ ~log_fp
      BY <3>1, <3>2 DEF MayMean
    <3>3. CASE ~(state = "logging" /\ f = "use_syslog" /\ ~log_fp)
      <4>1. MayMean(state, f) = PendingMay(f)
        BY <1>4, <3>3 DEF MayMean, PendingMay
      <4>2. new[f] = pending[f]
        BY <2>6, <3>1, <3>3
      <4> QED
        BY <3>1, <4>1, <4>2
    <3> QED
      BY <3>2, <3>3
  <2> HIDE DEF new
  <2>7. ASSUME NEW s \in Sections, NEW f \in Members(s)
        PROVE  config'[s][f] \in MayMean(s, f)'
    <3>1. MayMean(s, f)' = MayMean(s, f)
      BY <2>3, SameMeaning
    <3>2. CASE s = state
      BY <2>5, <2>6, <2>7, <3>1, <3>2
    <3>3. CASE s # state
      BY <2>5, <2>7, <3>1, <3>3 DEF MeaningOK
    <3> QED
      BY <3>2, <3>3
  <2>8. MeaningOK'
    BY <1>1, <1>4, <2>2, <2>3, <2>7 DEF MeaningOK
  <2> QED
    BY <2>4, <2>8
<1> QED
  BY <1>2, <1>7, <1>8, <1>9, <1>10, <1>11 DEF TokenMoves

(* A round of the parser. *)
LEMMA ReadStep ==
    ASSUME \A name : NamesIn(name) \subseteq STRING,
           ReadOK, Parse, plain, plain', log_fp' = log_fp, ConfigInv,
           state # "failed", state' # "failed"
    PROVE  ReadOK'
<1>1. ShapeOK' /\ TokenMoves
  BY ScanMoves, NoteMoves DEF ReadOK, Parse
<1>2. \/ state = "START_PARSE" \/ state = "START_BLOCK" \/ state \in Sections
  BY DEF ReadOK, PlaceOK, Parse
<1> QED
  BY <1>1, <1>2, ReadStart, ReadBetween, ReadSection DEF ReadOK, ConfigInv

(* What the program starts with. *)
LEMMA ReadInit == Init => ReadInv
<1> SUFFICES ASSUME Init  PROVE ReadInv
  OBVIOUS
<1> DEFINE c == [coll |-> "stream", at |-> "start", name |-> ""]
<1>1. /\ open = <<c>> /\ c \in Collections /\ c.coll = "stream" /\ c.at = "start"
  <2>1. open = <<c>>
    <3>1. YamlInit
      BY DEF Init, ConfigInit
    <3> QED
      BY <3>1 DEF YamlInit, Collection
  <2>2. c \in Collections
    BY DEF Collections, Places, Names
  <2> QED
    BY <2>1, <2>2
<1> HIDE DEF c
<1>2. Len(open) = 1 /\ open[1] = c /\ open \in Seq(Collections)
  BY <1>1
<1>3. ShapeOK
  BY <1>1, <1>2 DEF ShapeOK, Depth, At
<1>4. /\ state = "START_PARSE" /\ ~top_key /\ ~key
      /\ config = InitialConfig /\ written = Nothing /\ pc = "sys_log_init"
  BY DEF Init, ConfigInit
<1>5. PlaceOK /\ FlagsOK
  BY <1>2, <1>4 DEF PlaceOK, FlagsOK, Depth, Sections
<1> QED
  BY <1>3, <1>4, <1>5 DEF ReadInv

(* The log file is opened before the configuration is read. *)
LEMMA ReadLogInit ==
    ASSUME ReadInv, ConfigInv, LogInit
    PROVE  ReadInv'
<1>1. /\ SysLogInit /\ UNCHANGED <<parserVars, yamlVars, plain, written>>
      /\ pc = "sys_log_init" /\ pc' = "options"
  BY DEF LogInit, Goto
<1>2. state = "START_PARSE" /\ config = InitialConfig /\ written = Nothing
  BY <1>1 DEF ReadInv
<1>3. UNCHANGED <<open, state, data_key, pending, top_key, key, value, plain, written>>
  BY <1>1 DEF parserVars, yamlVars
<1>4. /\ ShapeOK' <=> ShapeOK
      /\ PlaceOK' <=> PlaceOK
      /\ FlagsOK' <=> FlagsOK
  BY <1>3 DEF ShapeOK, PlaceOK, FlagsOK, Depth, At, InnerName, FileKey
<1>5. DOMAIN written' = {} /\ state' \notin Sections
  BY <1>2, <1>3 DEF Nothing, Sections
<1>6. ASSUME NEW s \in Sections, NEW f \in Members(s)
      PROVE  config'[s][f] \in MayMean(s, f)'
  <2>1. /\ config' = IF log_fp' THEN config
                     ELSE [config EXCEPT !["logging"].use_syslog = 0]
        /\ DOMAIN config = Sections /\ DOMAIN config[s] = Members(s)
    BY <1>1 DEF SysLogInit, ConfigInv, ConfigTypeOK
  <2>2. CASE s = "logging" /\ f = "use_syslog" /\ ~log_fp'
    <3>1. config'[s][f] = 0
      BY <1>6, <2>1, <2>2
    <3> QED
      BY <2>2, <3>1 DEF MayMean
  <2>3. CASE ~(s = "logging" /\ f = "use_syslog" /\ ~log_fp')
    <3>1. config'[s][f] = config[s][f]
      BY <1>6, <2>1, <2>3
    <3>2. MayMean(s, f)' = {InitialConfig[s][f]}
      BY <1>5, <2>3 DEF MayMean
    <3> QED
      BY <1>2, <3>1, <3>2
  <2> QED
    BY <2>2, <2>3
<1>7. MeaningOK'
  BY <1>5, <1>6 DEF MeaningOK
<1> QED
  BY <1>1, <1>3, <1>4, <1>7 DEF ReadInv

(* Every step reads on as the file is written. *)
LEMMA ReadInvStep ==
    ASSUME \A name : NamesIn(name) \subseteq STRING,
           ReadInv, ConfigInv, [Next]_vars
    PROVE  ReadInv'
<1>1. CASE LogInit
  BY <1>1, ReadLogInit
<1>2. CASE ParseConfig
  <2>1. /\ pc = "servo_config_parse" /\ pc' = pc /\ log_fp' = log_fp
        /\ Parse \/ ParseError
    BY <1>2 DEF ParseConfig
  <2>2. CASE ParseError
    BY <2>1, <2>2 DEF ParseError, ReadInv
  <2>3. CASE Parse
    <3>1. SUFFICES ASSUME plain', state' # "failed"  PROVE ReadOK'
      BY <2>1 DEF ReadInv, ReadOK
    <3>2. plain /\ state # "failed"
      BY <2>3, <3>1 DEF Parse, Note
    <3>3. ReadOK
      BY <2>1, <3>2 DEF ReadInv, ReadOK
    <3> QED
      BY <2>1, <2>3, <3>1, <3>2, <3>3, ReadStep
  <2> QED
    BY <2>1, <2>2, <2>3
<1>3. CASE ParseReturns
  <2>1. ~plain' /\ pc' \in {"uds_create", "exit"}
    BY <1>3 DEF ParseReturns, Goto
  <2> QED
    BY <2>1 DEF ReadInv
<1>4. CASE \/ Fails \/ Options \/ UdsCreate \/ TsprocCreate \/ ServoCreate
           \/ DeviceInit \/ PhcCapsGet \/ SystemClock \/ AdoptFreq
           \/ LoopSetFreq \/ LoopJump \/ UNCHANGED vars
  <2>1. UNCHANGED readVars /\ (pc = "sys_log_init" <=> pc' = "sys_log_init")
    BY <1>4 DEF Fails, Options, UdsCreate, TsprocCreate, ServoCreate, DeviceInit,
                PhcCapsGet, SystemClock, AdoptFreq, LoopSetFreq, LoopJump, AskFreq,
                Goto, vars
  <2>2. /\ UNCHANGED <<open, state, data_key, pending, top_key, key, value>>
        /\ UNCHANGED <<config, plain, written, log_fp>>
    BY <2>1 DEF readVars, configVars, parserVars, yamlVars
  <2>3. /\ ShapeOK' <=> ShapeOK
        /\ PlaceOK' <=> PlaceOK
        /\ FlagsOK' <=> FlagsOK
    BY <2>2 DEF ShapeOK, PlaceOK, FlagsOK, Depth, At, InnerName, FileKey
  <2>4. /\ \A s, f : MayMean(s, f)' = MayMean(s, f)
        /\ \A f : PendingMay(f)' = PendingMay(f)
    BY <2>2 DEF MayMean, PendingMay
  <2>5. MeaningOK' <=> MeaningOK
    BY <2>2, <2>4 DEF MeaningOK
  <2> QED
    BY <2>1, <2>2, <2>3, <2>5 DEF ReadInv
<1> QED
  BY <1>1, <1>2, <1>3, <1>4 DEF Next, Main

(* The kinds of the fields; a list of enumerators is a sequence. *)
LEMMA FieldKinds ==
    ASSUME NEW section \in Sections, NEW name \in DOMAIN Table(section)
    PROVE  \/ Table(section)[name].var_type \in {"INTEGER", "DOUBLE", "STRING"}
           \/ /\ Table(section)[name].var_type = "ENUM"
              /\ DOMAIN Table(section)[name].enum_list \subseteq Nat \ {0}
<1> DEFINE Kinds(field) ==
        \/ field.var_type \in {"INTEGER", "DOUBLE", "STRING"}
        \/ /\ field.var_type = "ENUM"
           /\ DOMAIN field.enum_list \subseteq Nat \ {0}
<1>1. /\ DOMAIN servo_types = 1 .. 3 /\ DOMAIN tsproc_types = 1 .. 4
      /\ DOMAIN delay_filters = 1 .. 2
  BY DEF servo_types, tsproc_types, delay_filters
<1>2. /\ Kinds(Enum(servo_types)) /\ Kinds(Enum(tsproc_types))
      /\ Kinds(Enum(delay_filters)) /\ Kinds(Str)
  BY <1>1 DEF Enum, Str
<1>3. \A min, max : Kinds(Integer(min, max)) /\ Kinds(Double(min, max))
  BY DEF Integer, Double, Number
<1> HIDE DEF Kinds
<1>4. \A f \in DOMAIN logger_tbl : Kinds(logger_tbl[f])
  BY <1>2, <1>3 DEF logger_tbl
<1>5. \A f \in DOMAIN servo_config_tbl : Kinds(servo_config_tbl[f])
  BY <1>2, <1>3 DEF servo_config_tbl
<1>6. \A f \in DOMAIN device_tbl : Kinds(device_tbl[f])
  BY <1>2, <1>3 DEF device_tbl
<1>7. Kinds(Table(section)[name])
  BY <1>4, <1>5, <1>6 DEF Table, Sections
<1> QED
  BY <1>7 DEF Kinds

(* A member that can hold a value is given what its text says. *)
LEMMA FittingSays ==
    ASSUME NEW section \in Sections, NEW name \in DOMAIN Table(section), NEW text,
           Fits(name, Table(section)[name], text),
           NEW v \in Assigned(name, Table(section)[name],
                              Converted(Table(section)[name], text))
    PROVE  Says(Table(section)[name], text, v)
<1> DEFINE field == Table(section)[name]
           list  == field.enum_list
<1>1. \/ field.var_type \in {"INTEGER", "DOUBLE", "STRING"}
      \/ field.var_type = "ENUM" /\ DOMAIN list \subseteq Nat \ {0}
  BY FieldKinds
<1>2. Fits(name, field, text) /\ v \in Assigned(name, field, Converted(field, text))
  OBVIOUS
<1> SUFFICES Says(field, text, v)
  OBVIOUS
<1> HIDE DEF field, list
<1>3. CASE field.var_type = "INTEGER"
  <2>1. Converted(field, text) = text.int
    BY <1>3 DEF Converted
  <2>2. 1000 * text.int = text.num
    BY <1>2, <1>3 DEF Fits
  <2>3. v = text.int
    <3>1. CASE name \in DOMAIN Width
      <4>1. /\ text.int \in 0 .. Width[name] - 1 /\ Width[name] \in Nat \ {0}
            /\ v \in {text.int % Width[name]}
                       \union (IF text.int < 0 THEN {0} ELSE {})
        BY <1>2, <1>3, <2>1, <3>1 DEF Fits, Assigned, Width
      <4>2. text.int % Width[name] = text.int /\ ~(text.int < 0)
        BY <4>1
      <4> QED
        BY <4>1, <4>2
    <3>2. CASE name \notin DOMAIN Width
      BY <1>2, <1>3, <2>1, <3>2 DEF Assigned
    <3> QED
      BY <3>1, <3>2
  <2> QED
    BY <1>3, <2>2, <2>3 DEF Says
<1>4. CASE field.var_type = "DOUBLE"
  BY <1>2, <1>4 DEF Converted, Assigned, Says
<1>5. CASE field.var_type = "ENUM"
  <2> DEFINE i == CHOOSE k \in DOMAIN list : list[k] = text.word
  <2>1. \E k \in DOMAIN list : list[k] = text.word
    BY <1>2, <1>5 DEF Fits, list
  <2>2. i \in DOMAIN list /\ list[i] = text.word
    BY <2>1
  <2>3. Converted(field, text) = i - 1
    BY <1>5, <2>1 DEF Converted, GetKeyVal, list
  <2> HIDE DEF i
  <2>4. i \in Nat \ {0}
    BY <1>1, <1>5, <2>2
  <2>5. v = i - 1
    BY <1>2, <1>5, <2>3, <2>4 DEF Assigned
  <2>6. v + 1 = i
    BY <2>4, <2>5
  <2> QED
    BY <1>5, <2>2, <2>6 DEF Says, list
<1>6. CASE field.var_type = "STRING"
  BY <1>2, <1>6 DEF Fits, Converted, Assigned, Cut, Says
<1> QED
  BY <1>1, <1>3, <1>4, <1>5, <1>6

(***************************************************************************)
(* The program runs with what a file of sections says, wherever the member *)
(* can hold the value: for every file of that kind, whatever its names,    *)
(* its texts and the order of its sections.                                *)
(***************************************************************************)
THEOREM FileIsObeyed ==
    ASSUME \A max \in Nat : Asked(max) \subseteq Int,
           \A name : TextsOf(name) \subseteq Text,
           \A name : NamesIn(name) \subseteq STRING
    PROVE  Spec => []RunsAsWritten
<1>1. StartInv /\ ReadInv /\ [Next]_vars => ReadInv'
  BY ReadInvStep DEF StartInv
<1>2. ReadInv => RunsAsWritten
  <2>1. SUFFICES ASSUME ReadInv, plain, state = "STOP_PARSE"
                 PROVE  RunsAsWritten
    BY DEF RunsAsWritten
  <2>2. /\ \A s \in DOMAIN written : DOMAIN written[s] \subseteq DOMAIN Table(s)
        /\ \A s \in Sections : \A f \in Members(s) : config[s][f] \in MayMean(s, f)
    BY <2>1 DEF ReadInv, MeaningOK, Sections
  <2>3. ASSUME NEW s \in Sections, NEW f \in Members(s)
        PROVE  RunsAs(s, f, config[s][f])
    <3>1. f \in DOMAIN Table(s) /\ config[s][f] \in MayMean(s, f)
      BY <2>2 DEF Members
    <3>2. CASE \/ s = "logging" /\ f = "use_syslog" /\ ~log_fp
               \/ s \notin DOMAIN written
               \/ f \notin DOMAIN written[s]
      BY <3>1, <3>2 DEF MayMean, RunsAs
    <3>3. CASE ~(\/ s = "logging" /\ f = "use_syslog" /\ ~log_fp
                 \/ s \notin DOMAIN written
                 \/ f \notin DOMAIN written[s])
      <4> DEFINE field == Table(s)[f]
                 text  == written[s][f]
      <4>1. config[s][f] \in Assigned(f, field, Converted(field, text))
        BY <3>1, <3>3 DEF MayMean
      <4>2. Fits(f, field, text) => Says(field, text, config[s][f])
        BY <3>1, <4>1, FittingSays
      <4> QED
        BY <3>3, <4>2 DEF RunsAs
    <3> QED
      BY <3>2, <3>3
  <2> QED
    BY <2>2, <2>3 DEF RunsAsWritten
<1> QED
  BY <1>1, <1>2, ReadInit, StartInvariance, PTL DEF Spec
=============================================================================
