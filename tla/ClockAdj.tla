------------------------------- MODULE ClockAdj -------------------------------
(***************************************************************************)
(* How clockadj.c sets and reads the clocks, and what the kernel makes of  *)
(* it.  A frequency counts ppb; tx.freq, which counts 1/65.536 ppb, holds  *)
(* the same number.  Only the system clock has a tick: its period in us,   *)
(* which the code uses for the coarse part of a frequency.                 *)
(***************************************************************************)
EXTENDS Tmv

CONSTANTS
    Phcs,         \* the PTP hardware clocks
    PhcMaxAdj,    \* the max_adj of each
    Tolerance,    \* the largest |tx.freq| of the system clock
    UsecPerSec,   \* 1000000 and
    NsPerSec      \* 1e9 in the code

ASSUME ClockAdjAssumption ==
    /\ "realtime" \notin Phcs
    /\ PhcMaxAdj \in [Phcs -> Nat]
    /\ Tolerance \in Nat \ {0}
    /\ UsecPerSec \in Nat \ {0} /\ NsPerSec \in Nat \ {0}

VARIABLES
    user_hz,                \* USER_HZ of the kernel
    realtime_hz, realtime_nominal_tick,    \* statics of clockadj.c
    hw,                     \* tick and frequency of each clock
    unsync,                 \* STA_UNSYNC of the system clock
    tx_time                 \* tx.time of the last step

adjVars == <<realtime_hz, realtime_nominal_tick>>

Clocks == Phcs \union {"realtime"}

\* round(a / b), halves away from zero
RoundDiv(a, b) == TmvDiv(2 * a + IF a < 0 THEN -b ELSE b, 2 * b)

\* the frequency a clock with this USER_HZ gains by a tick longer by 1 us
TickPpb(hz) == 1000 * hz
NominalTick(hz) == (UsecPerSec + hz \div 2) \div hz

\* The frequency a clock really has
Rate(clk) ==
    hw[clk].freq + IF clk = "realtime"
                   THEN TickPpb(user_hz) * (hw[clk].tick - NominalTick(user_hz))
                   ELSE 0
-----------------------------------------------------------------------------
\* clock_adjtime() with ADJ_FREQUENCY and perhaps ADJ_TICK: the kernel
\* refuses a tick more than 10% off, cuts the system clock's frequency to
\* the tolerance, and a PHC refuses a frequency beyond its max_adj.
KernelTicks(hz) ==
    (9 * UsecPerSec) \div (10 * hz) .. (11 * UsecPerSec) \div (10 * hz)

TickAccepted(tick) == tick \in KernelTicks(user_hz)

Limited(freq) ==
    IF freq > Tolerance THEN Tolerance
    ELSE IF freq < -Tolerance THEN -Tolerance ELSE freq

AdjustRealtime(tick, freq) ==
    hw' = IF TickAccepted(tick)
          THEN [hw EXCEPT !["realtime"] = [tick |-> tick, freq |-> Limited(freq)]]
          ELSE hw

AdjustPhc(clk, freq) ==
    hw' = IF AbsVal(freq) <= PhcMaxAdj[clk]
          THEN [hw EXCEPT ![clk].freq = freq] ELSE hw
-----------------------------------------------------------------------------
UsesTick(clk) == clk = "realtime" /\ realtime_nominal_tick # 0

\* clockadj_init()
ClockadjInit(clk) ==
    IF clk = "realtime"
    THEN /\ realtime_hz' = user_hz
         /\ realtime_nominal_tick' = NominalTick(user_hz)
    ELSE UNCHANGED adjVars

\* clockadj_set_freq(): the coarse part goes into the tick
SetFreq(clk, freq) ==
    LET ticks == RoundDiv(freq, TickPpb(realtime_hz))
    IN  IF UsesTick(clk)
        THEN AdjustRealtime(ticks + realtime_nominal_tick,
                            freq - TickPpb(realtime_hz) * ticks)
        ELSE IF clk = "realtime"
        THEN AdjustRealtime(hw[clk].tick, freq)
        ELSE AdjustPhc(clk, freq)

\* clockadj_get_freq()
GetFreq(clk) ==
    hw[clk].freq + IF UsesTick(clk) /\ hw[clk].tick # 0
                   THEN TickPpb(realtime_hz) * (hw[clk].tick - realtime_nominal_tick)
                   ELSE 0

\* clockadj_max_freq(): with the tick 10% are possible, but only if tick and
\* frequency together leave no gap
MaxFreq(clk) ==
    IF UsesTick(clk) /\ 2 * Tolerance >= TickPpb(realtime_hz)
    THEN (realtime_nominal_tick \div 10) * TickPpb(realtime_hz)
    ELSE Tolerance

\* Mutant: tv_usec is left negative
StepTimeUnnormalised(step) ==
    [tv_sec |-> TmvDiv(step, NsPerSec),
     tv_usec |-> step - NsPerSec * TmvDiv(step, NsPerSec)]

\* clockadj_step(): the fields of the timeval; tv_usec may not be negative
StepTime(step) ==
    LET sign == IF step < 0 THEN -1 ELSE 1
        sec  == sign * (AbsVal(step) \div NsPerSec)
        usec == sign * (AbsVal(step) % NsPerSec)
    IN  IF usec < 0 THEN [tv_sec |-> sec - 1, tv_usec |-> usec + NsPerSec]
        ELSE [tv_sec |-> sec, tv_usec |-> usec]

Step(step) == tx_time' = StepTime(step)

\* sysclk_set_leap(0) writes a status without STA_UNSYNC
SetLeap == unsync' = FALSE
=============================================================================
