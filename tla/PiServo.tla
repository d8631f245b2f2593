------------------------------ MODULE PiServo ------------------------------
(***************************************************************************)
(* The proportional-integral servo (pi.c) behind servo_sample().           *)
(*                                                                         *)
(* Offsets and time stamps are integers (ns).  The doubles of the code are *)
(* integers too: a frequency counts a fixed quantum, a gain is a whole     *)
(* number of quanta per ns, and what a product or a quotient has of a      *)
(* fraction is dropped.                                                    *)
(* offset[1] and local[1] are written and read within one call and are the *)
(* parameters here.                                                        *)
(***************************************************************************)
EXTENDS Servo, FixedPoint

CONSTANTS
    Kp, Ki,        \* the gains pi_sync_interval() settles at start-up
    EstInterval,   \* ns two samples must lie apart to estimate a frequency
    NsPerSec       \* 1e9 in the code

ASSUME PiAssumption ==
    /\ Kp \in Nat /\ Ki \in Nat
    /\ EstInterval \in Nat
    /\ NsPerSec \in Nat \ {0}

VARIABLES
    count,       \* 0, 1: samples seen of the two an estimate needs; 2: locked
    offset0,     \* offset[0] and
    local0,      \* local[0], the first of the two samples
    drift,       \* the integral part: estimated frequency error
    last_freq    \* the adjustment returned last

acquireVars == <<count, offset0, local0>>
freqVars == <<drift, last_freq>>
piVars == <<servoVars, acquireVars, freqVars>>

\* servo_create() and pi_servo_create(), with the initial_adj of main()
PiInit(initial_adj) ==
    /\ ServoInit(initial_adj)
    /\ count = 0 /\ offset0 = 0 /\ local0 = 0
    /\ drift = initial_adj /\ last_freq = initial_adj

\* Mutant: no lower bound
ClampAbove(freq) == IF freq > MaxFrequency THEN MaxFrequency ELSE freq

Clamp(freq) ==
    IF freq < -MaxFrequency THEN -MaxFrequency
    ELSE IF freq > MaxFrequency THEN MaxFrequency ELSE freq

\* gain * offset * weight
Term(gain, offset, weight) == Times(gain * offset, weight)

\* drift corrected by the frequency error between the two samples
Estimate(offset, local_ts) ==
    Clamp(drift + TmvDiv((NsPerSec - drift) * (offset - offset0),
                         local_ts - local0))

\* `case 0': remember the first sample
FirstSample(offset, local_ts) ==
    /\ count = 0
    /\ offset0' = offset /\ local0' = local_ts
    /\ count' = 1
    /\ Conclude("UNLOCKED", offset)
    /\ adj' = last_freq
    /\ UNCHANGED freqVars

\* `case 1': the second sample is not newer than the first, start over
NotNewer(offset, local_ts) ==
    /\ count = 1
    /\ local0 >= local_ts
    /\ count' = 0
    /\ Conclude("UNLOCKED", offset)
    /\ adj' = last_freq
    /\ UNCHANGED <<offset0, local0, freqVars>>

\* `case 1': too close to the first one, wait for another second sample
TooSoon(offset, local_ts) ==
    /\ count = 1
    /\ local0 < local_ts
    /\ local_ts - local0 < EstInterval
    /\ Conclude("UNLOCKED", offset)
    /\ adj' = last_freq
    /\ UNCHANGED <<acquireVars, freqVars>>

\* `case 1': estimate the frequency, then step or lock
SecondSample(offset, local_ts) ==
    /\ count = 1
    /\ local0 < local_ts
    /\ local_ts - local0 >= EstInterval
    /\ drift' = Estimate(offset, local_ts)
    /\ last_freq' = drift' /\ adj' = drift'
    /\ count' = 2
    /\ Conclude(IF MustStep(AbsVal(offset)) THEN "JUMP" ELSE "LOCKED", offset)
    /\ UNCHANGED <<offset0, local0>>

\* Mutant: the acquisition does not start over
OffsetTooLargeKeepsCount(offset) ==
    /\ count = 2
    /\ StepThreshold # 0 /\ StepThreshold < AbsVal(offset)
    /\ Conclude("UNLOCKED", offset)
    /\ adj' = last_freq
    /\ UNCHANGED <<acquireVars, freqVars>>

\* Mutant: the clock is stepped at once
OffsetTooLargeSteps(offset) ==
    /\ count = 2
    /\ StepThreshold # 0 /\ StepThreshold < AbsVal(offset)
    /\ Conclude("JUMP", offset)
    /\ adj' = last_freq
    /\ UNCHANGED <<acquireVars, freqVars>>

\* Mutant: a step_threshold of 0 is a threshold
OffsetTooLargeZeroIsSmall(offset) ==
    /\ count = 2
    /\ StepThreshold < AbsVal(offset)
    /\ count' = 0
    /\ Conclude("UNLOCKED", offset)
    /\ adj' = last_freq
    /\ UNCHANGED <<offset0, local0, freqVars>>

\* `case 2': the offset is beyond step_threshold, start over
OffsetTooLarge(offset) ==
    /\ count = 2
    /\ StepThreshold # 0 /\ StepThreshold < AbsVal(offset)
    /\ count' = 0
    /\ Conclude("UNLOCKED", offset)
    /\ adj' = last_freq
    /\ UNCHANGED <<offset0, local0, freqVars>>

\* Mutant: the integral goes on while the output is clamped
TrackWindsUp(offset, weight) ==
    LET ki_term == Term(Ki, offset, weight)
        ppb     == Term(Kp, offset, weight) + drift + ki_term
    IN  /\ count = 2
        /\ ~(StepThreshold # 0 /\ StepThreshold < AbsVal(offset))
        /\ last_freq' = Clamp(ppb) /\ adj' = Clamp(ppb)
        /\ drift' = drift + ki_term
        /\ Conclude("LOCKED", offset)
        /\ UNCHANGED acquireVars

\* `case 2': the PI controller; the integral stands still while the output
\* is clamped
Track(offset, weight) ==
    LET ki_term == Term(Ki, offset, weight)
        ppb     == Term(Kp, offset, weight) + drift + ki_term
    IN  /\ count = 2
        /\ ~(StepThreshold # 0 /\ StepThreshold < AbsVal(offset))
        /\ last_freq' = Clamp(ppb) /\ adj' = Clamp(ppb)
        /\ drift' = IF Clamp(ppb) = ppb THEN drift + ki_term ELSE drift
        /\ Conclude("LOCKED", offset)
        /\ UNCHANGED acquireVars

ServoSample(offset, local_ts, weight) ==
    \/ FirstSample(offset, local_ts)
    \/ NotNewer(offset, local_ts)
    \/ TooSoon(offset, local_ts)
    \/ SecondSample(offset, local_ts)
    \/ OffsetTooLarge(offset)
    \/ Track(offset, weight)

\* pi_reset(), which servo_reset() calls
ServoReset ==
    /\ count' = 0
    /\ UNCHANGED <<servoVars, offset0, local0, freqVars>>

-----------------------------------------------------------------------------
(* The domain of the state. *)
PiTypeOK ==
    /\ ServoTypeOK
    /\ count \in 0 .. 2
    /\ offset0 \in Int /\ local0 \in Nat
    /\ drift \in Int /\ last_freq \in Int

(***************************************************************************)
(* What ties the acquisition counter of pi.c to the state that servo.c     *)
(* announces, and the count-down of servo.c to the offsets really seen.    *)
(* PiInv, the conjunction of the three, is inductive.                      *)
(***************************************************************************)
LockConsistent ==
    /\ count = 1 => state = "UNLOCKED"
    /\ count = 2 => state # "UNLOCKED"
    /\ state = "LOCKED_STABLE" => OffsetThreshold # 0 /\ curr_offset_values = 0
    /\ OffsetThreshold # 0 => curr_offset_values + small_seen = NumOffsetValues

(***************************************************************************)
(* The integral and the adjustment never leave the range of the clock,     *)
(* although the code clamps the integral only when it estimates it: in     *)
(* `case 2' the integral grows unclamped, and stays in range because it is *)
(* frozen whenever the output is clamped and the two terms of the output   *)
(* have the same sign.                                                     *)
(***************************************************************************)
FreqInRange ==
    /\ drift \in -MaxFrequency .. MaxFrequency
    /\ last_freq \in -MaxFrequency .. MaxFrequency

PiInv == PiTypeOK /\ FreqInRange /\ LockConsistent
=============================================================================
