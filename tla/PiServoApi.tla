----------------------------- MODULE PiServoApi -----------------------------
(***************************************************************************)
(* The PI servo under any sequence of servo_sample() and servo_reset().    *)
(***************************************************************************)
EXTENDS PiServo

CONSTANTS
    Offsets,       \* the offsets,
    SampleTimes,   \* the local time stamps and
    Weights,       \* the weights that samples may have
    InitialAdjs    \* the -frequency the clock may have at start-up

ASSUME PiApiAssumption ==
    /\ Offsets \subseteq Int
    /\ SampleTimes \subseteq Nat
    /\ Weights \subseteq 0 .. One
    /\ InitialAdjs \subseteq -MaxFrequency .. MaxFrequency

PiApiInit == \E initial_adj \in InitialAdjs : PiInit(initial_adj)

Sample ==
    \E offset \in Offsets, local_ts \in SampleTimes, weight \in Weights :
        ServoSample(offset, local_ts, weight)

PiApiNext == Sample \/ ServoReset

PiApiSpec == PiApiInit /\ [][PiApiNext]_piVars
-----------------------------------------------------------------------------
(***************************************************************************)
(* SERVO_LOCKED_STABLE is earned: NumOffsetValues small offsets were seen  *)
(* since the clock was last unlocked or stepped.                           *)
(***************************************************************************)
StableEarned ==
    state = "LOCKED_STABLE" => small_seen = NumOffsetValues

(***************************************************************************)
(* The clock is stepped only at the end of a fresh acquisition: the sample *)
(* before was answered UNLOCKED, so a locked clock is never stepped and    *)
(* two steps never follow each other, even across servo_reset().           *)
(***************************************************************************)
StepNeedsAcquisition ==
    [][state' = "JUMP" => state = "UNLOCKED" \/ UNCHANGED servoVars]_piVars

(***************************************************************************)
(* SERVO_LOCKED_STABLE is not left for SERVO_LOCKED, however large the     *)
(* offsets get: only a lost lock ends it, and the count starts again.      *)
(***************************************************************************)
StableLeftByUnlock ==
    [][(state = "LOCKED_STABLE" /\ state' # "LOCKED_STABLE")
         => state' = "UNLOCKED" /\ curr_offset_values' = NumOffsetValues]_piVars
=============================================================================
