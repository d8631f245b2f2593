------------------------------- MODULE Servo -------------------------------
(***************************************************************************)
(* What every clock servo shares (servo.c, servo.h): its thresholds, the   *)
(* first_update flag, the count-down to SERVO_LOCKED_STABLE, and the       *)
(* switch with which servo_sample() turns the verdict of the algorithm     *)
(* (pi, linreg, ntpshm) into the state that main() acts upon.              *)
(***************************************************************************)
EXTENDS Tmv

CONSTANTS
    StepThreshold,       \* step_threshold in ns; 0: never step again
    FirstStepThreshold,  \* first_step_threshold in ns; 0: no first step
    MaxFrequency,        \* max_frequency of the clock
    OffsetThreshold,     \* offset_threshold in ns; 0: never LOCKED_STABLE
    NumOffsetValues      \* num_offset_values

ASSUME ServoAssumption ==
    /\ StepThreshold \in Nat
    /\ FirstStepThreshold \in Nat
    /\ MaxFrequency \in Nat
    /\ OffsetThreshold \in Nat
    /\ NumOffsetValues \in Nat

VARIABLES
    first_update,        \* no sample has locked or stepped the clock yet
    curr_offset_values,  \* small offsets still to be seen before STABLE
    state,               \* the enum servo_state servo_sample() gave back
    adj,                 \* the frequency adjustment servo_sample() returned
    small_seen           \* history: small offsets since the lock began,
                         \* counted up to NumOffsetValues

servoVars == <<first_update, curr_offset_values, state, adj, small_seen>>

ServoStates == {"UNLOCKED", "JUMP", "LOCKED", "LOCKED_STABLE"}

\* servo_create(), with initial_adj read from the clock by main()
ServoInit(initial_adj) ==
    /\ first_update = TRUE
    /\ curr_offset_values = NumOffsetValues
    /\ state = "UNLOCKED"
    /\ adj = initial_adj
    /\ small_seen = 0

\* The test with which pi and linreg decide to step the clock.
MustStep(magnitude) ==
    \/ first_update /\ FirstStepThreshold # 0 /\ FirstStepThreshold < magnitude
    \/ StepThreshold # 0 /\ StepThreshold < magnitude

\* Mutant: the count-down runs on past zero
RemainingPastZero(offset) ==
    IF OffsetThreshold # 0 /\ AbsVal(offset) < OffsetThreshold
    THEN curr_offset_values - 1
    ELSE curr_offset_values

\* check_offset_threshold(): what it leaves in curr_offset_values, and
\* whether it answers 1
Remaining(offset) ==
    IF /\ OffsetThreshold # 0
       /\ AbsVal(offset) < OffsetThreshold
       /\ curr_offset_values # 0
    THEN curr_offset_values - 1
    ELSE curr_offset_values

\* Mutant: the present offset must be small as well
OffsetStableNow(offset) ==
    /\ OffsetThreshold # 0 /\ Remaining(offset) = 0
    /\ AbsVal(offset) < OffsetThreshold

OffsetStable(offset) == OffsetThreshold # 0 /\ Remaining(offset) = 0

\* History: one more small offset, or none
SmallSeen(offset) ==
    IF AbsVal(offset) < OffsetThreshold /\ small_seen < NumOffsetValues
    THEN small_seen + 1
    ELSE small_seen

\* Mutant: losing the lock does not restart the count-down
ConcludeKeepsCount(verdict, offset) ==
    \/ /\ verdict = "UNLOCKED"
       /\ state' = "UNLOCKED"
       /\ small_seen' = 0
       /\ UNCHANGED <<first_update, curr_offset_values>>
    \/ /\ verdict = "JUMP"
       /\ state' = "JUMP"
       /\ curr_offset_values' = NumOffsetValues
       /\ small_seen' = 0
       /\ first_update' = FALSE
    \/ /\ verdict = "LOCKED"
       /\ curr_offset_values' = Remaining(offset)
       /\ state' = IF OffsetStable(offset) THEN "LOCKED_STABLE" ELSE "LOCKED"
       /\ small_seen' = SmallSeen(offset)
       /\ first_update' = FALSE

\* The switch of servo_sample() on the verdict of the algorithm.
Conclude(verdict, offset) ==
    \/ /\ verdict = "UNLOCKED"
       /\ state' = "UNLOCKED"
       /\ curr_offset_values' = NumOffsetValues
       /\ small_seen' = 0
       /\ UNCHANGED first_update
    \/ /\ verdict = "JUMP"
       /\ state' = "JUMP"
       /\ curr_offset_values' = NumOffsetValues
       /\ small_seen' = 0
       /\ first_update' = FALSE
    \/ /\ verdict = "LOCKED"
       /\ curr_offset_values' = Remaining(offset)
       /\ state' = IF OffsetStable(offset) THEN "LOCKED_STABLE" ELSE "LOCKED"
       /\ small_seen' = SmallSeen(offset)
       /\ first_update' = FALSE

ServoTypeOK ==
    /\ first_update \in BOOLEAN
    /\ curr_offset_values \in 0 .. NumOffsetValues
    /\ state \in ServoStates
    /\ adj \in Int
    /\ small_seen \in 0 .. NumOffsetValues
=============================================================================
