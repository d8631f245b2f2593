----------------------------- MODULE Api_proofs -----------------------------
(***************************************************************************)
(* Proofs about the interfaces, the PI servo under any samples and resets  *)
(* and the time stamp processor under any calls, for every value of the    *)
(* thresholds, gains, modes, lengths and inputs.                           *)
(***************************************************************************)
EXTENDS PiServoApi, TsprocApi, Calls_proofs

(* Samples and resets in any order keep the invariant. *)
LEMMA NextInv == PiInv /\ [PiApiNext]_piVars => PiInv'
<1> SUFFICES ASSUME PiInv, [PiApiNext]_piVars PROVE PiInv'
  OBVIOUS
<1>1. CASE Sample
  <2>1. PICK offset \in Offsets, local_ts \in SampleTimes, weight \in Weights :
            ServoSample(offset, local_ts, weight)
    BY <1>1 DEF Sample
  <2>2. offset \in Int /\ local_ts \in Nat /\ weight \in Nat
    BY PiApiAssumption, OneAssumption
  <2> QED
    BY <2>1, <2>2, SampleInv
<1>2. CASE ServoReset
  BY <1>2, ResetInv
<1>3. CASE UNCHANGED piVars
  BY <1>3 DEF PiInv, PiTypeOK, ServoTypeOK, FreqInRange, LockConsistent,
              piVars, servoVars, acquireVars, freqVars
<1> QED
  BY <1>1, <1>2, <1>3 DEF PiApiNext

(* The inductive invariant of the PI servo holds forever. *)
THEOREM Invariance == PiApiSpec => []PiInv
<1>1. PiApiInit => PiInv
  BY PiApiAssumption, InitInv DEF PiApiInit
<1>2. PiInv /\ [PiApiNext]_piVars => PiInv'
  BY NextInv
<1> QED
  BY <1>1, <1>2, PTL DEF PiApiSpec

(***************************************************************************)
(* The state of the servo keeps its domain.                                *)
(***************************************************************************)
THEOREM TypeCorrect == PiApiSpec => []PiTypeOK
  BY Invariance, PTL DEF PiInv

(***************************************************************************)
(* For all gains, weights and offsets the integral part and the returned   *)
(* adjustment stay within max_frequency.                                   *)
(***************************************************************************)
THEOREM FrequencyStaysInRange == PiApiSpec => []FreqInRange
  BY Invariance, PTL DEF PiInv

(***************************************************************************)
(* The acquisition counter, the announced state and the count-down agree.  *)
(***************************************************************************)
THEOREM LockStaysConsistent == PiApiSpec => []LockConsistent
  BY Invariance, PTL DEF PiInv

(***************************************************************************)
(* SERVO_LOCKED_STABLE is announced only after num_offset_values small     *)
(* offsets since the lock or the step.                                     *)
(***************************************************************************)
THEOREM StableIsEarned == PiApiSpec => []StableEarned
<1>1. PiInv => StableEarned
  BY ServoAssumption DEF PiInv, PiTypeOK, ServoTypeOK, LockConsistent,
                         StableEarned
<1> QED
  BY Invariance, <1>1, PTL

(***************************************************************************)
(* The servo asks for a step of the clock only right after it answered     *)
(* UNLOCKED.                                                               *)
(***************************************************************************)
THEOREM StepsNeedAcquisition == PiApiSpec => StepNeedsAcquisition
<1> DEFINE OK == state' = "JUMP" => state = "UNLOCKED" \/ UNCHANGED servoVars
<1>1. ASSUME PiInv, [PiApiNext]_piVars PROVE [OK]_piVars
  <2>1. CASE Sample
    <3>1. PICK offset \in Offsets, local_ts \in SampleTimes,
               weight \in Weights : ServoSample(offset, local_ts, weight)
      BY <2>1 DEF Sample
    <3>2. offset \in Int /\ local_ts \in Nat /\ weight \in Nat
      BY PiApiAssumption, OneAssumption
    <3> QED
      BY <1>1, <3>1, <3>2, SampleStep
  <2>2. CASE ServoReset
    BY <2>2 DEF ServoReset
  <2>3. CASE UNCHANGED piVars
    BY <2>3
  <2> QED
    BY <1>1, <2>1, <2>2, <2>3 DEF PiApiNext
<1> QED
  BY Invariance, <1>1, PTL DEF PiApiSpec, StepNeedsAcquisition

(***************************************************************************)
(* SERVO_LOCKED_STABLE never falls back to SERVO_LOCKED: only a lost lock  *)
(* ends it, and the count-down starts again.                               *)
(***************************************************************************)
THEOREM StableEndsUnlocked == PiApiSpec => StableLeftByUnlock
<1> DEFINE OK == (state = "LOCKED_STABLE" /\ state' # "LOCKED_STABLE")
                   => /\ state' = "UNLOCKED"
                      /\ curr_offset_values' = NumOffsetValues
<1>1. ASSUME PiInv, [PiApiNext]_piVars PROVE [OK]_piVars
  <2>1. CASE Sample
    <3>1. PICK offset \in Offsets, local_ts \in SampleTimes,
               weight \in Weights : ServoSample(offset, local_ts, weight)
      BY <2>1 DEF Sample
    <3>2. offset \in Int /\ local_ts \in Nat /\ weight \in Nat
      BY PiApiAssumption, OneAssumption
    <3> QED
      BY <1>1, <3>1, <3>2, SampleStep
  <2>2. CASE ServoReset
    BY <2>2 DEF ServoReset, servoVars
  <2>3. CASE UNCHANGED piVars
    BY <2>3
  <2> QED
    BY <1>1, <2>1, <2>2, <2>3 DEF PiApiNext
<1> QED
  BY Invariance, <1>1, PTL DEF PiApiSpec, StableLeftByUnlock

-----------------------------------------------------------------------------
(***************************************************************************)
(* What the history variables know about the record: a time stamp that is  *)
(* not 0 was stored since the last reset, and a delay that is valid since  *)
(* the last full one.                                                      *)
(***************************************************************************)
HistoryInv ==
    /\ tsp.t1 # 0 => "down" \in since_step
    /\ tsp.t3 # 0 => "up" \in since_step
    /\ tsp.filtered_delay_valid => "delay" \in since_change
    /\ since_step \subseteq since_change

TypeInv ==
    /\ tsp \in TsprocRecord
    /\ Len(tsp.window) <= FilterLength
    /\ since_step \subseteq {"down", "up"}
    /\ since_change \subseteq {"down", "up", "delay"}

(* The calls keep the domain, if the filter estimates integers. *)
LEMMA TypeInvariance ==
    ASSUME FilterAnswers
    PROVE  Spec => []TypeInv
<1>1. Init => TypeInv
  <2>1. ASSUME NEW mode \in TsprocModes
        PROVE  Len(NewTsproc(mode).window) <= FilterLength
    BY TsprocAssumption DEF NewTsproc
  <2> QED
    BY <2>1, ApiAssumption, NewTsprocType DEF Init, TypeInv
<1>2. ASSUME TypeInv, [Next]_vars PROVE TypeInv'
  <2> USE DEF TypeInv
  <2>1. ASSUME NEW m \in MasterTimes, NEW l \in LocalTimes, CallDownTs(m, l)
        PROVE  TypeInv'
    BY <1>2, <2>1, ApiAssumption, StampsType, WindowLength DEF CallDownTs
  <2>2. ASSUME NEW m \in MasterTimes, NEW l \in LocalTimes, CallUpTs(l, m)
        PROVE  TypeInv'
    BY <1>2, <2>2, ApiAssumption, StampsType, WindowLength DEF CallUpTs
  <2>3. CASE CallUpdateDelay
    BY <1>2, <2>3, UpdateDelayType, WindowLength DEF CallUpdateDelay
  <2>4. ASSUME NEW delay \in Delays, CallSetDelay(delay) PROVE TypeInv'
    BY <1>2, <2>4, ApiAssumption, DelayType, WindowLength DEF CallSetDelay
  <2>5. ASSUME NEW ratio \in Ratios, CallSetRateRatio(ratio) PROVE TypeInv'
    BY <1>2, <2>5, ApiAssumption, RatioType, WindowLength DEF CallSetRateRatio
  <2>6. ASSUME NEW full \in BOOLEAN, CallReset(full) PROVE TypeInv'
    BY <1>2, <2>6, ResetType, WindowLength DEF CallReset
  <2>7. CASE UNCHANGED vars
    BY <1>2, <2>7 DEF vars
  <2> QED
    BY <1>2, <2>1, <2>2, <2>3, <2>4, <2>5, <2>6, <2>7 DEF Next
<1> QED
  BY <1>1, <1>2, PTL DEF Spec

(***************************************************************************)
(* The record stays in its domain and the window within its length.        *)
(***************************************************************************)
THEOREM TsprocTypes ==
    ASSUME FilterAnswers
    PROVE  Spec => []TypeOK
<1>1. TypeInv => TypeOK
  BY DEF TypeInv, TypeOK
<1> QED
  BY <1>1, TypeInvariance, PTL

(* The history variables keep telling the truth. *)
LEMMA HistoryInvariance ==
    ASSUME FilterAnswers
    PROVE  Spec => []HistoryInv
<1>1. Init => HistoryInv
  BY DEF Init, NewTsproc, HistoryInv
<1>2. ASSUME TypeInv, HistoryInv, [Next]_vars PROVE HistoryInv'
  <2> USE DEF TypeInv, HistoryInv, TsprocRecord
  <2>1. ASSUME NEW m \in MasterTimes, NEW l \in LocalTimes, CallDownTs(m, l)
        PROVE  HistoryInv'
    BY <1>2, <2>1 DEF CallDownTs, DownTs
  <2>2. ASSUME NEW m \in MasterTimes, NEW l \in LocalTimes, CallUpTs(l, m)
        PROVE  HistoryInv'
    BY <1>2, <2>2 DEF CallUpTs, UpTs
  <2>3. CASE CallUpdateDelay
    <3>1. /\ tsp'.t1 = tsp.t1 /\ tsp'.t3 = tsp.t3
          /\ tsp.t2 = 0 \/ tsp.t3 = 0 =>
                tsp'.filtered_delay_valid = tsp.filtered_delay_valid
      BY <1>2, <2>3 DEF CallUpdateDelay, UpdateDelay
    <3> QED
      BY <1>2, <2>3, <3>1 DEF CallUpdateDelay
  <2>4. ASSUME NEW delay \in Delays, CallSetDelay(delay) PROVE HistoryInv'
    BY <1>2, <2>4 DEF CallSetDelay, SetDelay
  <2>5. ASSUME NEW ratio \in Ratios, CallSetRateRatio(ratio) PROVE HistoryInv'
    BY <1>2, <2>5 DEF CallSetRateRatio, SetRateRatio
  <2>6. ASSUME NEW full \in BOOLEAN, CallReset(full) PROVE HistoryInv'
    BY <1>2, <2>6 DEF CallReset, ResetTsproc
  <2>7. CASE UNCHANGED vars
    BY <1>2, <2>7 DEF vars
  <2> QED
    BY <1>2, <2>1, <2>2, <2>3, <2>4, <2>5, <2>6, <2>7 DEF Next
<1> QED
  BY <1>1, <1>2, TypeInvariance, PTL DEF Spec

(***************************************************************************)
(* No offset is computed from a time stamp stored before the clock was     *)
(* stepped.                                                                *)
(***************************************************************************)
THEOREM StampsAreFromAfterStep ==
    ASSUME FilterAnswers
    PROVE  Spec => []NoStampFromBeforeStep
<1>1. HistoryInv => NoStampFromBeforeStep
  BY DEF HistoryInv, NoStampFromBeforeStep, OffsetReady, Sources
<1> QED
  BY <1>1, HistoryInvariance, PTL

(***************************************************************************)
(* After the remote clock changed nothing of the former one is used, in    *)
(* the modes other than RAW_WEIGHT.                                        *)
(***************************************************************************)
THEOREM FormerRemoteIsForgotten ==
    ASSUME FilterAnswers
    PROVE  Spec => []FormerRemoteForgotten
<1>1. TypeInv /\ HistoryInv => FormerRemoteForgotten
  BY DEF TypeInv, HistoryInv, FormerRemoteForgotten, OffsetReady, Sources,
         Weighted, TsprocRecord, TsprocModes
<1> QED
  BY <1>1, TypeInvariance, HistoryInvariance, PTL

(***************************************************************************)
(* The weight handed to the servo never exceeds 1.0.                       *)
(***************************************************************************)
THEOREM WeightStaysFraction ==
    ASSUME FilterAnswers
    PROVE  Spec => []WeightIsFraction
<1>1. TypeInv => WeightIsFraction
  BY WeightRange DEF TypeInv, WeightIsFraction
<1> QED
  BY <1>1, TypeInvariance, PTL
=============================================================================
