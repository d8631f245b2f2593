---------------------------- MODULE Calls_proofs ----------------------------
(***************************************************************************)
(* What one call of the time stamp processor computes, and what one call   *)
(* of the PI servo does to its state, for every time stamp, delay, error   *)
(* of the clock, threshold and gain: the lemmas that TsprocApi_proofs,     *)
(* PiServoApi_proofs and ExtServo_proofs share.                            *)
(***************************************************************************)
EXTENDS PiServo, Tsproc, SequenceTheorems, TLAPS

(***************************************************************************)
(* C's division is an integer with the sign of the dividend.               *)
(***************************************************************************)
LEMMA DivSign ==
    ASSUME NEW a \in Int, NEW b \in Nat \ {0}
    PROVE  /\ TmvDiv(a, b) \in Int
           /\ a >= 0 => TmvDiv(a, b) >= 0
           /\ a < 0 => TmvDiv(a, b) <= 0
<1>1. \A n \in Nat : n \div b \in Nat
  OBVIOUS
<1>2. CASE a >= 0
  BY <1>1, <1>2 DEF TmvDiv
<1>3. CASE a < 0
  <2>1. -a \in Nat
    BY <1>3
  <2>2. (-a) \div b \in Nat
    BY <1>1, <2>1
  <2> QED
    BY <1>3, <2>2 DEF TmvDiv
<1> QED
  BY <1>2, <1>3

(***************************************************************************)
(* Halving an even number is exact, also below zero.                       *)
(***************************************************************************)
LEMMA HalfOfDouble ==
    ASSUME NEW d \in Int
    PROVE  TmvDiv(2 * d, 2) = d
<1>1. \A n \in Nat : (2 * n) \div 2 = n
  OBVIOUS
<1>2. CASE d >= 0
  BY <1>1, <1>2 DEF TmvDiv
<1>3. CASE d < 0
  <2>1. -(2 * d) = 2 * (-d) /\ -d \in Nat
    BY <1>3
  <2> QED
    BY <1>1, <1>3, <2>1 DEF TmvDiv
<1> QED
  BY <1>2, <1>3

(***************************************************************************)
(* A value times a fixed-point number is an integer.                       *)
(***************************************************************************)
LEMMA TimesInt ==
    ASSUME NEW x \in Int, NEW f \in Int
    PROVE  Times(x, f) \in Int
<1>1. x * f \in Int
  OBVIOUS
<1> QED
  BY <1>1, OneAssumption, DivSign DEF Times

-----------------------------------------------------------------------------
(***************************************************************************)
(* One sync and one delay exchange over a path of delay d in both          *)
(* directions, with a local clock that is ahead by `ahead' during both:    *)
(* get_raw_delay() is d exactly, and the offset of the unfiltered modes    *)
(* exactly the clock error, whatever the times of the exchanges.           *)
(***************************************************************************)
THEOREM SymmetricPathIsExact ==
    ASSUME NEW tsp \in TsprocRecord,
           NEW d \in Int, NEW ahead \in Int,
           tsp.clock_rate_ratio = One,
           tsp.mode \in {"RAW", "RAW_WEIGHT"},
           tsp.t2 = tsp.t1 + d + ahead,
           tsp.t4 = tsp.t3 - ahead + d
    PROVE  RawDelay(tsp) = d /\ MasterOffset(tsp) = ahead
<1>1. /\ tsp.t1 \in Int /\ tsp.t2 \in Int /\ tsp.t3 \in Int /\ tsp.t4 \in Int
  BY DEF TsprocRecord
<1>2. (tsp.t2 - tsp.t3) + (tsp.t4 - tsp.t1) = 2 * d
  BY <1>1
<1>3. RawDelay(tsp) = d
  BY <1>2, HalfOfDouble DEF RawDelay
<1> QED
  BY <1>1, <1>3 DEF MasterOffset

(***************************************************************************)
(* What the reset after a step is for: were t3 and t4 kept from before a   *)
(* step by 2 * s, the measured delay would be wrong by s and the offset    *)
(* by -s.                                                                  *)
(***************************************************************************)
THEOREM StaleExchangeIsWrong ==
    ASSUME NEW tsp \in TsprocRecord,
           NEW d \in Int, NEW ahead \in Int, NEW s \in Int,
           tsp.clock_rate_ratio = One,
           tsp.mode \in {"RAW", "RAW_WEIGHT"},
           tsp.t2 = tsp.t1 + d + ahead + 2 * s,
           tsp.t4 = tsp.t3 - ahead + d
    PROVE  RawDelay(tsp) = d + s /\ MasterOffset(tsp) = (ahead + 2 * s) - s
<1>1. /\ tsp.t1 \in Int /\ tsp.t2 \in Int /\ tsp.t3 \in Int /\ tsp.t4 \in Int
  BY DEF TsprocRecord
<1>2. (tsp.t2 - tsp.t3) + (tsp.t4 - tsp.t1) = 2 * (d + s)
  BY <1>1
<1>3. RawDelay(tsp) = d + s
  BY <1>2, HalfOfDouble DEF RawDelay
<1> QED
  BY <1>1, <1>3 DEF MasterOffset

-----------------------------------------------------------------------------
(* The delay and the offset are integers. *)
LEMMA RawDelayInt ==
    ASSUME NEW tsp \in TsprocRecord
    PROVE  RawDelay(tsp) \in Int
<1> DEFINE local == tsp.t2 - tsp.t3
           t23   == IF tsp.clock_rate_ratio = One THEN local
                    ELSE Times(local, tsp.clock_rate_ratio)
<1>1. local \in Int /\ tsp.t4 - tsp.t1 \in Int /\ tsp.clock_rate_ratio \in Int
  BY DEF TsprocRecord
<1>2. t23 \in Int
  BY <1>1, TimesInt
<1>3. t23 + (tsp.t4 - tsp.t1) \in Int
  BY <1>1, <1>2
<1> QED
  BY <1>3, DivSign DEF RawDelay

(* tsproc_update_offset() stores an integer. *)
LEMMA MasterOffsetInt ==
    ASSUME NEW tsp \in TsprocRecord
    PROVE  MasterOffset(tsp) \in Int
  BY RawDelayInt DEF MasterOffset, TsprocRecord

(***************************************************************************)
(* The weight is a fraction of 1.0, also if delays are negative or zero.   *)
(***************************************************************************)
LEMMA WeightRange ==
    ASSUME NEW tsp \in TsprocRecord
    PROVE  OffsetWeight(tsp) \in 0 .. One
<1>1. One \in Nat \ {0}
  BY OneAssumption
<1>2. CASE Weighted(tsp) /\ tsp.filtered_delay < RawDelay(tsp)
  <2> DEFINE f == tsp.filtered_delay
             r == RawDelay(tsp)
  <2>1. f \in Nat /\ r \in Nat \ {0} /\ f < r
    BY <1>2, RawDelayInt DEF Weighted, TsprocRecord
  <2> HIDE DEF f, r
  <2>2. (f * One) \in Nat /\ f * One <= r * One
    BY <1>1, <2>1
  <2>3. \A x \in Nat, y \in Nat : x <= y * r => x \div r <= y
    BY <2>1
  <2>4. (f * One) \div r \in 0 .. One
    BY <1>1, <2>1, <2>2, <2>3
  <2> QED
    BY <1>2, <2>4 DEF OffsetWeight, f, r
<1>3. CASE ~(Weighted(tsp) /\ tsp.filtered_delay < RawDelay(tsp))
  BY <1>1, <1>3 DEF OffsetWeight
<1> QED
  BY <1>2, <1>3

-----------------------------------------------------------------------------
(***************************************************************************)
(* The operations keep the domain of the record, and its mode.             *)
(***************************************************************************)
LEMMA NewTsprocType ==
    ASSUME NEW mode \in TsprocModes
    PROVE  NewTsproc(mode) \in TsprocRecord
  BY OneAssumption DEF NewTsproc, TsprocRecord

(* Storing time stamps keeps the domain. *)
LEMMA StampsType ==
    ASSUME NEW tsp \in TsprocRecord, NEW a \in Int, NEW b \in Int
    PROVE  /\ DownTs(tsp, a, b) \in TsprocRecord
           /\ UpTs(tsp, a, b) \in TsprocRecord
  BY DEF DownTs, UpTs, TsprocRecord

(* Setting the clock rate ratio keeps the domain. *)
LEMMA RatioType ==
    ASSUME NEW tsp \in TsprocRecord, NEW ratio \in Nat
    PROVE  SetRateRatio(tsp, ratio) \in TsprocRecord
  BY DEF SetRateRatio, TsprocRecord

(* Setting the delay keeps the domain. *)
LEMMA DelayType ==
    ASSUME NEW tsp \in TsprocRecord, NEW delay \in Int
    PROVE  SetDelay(tsp, delay) \in TsprocRecord
  BY DEF SetDelay, TsprocRecord

(* Either reset keeps the domain. *)
LEMMA ResetType ==
    ASSUME NEW tsp \in TsprocRecord, NEW full \in BOOLEAN
    PROVE  ResetTsproc(tsp, full) \in TsprocRecord
<1> DEFINE stampless == [tsp EXCEPT !.t1 = 0, !.t2 = 0, !.t3 = 0, !.t4 = 0]
<1>1. stampless \in TsprocRecord
  <2>1. DownTs(tsp, 0, 0) \in TsprocRecord
    BY StampsType
  <2>2. UpTs(DownTs(tsp, 0, 0), 0, 0) \in TsprocRecord
    BY <2>1, StampsType
  <2>3. stampless = UpTs(DownTs(tsp, 0, 0), 0, 0)
    BY DEF UpTs, DownTs, TsprocRecord
  <2> QED
    BY <2>2, <2>3
<1> HIDE DEF stampless
<1>2. <<>> \in Seq(Int) /\ One \in Nat
  BY OneAssumption
<1>3. [stampless EXCEPT !.clock_rate_ratio = One, !.window = <<>>,
                        !.filtered_delay_valid = FALSE] \in TsprocRecord
  BY <1>1, <1>2 DEF TsprocRecord
<1> QED
  BY <1>1, <1>3 DEF ResetTsproc, stampless

(***************************************************************************)
(* So does the delay filter, if its estimates are integers.                *)
(***************************************************************************)
LEMMA PushedType ==
    ASSUME NEW w \in Seq(Int), NEW v \in Int, NEW length \in Nat
    PROVE  Pushed(w, v, length) \in Seq(Int)
<1>1. Append(w, v) \in Seq(Int) /\ Append(w, v) # <<>>
  BY AppendProperties
<1>2. Tail(Append(w, v)) \in Seq(Int)
  BY <1>1, HeadTailProperties, Zenon
<1> QED
  BY <1>1, <1>2 DEF Pushed

(***************************************************************************)
(* The window holds the latest samples in their order, never more than its *)
(* length; the oldest one leaves it when it is full.                       *)
(***************************************************************************)
LEMMA PushedValues ==
    ASSUME NEW S, NEW w \in Seq(S), NEW v \in S, NEW length \in Nat
    PROVE  /\ Pushed(w, v, length) \in Seq(S)
           /\ Len(w) < length =>
                  /\ Len(Pushed(w, v, length)) = Len(w) + 1
                  /\ Pushed(w, v, length)[Len(w) + 1] = v
                  /\ \A i \in 1 .. Len(w) : Pushed(w, v, length)[i] = w[i]
           /\ Len(w) >= length =>
                  /\ Len(Pushed(w, v, length)) = Len(w)
                  /\ \A i \in 1 .. Len(w) :
                         Pushed(w, v, length)[i] = IF i = Len(w) THEN v ELSE w[i + 1]
<1> DEFINE longer == Append(w, v)
<1>1. /\ longer \in Seq(S) /\ longer # <<>> /\ Len(longer) = Len(w) + 1
      /\ \A i \in 1 .. Len(w) : longer[i] = w[i]
      /\ longer[Len(w) + 1] = v
  BY AppendProperties
<1>2. Len(w) \in Nat
  BY LenProperties
<1>3. /\ Tail(longer) \in Seq(S) /\ Len(Tail(longer)) = Len(w)
      /\ \A i \in 1 .. Len(w) : Tail(longer)[i] = longer[i + 1]
  BY <1>1, <1>2, HeadTailProperties
<1> HIDE DEF longer
<1>4. CASE Len(w) < length
  <2>1. Pushed(w, v, length) = longer
    BY <1>1, <1>2, <1>4 DEF Pushed, longer
  <2> QED
    BY <1>1, <1>2, <1>4, <2>1
<1>5. CASE Len(w) >= length
  <2>1. Pushed(w, v, length) = Tail(longer)
    BY <1>1, <1>2, <1>5 DEF Pushed, longer
  <2>2. ASSUME NEW i \in 1 .. Len(w)
        PROVE  Tail(longer)[i] = IF i = Len(w) THEN v ELSE w[i + 1]
    <3>1. Tail(longer)[i] = longer[i + 1]
      BY <1>3
    <3>2. i = Len(w) \/ i + 1 \in 1 .. Len(w)
      BY <1>2
    <3> QED
      BY <1>1, <3>1, <3>2
  <2> QED
    BY <1>2, <1>3, <1>5, <2>1, <2>2
<1> QED
  BY <1>2, <1>4, <1>5

(* The filter's estimate of a window that is not empty is an integer. *)
FilterAnswers == \A w \in Seq(Int) : Len(w) > 0 => FilterValue(w) \in Int

(* tsproc_update_delay() keeps the domain. *)
LEMMA UpdateDelayType ==
    ASSUME NEW tsp \in TsprocRecord,
           FilterAnswers
    PROVE  UpdateDelay(tsp) \in TsprocRecord
<1> DEFINE window == Pushed(tsp.window, RawDelay(tsp), FilterLength)
<1>1. window \in Seq(Int) /\ Len(window) > 0
  <2>1. tsp.window \in Seq(Int) /\ RawDelay(tsp) \in Int
    BY RawDelayInt DEF TsprocRecord
  <2>2. window \in Seq(Int)
    BY <2>1, PushedType, TsprocAssumption
  <2> QED
    BY <2>1, <2>2, PushedValues, LenProperties, TsprocAssumption
<1>2. FilterValue(window) \in Int
  BY <1>1 DEF FilterAnswers
<1> HIDE DEF window
<1>3. [tsp EXCEPT !.window = window, !.filtered_delay = FilterValue(window),
                  !.filtered_delay_valid = TRUE] \in TsprocRecord
  BY <1>1, <1>2 DEF TsprocRecord
<1> QED
  BY <1>3 DEF UpdateDelay, window

(***************************************************************************)
(* The window stays within its length: only a delay is added to it, and a  *)
(* full reset empties it.                                                  *)
(***************************************************************************)
LEMMA WindowLength ==
    ASSUME NEW tsp \in TsprocRecord, Len(tsp.window) <= FilterLength,
           NEW new,
           \/ \E a, b : new = DownTs(tsp, a, b) \/ new = UpTs(tsp, a, b)
           \/ \E ratio : new = SetRateRatio(tsp, ratio)
           \/ \E delay : new = SetDelay(tsp, delay)
           \/ \E full \in BOOLEAN : new = ResetTsproc(tsp, full)
           \/ new = UpdateDelay(tsp)
    PROVE  Len(new.window) <= FilterLength
<1>1. tsp.window \in Seq(Int) /\ RawDelay(tsp) \in Int
  BY RawDelayInt DEF TsprocRecord
<1>2. new.window = tsp.window \/ new.window = <<>>
          \/ new.window = Pushed(tsp.window, RawDelay(tsp), FilterLength)
  BY DEF DownTs, UpTs, SetRateRatio, SetDelay, ResetTsproc, UpdateDelay,
         TsprocRecord
<1>3. Len(Pushed(tsp.window, RawDelay(tsp), FilterLength)) <= FilterLength
  BY <1>1, PushedValues, LenProperties, TsprocAssumption
<1> QED
  BY <1>2, <1>3, EmptySeq, TsprocAssumption

-----------------------------------------------------------------------------
USE DEF ServoStates

(***************************************************************************)
(* The proportional and the integral term of the controller have the sign  *)
(* of the offset: the gains and the weight are not negative.               *)
(***************************************************************************)
LEMMA TermSign ==
    ASSUME NEW gain \in Nat, NEW offset \in Int, NEW weight \in Nat
    PROVE  /\ Term(gain, offset, weight) \in Int
           /\ offset >= 0 => Term(gain, offset, weight) >= 0
           /\ offset < 0 => Term(gain, offset, weight) <= 0
<1> DEFINE p == gain * offset
<1>1. /\ p \in Int
      /\ offset >= 0 => p >= 0
      /\ offset < 0 => p <= 0
  OBVIOUS
<1> HIDE DEF p
<1>2. /\ p * weight \in Int
      /\ p >= 0 => p * weight >= 0
      /\ p <= 0 => p * weight <= 0
  BY <1>1
<1>3. One \in Nat \ {0}
  BY OneAssumption
<1>4. TmvDiv(0, One) = 0
  BY <1>3 DEF TmvDiv
<1>5. Term(gain, offset, weight) = TmvDiv(p * weight, One)
  BY DEF Term, Times, p
<1>6. /\ TmvDiv(p * weight, One) \in Int
      /\ p * weight >= 0 => TmvDiv(p * weight, One) >= 0
      /\ p * weight < 0 => TmvDiv(p * weight, One) <= 0
  BY <1>2, <1>3, DivSign
<1> QED
  BY <1>1, <1>2, <1>4, <1>5, <1>6

(***************************************************************************)
(* The clamp of pi_sample() keeps a value in the range of the clock.       *)
(***************************************************************************)
LEMMA ClampRange ==
    ASSUME NEW freq \in Int
    PROVE  Clamp(freq) \in -MaxFrequency .. MaxFrequency
  BY ServoAssumption DEF Clamp

-----------------------------------------------------------------------------
(* servo_create() establishes the invariant. *)
LEMMA InitInv ==
    ASSUME NEW initial_adj \in -MaxFrequency .. MaxFrequency,
           PiInit(initial_adj)
    PROVE  PiInv
  BY ServoAssumption, PiAssumption
  DEF PiInit, ServoInit, PiInv, PiTypeOK, ServoTypeOK, FreqInRange,
      LockConsistent

(***************************************************************************)
(* The switch of servo_sample(): a step leaves JUMP and a full count-down, *)
(* a lock leaves LOCKED or, at the end of the count-down, LOCKED_STABLE.   *)
(***************************************************************************)
LEMMA ConcludeJump ==
    ASSUME NEW offset \in Int, Conclude("JUMP", offset)
    PROVE  /\ state' = "JUMP" /\ first_update' \in BOOLEAN
           /\ curr_offset_values' = NumOffsetValues /\ small_seen' = 0
  BY DEF Conclude

(* The verdict LOCKED counts a small offset down, and is STABLE at zero. *)
LEMMA ConcludeLocked ==
    ASSUME NEW offset \in Int, PiInv, Conclude("LOCKED", offset)
    PROVE  /\ state' \in {"LOCKED", "LOCKED_STABLE"}
           /\ first_update' \in BOOLEAN
           /\ curr_offset_values' \in 0 .. NumOffsetValues
           /\ small_seen' \in 0 .. NumOffsetValues
           /\ state' = "LOCKED_STABLE" =>
                  OffsetThreshold # 0 /\ curr_offset_values' = 0
           /\ OffsetThreshold # 0 =>
                  curr_offset_values' + small_seen' = NumOffsetValues
<1>1. /\ Remaining(offset) \in 0 .. NumOffsetValues
      /\ SmallSeen(offset) \in 0 .. NumOffsetValues
      /\ OffsetThreshold # 0 =>
             Remaining(offset) + SmallSeen(offset) = NumOffsetValues
  BY ServoAssumption DEF PiInv, PiTypeOK, ServoTypeOK, LockConsistent,
                         Remaining, SmallSeen, AbsVal
<1> QED
  BY <1>1 DEF Conclude, OffsetStable

(***************************************************************************)
(* One call of servo_sample(): whatever offset, time stamp and weight it   *)
(* gets, it keeps the invariant.                                           *)
(***************************************************************************)
LEMMA SampleInv ==
    ASSUME NEW offset \in Int, NEW local_ts \in Nat, NEW weight \in Nat,
           PiInv, ServoSample(offset, local_ts, weight)
    PROVE  PiInv'
<1> USE ServoAssumption
<1>2. CASE FirstSample(offset, local_ts)
  BY <1>2 DEF FirstSample, Conclude, PiInv, PiTypeOK, ServoTypeOK, FreqInRange,
              LockConsistent, freqVars
<1>3. CASE NotNewer(offset, local_ts)
  BY <1>3 DEF NotNewer, Conclude, PiInv, PiTypeOK, ServoTypeOK, FreqInRange,
              LockConsistent, freqVars
<1>4. CASE TooSoon(offset, local_ts)
  BY <1>4 DEF TooSoon, Conclude, PiInv, PiTypeOK, ServoTypeOK, FreqInRange,
              LockConsistent, freqVars, acquireVars
<1>5. CASE SecondSample(offset, local_ts)
  <2>1. Estimate(offset, local_ts) \in -MaxFrequency .. MaxFrequency
    <3>1. local_ts - local0 \in Nat \ {0}
      BY <1>5 DEF SecondSample, PiInv, PiTypeOK
    <3>2. (NsPerSec - drift) * (offset - offset0) \in Int
      BY PiAssumption DEF PiInv, PiTypeOK
    <3>3. TmvDiv((NsPerSec - drift) * (offset - offset0), local_ts - local0)
            \in Int
      BY <3>1, <3>2, DivSign
    <3>4. drift + TmvDiv((NsPerSec - drift) * (offset - offset0),
                         local_ts - local0) \in Int
      BY <3>3 DEF PiInv, PiTypeOK
    <3> QED
      BY <3>4, ClampRange DEF Estimate
  <2>2. /\ drift' \in Int /\ drift' \in -MaxFrequency .. MaxFrequency
        /\ last_freq' = drift' /\ adj' = drift'
        /\ count' = 2
        /\ UNCHANGED <<offset0, local0>>
    BY <1>5, <2>1 DEF SecondSample
  <2>3. CASE MustStep(AbsVal(offset))
    <3>1. Conclude("JUMP", offset)
      BY <1>5, <2>3 DEF SecondSample
    <3> QED
      BY <2>2, <3>1, ConcludeJump DEF PiInv, PiTypeOK, ServoTypeOK,
                                      FreqInRange, LockConsistent
  <2>4. CASE ~MustStep(AbsVal(offset))
    <3>1. Conclude("LOCKED", offset)
      BY <1>5, <2>4 DEF SecondSample
    <3> QED
      BY <2>2, <3>1, ConcludeLocked DEF PiInv, PiTypeOK, ServoTypeOK,
                                        FreqInRange, LockConsistent
  <2> QED
    BY <2>3, <2>4
<1>6. CASE OffsetTooLarge(offset)
  BY <1>6 DEF OffsetTooLarge, Conclude, PiInv, PiTypeOK, ServoTypeOK,
              FreqInRange, LockConsistent, freqVars
<1>7. CASE Track(offset, weight)
  <2> DEFINE kp_term == Term(Kp, offset, weight)
             ki_term == Term(Ki, offset, weight)
             ppb     == kp_term + drift + ki_term
  <2>1. /\ kp_term \in Int /\ ki_term \in Int
        /\ offset >= 0 => kp_term >= 0 /\ ki_term >= 0
        /\ offset < 0 => kp_term <= 0 /\ ki_term <= 0
    BY PiAssumption, TermSign
  <2>2. drift \in Int /\ drift \in -MaxFrequency .. MaxFrequency
    BY DEF PiInv, PiTypeOK, FreqInRange
  <2>3. ppb \in Int /\ Clamp(ppb) \in -MaxFrequency .. MaxFrequency
    BY <2>1, <2>2, ClampRange
  <2>4. Clamp(ppb) = ppb => drift + ki_term \in -MaxFrequency .. MaxFrequency
    BY <2>1, <2>2, <2>3
  <2>5. /\ last_freq' = Clamp(ppb) /\ adj' = Clamp(ppb)
        /\ drift' = IF Clamp(ppb) = ppb THEN drift + ki_term ELSE drift
        /\ count = 2 /\ count' = 2 /\ UNCHANGED <<offset0, local0>>
        /\ Conclude("LOCKED", offset)
    BY <1>7 DEF Track, acquireVars
  <2> HIDE DEF kp_term, ki_term, ppb
  <2>6. /\ drift' \in -MaxFrequency .. MaxFrequency
        /\ last_freq' \in -MaxFrequency .. MaxFrequency
        /\ adj' \in Int
    BY <2>2, <2>3, <2>4, <2>5
  <2> QED
    BY <2>5, <2>6, ConcludeLocked DEF PiInv, PiTypeOK, ServoTypeOK,
                                      FreqInRange, LockConsistent
<1> QED
  BY <1>2, <1>3, <1>4, <1>5, <1>6, <1>7 DEF ServoSample

(* servo_reset() keeps it as well. *)
LEMMA ResetInv == PiInv /\ ServoReset => PiInv'
  BY DEF ServoReset, PiInv, PiTypeOK, ServoTypeOK, FreqInRange, LockConsistent,
         servoVars, freqVars

(***************************************************************************)
(* What one call of servo_sample() may do to the state it announced.       *)
(***************************************************************************)
LEMMA SampleStep ==
    ASSUME NEW offset \in Int, NEW local_ts \in Nat, NEW weight \in Nat,
           PiInv, ServoSample(offset, local_ts, weight)
    PROVE  /\ state' = "JUMP" => count = 1 /\ state = "UNLOCKED"
           /\ state = "LOCKED_STABLE" =>
                  \/ state' = "LOCKED_STABLE"
                  \/ /\ state' = "UNLOCKED"
                     /\ curr_offset_values' = NumOffsetValues
<1>1. CASE FirstSample(offset, local_ts) \/ NotNewer(offset, local_ts)
           \/ TooSoon(offset, local_ts) \/ OffsetTooLarge(offset)
  <2>1. Conclude("UNLOCKED", offset)
    BY <1>1 DEF FirstSample, NotNewer, TooSoon, OffsetTooLarge
  <2> QED
    BY <2>1 DEF Conclude
<1>2. CASE SecondSample(offset, local_ts)
  BY <1>2 DEF SecondSample, PiInv, LockConsistent
<1>3. CASE Track(offset, weight)
  <2>1. Conclude("LOCKED", offset)
    BY <1>3 DEF Track
  <2>2. state' \in {"LOCKED", "LOCKED_STABLE"}
    BY <2>1, ConcludeLocked
  <2>3. state = "LOCKED_STABLE" => OffsetStable(offset)
    BY DEF PiInv, LockConsistent, OffsetStable, Remaining
  <2> QED
    BY <2>1, <2>2, <2>3 DEF Conclude
<1> QED
  BY <1>1, <1>2, <1>3 DEF ServoSample
=============================================================================
