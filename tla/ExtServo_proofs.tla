-------------------------- MODULE ExtServo_proofs ---------------------------
(***************************************************************************)
(* Proofs that the properties of the main loop hold for every mode, gain,  *)
(* threshold and sequence of datagrams and failures; and, further down,    *)
(* those of the loop closed over ptp4l, for every path, error of the clock *)
(* and queue.                                                              *)
(***************************************************************************)
EXTENDS MonitorLoop, Calls_proofs

(* The domain of what the loop keeps beside the servo. *)
LoopTypeOK ==
    /\ tsp \in TsprocRecord
    /\ data \in Datagram
    /\ msg_type \in Kinds /\ master_time \in Int /\ slave_time \in Nat

(* main() never calls servo_reset(): only an unlocking sample clears count. *)
LockedCount == count = 0 => state = "UNLOCKED"

EInv == PiInv /\ LoopTypeOK /\ LockedCount /\ ClockInRange /\ ClockFollowsServo

(* servo_sample() returns what it remembers as last_freq. *)
LEMMA AdjIsLastFreq ==
    ASSUME NEW offset \in Int, NEW local_ts \in Nat, NEW weight \in Nat,
           ServoSample(offset, local_ts, weight)
    PROVE  adj' = last_freq'
  BY DEF ServoSample, FirstSample, NotNewer, TooSoon, SecondSample,
         OffsetTooLarge, Track, freqVars

(* A sample answered UNLOCKED leaves the frequency of the servo alone. *)
LEMMA UnlockedKeepsFreq ==
    ASSUME NEW offset \in Int, NEW local_ts \in Nat, NEW weight \in Nat,
           ServoSample(offset, local_ts, weight), state' = "UNLOCKED"
    PROVE  last_freq' = last_freq
<1>1. CASE SecondSample(offset, local_ts)
  BY <1>1 DEF SecondSample, Conclude
<1>2. CASE Track(offset, weight)
  BY <1>2 DEF Track, Conclude
<1> QED
  BY <1>1, <1>2 DEF ServoSample, FirstSample, NotNewer, TooSoon,
                    OffsetTooLarge, freqVars

(* A sample that clears the acquisition counter unlocks. *)
LEMMA SampleCount ==
    ASSUME NEW offset \in Int, NEW local_ts \in Nat, NEW weight \in Nat,
           ServoSample(offset, local_ts, weight)
    PROVE  LockedCount'
<1>1. CASE SecondSample(offset, local_ts) \/ Track(offset, weight)
           \/ TooSoon(offset, local_ts) \/ FirstSample(offset, local_ts)
  BY <1>1 DEF SecondSample, Track, TooSoon, FirstSample, acquireVars,
              LockedCount
<1>2. CASE NotNewer(offset, local_ts) \/ OffsetTooLarge(offset)
  BY <1>2 DEF NotNewer, OffsetTooLarge, Conclude, LockedCount
<1> QED
  BY <1>1, <1>2 DEF ServoSample

(***************************************************************************)
(* With step_threshold = 0 a locked servo tracks, whatever the offset.     *)
(***************************************************************************)
LEMMA LockedSampleTracks ==
    ASSUME PiInv, LockedCount, StepThreshold = 0, state # "UNLOCKED",
           NEW offset \in Int, NEW local_ts \in Nat, NEW weight \in Nat,
           ServoSample(offset, local_ts, weight)
    PROVE  state' \in {"LOCKED", "LOCKED_STABLE"}
<1>1. count = 2
  BY DEF PiInv, PiTypeOK, LockConsistent, LockedCount
<1>2. Track(offset, weight)
  BY <1>1 DEF ServoSample, FirstSample, NotNewer, TooSoon, SecondSample,
              OffsetTooLarge
<1> QED
  BY <1>2 DEF Track, Conclude

(***************************************************************************)
(* An iteration that samples the servo.                                    *)
(***************************************************************************)
LEMMA SampledInv ==
    ASSUME EInv, NEW stamped \in TsprocRecord, NEW local_ts \in Nat,
           Sampled(stamped, local_ts)
    PROVE  PiInv' /\ tsp' \in TsprocRecord /\ LockedCount' /\ ClockInRange'
           /\ ClockFollowsServo'
<1> DEFINE offset == MasterOffset(stamped)
           weight == OffsetWeight(stamped)
           rated  == SetRateRatio(stamped, One)
<1>1. offset \in Int /\ weight \in Nat
  BY MasterOffsetInt, WeightRange, OneAssumption
<1>2. ServoSample(offset, local_ts, weight) /\ Actuate(rated, offset)
  BY DEF Sampled
<1> HIDE DEF offset, weight
<1>3. PiInv' /\ adj' = last_freq'
  BY <1>1, <1>2, SampleInv, AdjIsLastFreq DEF EInv
<1>4. rated \in TsprocRecord /\ ResetTsproc(rated, FALSE) \in TsprocRecord
  BY OneAssumption, RatioType, ResetType
<1> HIDE DEF rated
<1>5. tsp' \in TsprocRecord
  BY <1>2, <1>4 DEF Actuate
<1>6. /\ -adj' \in -MaxFrequency .. MaxFrequency
      /\ last_freq' \in Int
  <2>1. last_freq' \in -MaxFrequency .. MaxFrequency
    BY <1>3 DEF PiInv, FreqInRange
  <2>2. \A f \in -MaxFrequency .. MaxFrequency :
            f \in Int /\ -f \in -MaxFrequency .. MaxFrequency
    BY ServoAssumption
  <2>3. adj' = last_freq'
    BY <1>3
  <2> QED
    BY <2>1, <2>2, <2>3
<1>7. ClockInRange'
  BY <1>2, <1>6 DEF Actuate, SetFreq, SetPhase, EInv, ClockInRange, clockVars
<1>8. ClockFollowsServo'
  <2>1. CASE state' = "UNLOCKED"
    <3>1. UNCHANGED <<hw_freq, freq_failed, last_freq>>
      BY <1>1, <1>2, <2>1, UnlockedKeepsFreq DEF Actuate, clockVars
    <3> QED
      BY <2>1, <3>1 DEF EInv, ClockFollowsServo
  <2>2. CASE state' \in {"JUMP", "LOCKED"}
    BY <1>2, <1>3, <2>2 DEF Actuate, SetFreq, ClockFollowsServo
  <2>3. CASE state' = "LOCKED_STABLE"
    BY <1>3, <2>3 DEF PiInv, LockConsistent, ClockFollowsServo
  <2> QED
    BY <1>3, <2>1, <2>2, <2>3 DEF PiInv, PiTypeOK, ServoTypeOK, ServoStates
<1>9. LockedCount'
  BY <1>1, <1>2, SampleCount
<1> QED
  BY <1>3, <1>5, <1>7, <1>8, <1>9

(***************************************************************************)
(* Whatever msg_type and the two times are, dispatching on them keeps the  *)
(* invariant.                                                              *)
(***************************************************************************)
LEMMA DispatchInv ==
    ASSUME FilterAnswers,
           EInv, NEW read, Dispatch(read),
           master_time' \in Int, slave_time' \in Nat
    PROVE  PiInv' /\ tsp' \in TsprocRecord /\ LockedCount' /\ ClockInRange'
           /\ ClockFollowsServo'
<1>1. tsp \in TsprocRecord
  BY DEF EInv, LoopTypeOK
<1>2. ASSUME UNCHANGED <<piVars, clockVars>>
      PROVE  PiInv' /\ LockedCount' /\ ClockInRange' /\ ClockFollowsServo'
  BY <1>2 DEF EInv, PiInv, PiTypeOK, ServoTypeOK, FreqInRange, LockConsistent,
              LockedCount, ClockInRange, ClockFollowsServo, piVars, servoVars, acquireVars,
              freqVars, clockVars
<1>3. CASE ClockUpdate(master_time', slave_time')
  <2> DEFINE stamped == DownTs(tsp, master_time', slave_time')
  <2>1. stamped \in TsprocRecord
    BY <1>1, StampsType
  <2>2. NoOffset(stamped) \/ Sampled(stamped, slave_time')
    BY <1>3 DEF ClockUpdate
  <2> HIDE DEF stamped
  <2>3. CASE NoOffset(stamped)
    BY <1>2, <2>1, <2>3 DEF NoOffset
  <2>4. CASE Sampled(stamped, slave_time')
    BY <2>1, <2>4, SampledInv
  <2> QED
    BY <2>2, <2>3, <2>4
<1>4. CASE PathDelay(slave_time', master_time')
  <2>1. UpTs(tsp, slave_time', master_time') \in TsprocRecord
    BY <1>1, StampsType
  <2>2. UpdateDelay(UpTs(tsp, slave_time', master_time')) \in TsprocRecord
    BY <2>1, UpdateDelayType
  <2> QED
    BY <1>2, <1>4, <2>2 DEF PathDelay
<1>5. CASE UNCHANGED <<piVars, tsp, clockVars>>
  BY <1>1, <1>2, <1>5
<1> QED
  BY <1>3, <1>4, <1>5 DEF Dispatch

(* process_message() stores times of the kind it reads. *)
LEMMA MessageType ==
    ASSUME LoopTypeOK, NEW d \in Datagram, ProcessMessage(d)
    PROVE  /\ msg_type' \in Kinds
           /\ master_time' \in Int /\ slave_time' \in Nat
  BY DEF LoopTypeOK, ProcessMessage, Datagram

(***************************************************************************)
(* The invariant of the main loop.                                         *)
(***************************************************************************)
LEMMA InitEInv == Init => EInv
<1> SUFFICES ASSUME Init PROVE EInv
  OBVIOUS
<1>1. hw_freq \in -MaxFrequency .. MaxFrequency
  BY ExtServoAssumption DEF Init
<1>2. -hw_freq \in -MaxFrequency .. MaxFrequency /\ hw_freq = -(-hw_freq)
  BY <1>1, ServoAssumption
<1>3. PiInit(-hw_freq)
  BY DEF Init
<1>4. PiInv
  BY <1>2, <1>3, InitInv
<1>5. LoopTypeOK
  BY ExtServoAssumption, NewTsprocType DEF Init, LoopTypeOK, Datagram
<1>6. ClockInRange
  BY <1>1, ServoAssumption DEF Init, ClockInRange
<1>7. ClockFollowsServo
  BY <1>2, <1>3 DEF PiInit, ClockFollowsServo
<1>8. LockedCount
  BY <1>3 DEF PiInit, ServoInit, LockedCount
<1> QED
  BY <1>4, <1>5, <1>6, <1>7, <1>8 DEF EInv

(* An iteration that reads a datagram keeps the invariant. *)
LEMMA ReceiveEInv ==
    ASSUME FilterAnswers,
           EInv, NEW d \in Datagram, Receive(d)
    PROVE  EInv'
<1>1. msg_type' \in Kinds /\ master_time' \in Int /\ slave_time' \in Nat
  BY MessageType DEF Receive, EInv
<1>2. PiInv' /\ tsp' \in TsprocRecord /\ LockedCount' /\ ClockInRange'
         /\ ClockFollowsServo'
  BY <1>1, DispatchInv DEF Receive
<1> QED
  BY <1>1, <1>2 DEF Receive, EInv, LoopTypeOK

(* Every iteration of the loop, also a failing one, keeps the invariant. *)
LEMMA StepEInv ==
    ASSUME FilterAnswers,
           EInv, [Next]_vars
    PROVE  EInv'
<1>1. ASSUME NEW d \in Datagrams, Receive(d) PROVE EInv'
  BY <1>1, ReceiveEInv, ExtServoAssumption
<1>2. CASE ReceiveError
  <2>1. data \in Datagram /\ data' = data
    BY <1>2 DEF ReceiveError, EInv, LoopTypeOK
  <2>2. msg_type' \in Kinds /\ master_time' \in Int /\ slave_time' \in Nat
    BY <1>2, <2>1, MessageType DEF ReceiveError, EInv
  <2>3. PiInv' /\ tsp' \in TsprocRecord /\ LockedCount' /\ ClockInRange'
           /\ ClockFollowsServo'
    BY <1>2, <2>2, DispatchInv DEF ReceiveError
  <2> QED
    BY <2>1, <2>2, <2>3 DEF EInv, LoopTypeOK
<1>3. CASE UNCHANGED <<piVars, tsp, msgVars, clockVars>>
  BY <1>3 DEF EInv, LoopTypeOK, PiInv, PiTypeOK, ServoTypeOK, FreqInRange,
              LockConsistent, LockedCount, ClockInRange, ClockFollowsServo, piVars,
              servoVars, acquireVars, freqVars, clockVars, msgVars
<1> QED
  BY <1>1, <1>2, <1>3 DEF Next, PollError, vars

(* The invariant holds whatever main() reads, replays or fails to set. *)
THEOREM LoopInvariance ==
    ASSUME FilterAnswers
    PROVE  Spec => []EInv
<1>1. EInv /\ [Next]_vars => EInv'
  BY StepEInv
<1> QED
  BY InitEInv, <1>1, PTL DEF Spec

-----------------------------------------------------------------------------
\* The domain of what the loop keeps of its own
RestTypeOK ==
    /\ running \in BOOLEAN /\ synced \in BOOLEAN /\ freq_failed \in BOOLEAN
    /\ hw_step \in Int
    /\ last.read \in Kinds \union {"nothing", "error"}
    /\ last.done \in {"nothing", "clock_update", "path_delay"}

(* The step is the negated offset, or none. *)
LEMMA StepInt ==
    ASSUME NEW stamped \in TsprocRecord, NEW local_ts, Sampled(stamped, local_ts)
    PROVE  hw_step' \in {-MasterOffset(stamped), 0} /\ hw_step' \in Int
<1>1. MasterOffset(stamped) \in Int
  BY MasterOffsetInt
<1>2. Actuate(SetRateRatio(stamped, One), MasterOffset(stamped))
  BY DEF Sampled
<1>3. hw_step' = -MasterOffset(stamped) \/ hw_step' = 0
  BY <1>2, Zenon DEF Actuate, Step
<1> QED
  BY <1>1, <1>3

(* An iteration keeps the rest of the domain. *)
LEMMA DispatchTypes ==
    ASSUME EInv, RestTypeOK, NEW read \in Kinds \union {"error"}, Dispatch(read),
           master_time' \in Int, slave_time' \in Nat, running' = running
    PROVE  RestTypeOK'
<1>1. last'.read = read /\ last'.done \in {"nothing", "clock_update", "path_delay"}
  BY DEF Dispatch
<1>2. CASE ClockUpdate(master_time', slave_time')
  <2> DEFINE stamped == DownTs(tsp, master_time', slave_time')
  <2>1. stamped \in TsprocRecord
    BY StampsType DEF EInv, LoopTypeOK
  <2>2. NoOffset(stamped) \/ Sampled(stamped, slave_time')
    BY <1>2 DEF ClockUpdate
  <2> HIDE DEF stamped
  <2>3. CASE NoOffset(stamped)
    BY <1>1, <2>3 DEF NoOffset, clockVars, RestTypeOK
  <2>4. CASE Sampled(stamped, slave_time')
    <3>1. hw_step' \in Int
      BY <2>1, <2>4, StepInt
    <3>2. synced' \in BOOLEAN /\ freq_failed' \in BOOLEAN
      BY <2>4, ExtServoAssumption
      DEF Sampled, Actuate, SetFreq, SetPhase, SetSync, clockVars, RestTypeOK
    <3> QED
      BY <1>1, <3>1, <3>2 DEF RestTypeOK
  <2> QED
    BY <2>2, <2>3, <2>4
<1>3. CASE UNCHANGED clockVars /\ hw_step' = 0
  BY <1>1, <1>3 DEF clockVars, RestTypeOK
<1> QED
  BY <1>2, <1>3 DEF Dispatch, PathDelay

(***************************************************************************)
(* The state of the main loop stays in its domain.                         *)
(***************************************************************************)
THEOREM LoopTypes ==
    ASSUME FilterAnswers
    PROVE  Spec => []TypeOK
<1>1. Init => RestTypeOK
  <2> SUFFICES ASSUME Init  PROVE RestTypeOK
    OBVIOUS
  <2>1. /\ running \in BOOLEAN /\ synced \in BOOLEAN /\ freq_failed \in BOOLEAN
        /\ hw_step = 0 /\ last = [read |-> "nothing", done |-> "nothing"]
    BY DEF Init
  <2> QED
    BY <2>1 DEF RestTypeOK
<1>2. ASSUME EInv, RestTypeOK, [Next]_vars  PROVE RestTypeOK'
  <2>1. ASSUME NEW d \in Datagrams, Receive(d)  PROVE RestTypeOK'
    <3>1. d \in Datagram /\ d.kind \in Kinds
      BY ExtServoAssumption DEF Datagram
    <3>2. master_time' \in Int /\ slave_time' \in Nat
      BY <2>1, <3>1, MessageType, <1>2 DEF Receive, EInv
    <3> QED
      BY <1>2, <2>1, <3>1, <3>2, DispatchTypes DEF Receive
  <2>2. CASE ReceiveError
    <3>1. master_time' \in Int /\ slave_time' \in Nat
      BY <1>2, <2>2, MessageType DEF ReceiveError, EInv, LoopTypeOK
    <3> QED
      BY <1>2, <2>2, <3>1, DispatchTypes DEF ReceiveError
  <2>3. CASE PollError
    <3>1. /\ running' \in BOOLEAN /\ hw_step' = 0
          /\ UNCHANGED <<synced, freq_failed, last>>
      BY <2>3 DEF PollError, clockVars
    <3> QED
      BY <1>2, <3>1 DEF RestTypeOK
  <2>4. CASE UNCHANGED vars
    BY <1>2, <2>4 DEF vars, clockVars, RestTypeOK
  <2> QED
    BY <1>2, <2>1, <2>2, <2>3, <2>4 DEF Next
<1>3. EInv /\ RestTypeOK => TypeOK
  <2>1. ClockInRange => hw_freq \in Int /\ hw_phase \in Int
    BY ServoAssumption DEF ClockInRange
  <2> QED
    BY <2>1 DEF EInv, PiInv, LoopTypeOK, RestTypeOK, TypeOK
<1> QED
  BY <1>1, <1>2, <1>3, LoopInvariance, PTL DEF Spec

(***************************************************************************)
(* Replayed datagrams, uninitialized locals and failing clock_adjtime()    *)
(* notwithstanding, the clock is told to run and slew within its range.    *)
(***************************************************************************)
THEOREM ClockStaysInRange ==
    ASSUME FilterAnswers
    PROVE  Spec => []ClockInRange
  BY LoopInvariance, PTL DEF EInv

(***************************************************************************)
(* Without failures the clock runs at the frequency the servo assumes.     *)
(***************************************************************************)
THEOREM ClockKeepsFollowing ==
    ASSUME FilterAnswers
    PROVE  Spec => []ClockFollowsServo
  BY LoopInvariance, PTL DEF EInv

(* With step_threshold = 0 no message unlocks the servo or steps the clock. *)
LEMMA LockedDispatch ==
    ASSUME EInv, StepThreshold = 0, state # "UNLOCKED",
           NEW read, Dispatch(read), master_time' \in Int, slave_time' \in Nat
    PROVE  state' # "UNLOCKED" /\ hw_step' = 0
<1>1. CASE ClockUpdate(master_time', slave_time')
  <2> DEFINE stamped == DownTs(tsp, master_time', slave_time')
  <2>1. CASE NoOffset(stamped)
    BY <2>1 DEF NoOffset, piVars, servoVars
  <2>2. CASE Sampled(stamped, slave_time')
    <3>1. stamped \in TsprocRecord
      BY StampsType DEF EInv, LoopTypeOK
    <3> HIDE DEF stamped
    <3>2. MasterOffset(stamped) \in Int /\ OffsetWeight(stamped) \in Nat
      BY <3>1, MasterOffsetInt, WeightRange, OneAssumption
    <3>3. ServoSample(MasterOffset(stamped), slave_time', OffsetWeight(stamped))
      BY <2>2 DEF Sampled
    <3>4. state' \in {"LOCKED", "LOCKED_STABLE"}
      BY <3>2, <3>3, LockedSampleTracks DEF EInv
    <3> QED
      BY <2>2, <3>4 DEF Sampled, Actuate
  <2> QED
    BY <1>1, <2>1, <2>2 DEF ClockUpdate
<1>2. CASE PathDelay(slave_time', master_time')
  BY <1>2 DEF PathDelay, piVars, servoVars
<1>3. CASE hw_step' = 0 /\ UNCHANGED <<piVars, tsp, clockVars>>
  BY <1>3 DEF piVars, servoVars
<1> QED
  BY <1>1, <1>2, <1>3 DEF Dispatch

(***************************************************************************)
(* With step_threshold = 0 the first lock is for good: no later iteration  *)
(* unlocks the servo or steps the clock.                                   *)
(***************************************************************************)
THEOREM LockIsForGood ==
    ASSUME FilterAnswers
    PROVE  Spec => LockedForGood
<1> DEFINE OK == StepThreshold = 0 /\ state # "UNLOCKED"
                     => state' # "UNLOCKED" /\ hw_step' = 0
<1>1. ASSUME EInv, [Next]_vars PROVE [OK]_vars
  <2> SUFFICES ASSUME StepThreshold = 0, state # "UNLOCKED", ~UNCHANGED vars
               PROVE  state' # "UNLOCKED" /\ hw_step' = 0
    OBVIOUS
  <2>1. ASSUME NEW d \in Datagrams, Receive(d)
        PROVE  state' # "UNLOCKED" /\ hw_step' = 0
    <3>1. master_time' \in Int /\ slave_time' \in Nat
      BY <1>1, <2>1, MessageType, ExtServoAssumption DEF Receive, EInv
    <3> QED
      BY <1>1, <2>1, <3>1, LockedDispatch DEF Receive
  <2>2. CASE ReceiveError
    <3>1. master_time' \in Int /\ slave_time' \in Nat
      BY <1>1, <2>2, MessageType DEF ReceiveError, EInv, LoopTypeOK
    <3> QED
      BY <1>1, <2>2, <3>1, LockedDispatch DEF ReceiveError
  <2>3. CASE PollError
    BY <2>3 DEF PollError, piVars, servoVars
  <2> QED
    BY <1>1, <2>1, <2>2, <2>3 DEF Next
<1> QED
  BY LoopInvariance, <1>1, PTL DEF Spec, LockedForGood

-----------------------------------------------------------------------------
(***************************************************************************)
(* The closed loop.  Every stamp tells the error that the local clock had  *)
(* at the number of steps it was taken after: f is that error.             *)
(***************************************************************************)
Records == [kind : {"sync", "delay"}, master : Int, slave : Int]
Items == [datagram : Records, epoch : Nat]
Requests == [sent : Int, t3 : Int, epoch : Nat]

Fits(d, ahead) ==
    IF d.kind = "sync" THEN d.slave = d.master + Path + ahead
    ELSE d.master = d.slave - ahead + Path

ErrorsAre(f) ==
    /\ f \in [Nat -> Int] /\ f[steps] = err
    /\ \A i \in 1 .. Len(queue) :
           queue[i].epoch <= steps /\ Fits(queue[i].datagram, f[queue[i].epoch])
    /\ \A r \in requests : r.epoch <= steps /\ r.t3 = r.sent + f[r.epoch]
    /\ tsp.t2 # 0 => tsp.t2 = tsp.t1 + Path + f[stored.down]
    /\ tsp.t3 # 0 => tsp.t4 = tsp.t3 - f[stored.up] + Path

ClosedTypeOK ==
    /\ tsp \in TsprocRecord
    /\ now \in Nat /\ err \in Int /\ steps \in Nat
    /\ queue \in Seq(Items) /\ requests \subseteq Requests
    /\ stored \in [down : Nat, up : Nat]
    /\ stored.down <= steps /\ stored.up <= steps

\* A delay in the filter that is computed from stamps of one time scale is right
DelaysOK ==
    /\ tsp.clock_rate_ratio = One
    /\ matched \in Seq(BOOLEAN) /\ Len(matched) = Len(tsp.window)
    /\ Len(tsp.window) <= FilterLength
    /\ \A i \in 1 .. Len(matched) : matched[i] => tsp.window[i] = Path
    /\ tsp.filtered_delay_valid =>
           Len(tsp.window) > 0 /\ tsp.filtered_delay = FilterValue(tsp.window)

\* The sync that caused a step was stamped before it
Jumped == hw_step # 0 => stored.down < steps

ClosedInv == ClosedTypeOK /\ DelaysOK /\ Jumped /\ \E f : ErrorsAre(f)

(* The filters of a window that holds nothing but the path delay answer it. *)
FilterAgrees ==
    /\ FilterAnswers
    /\ \A w \in Seq(Int) :
           /\ Len(w) > 0 /\ Len(w) <= FilterLength
           /\ \A i \in 1 .. Len(w) : w[i] = Path
           => FilterValue(w) = Path

(***************************************************************************)
(* The offset of stamps and delays of one time scale is its error, in each *)
(* mode.                                                                   *)
(***************************************************************************)
LEMMA OffsetIsError ==
    ASSUME NEW ts \in TsprocRecord, NEW ahead \in Int, ts.clock_rate_ratio = One,
           ts.t2 = ts.t1 + Path + ahead,
           IF ts.mode \in {"FILTER", "FILTER_WEIGHT"} THEN ts.filtered_delay = Path
           ELSE ts.t4 = ts.t3 - ahead + Path
    PROVE  MasterOffset(ts) = ahead
<1>1. Path \in Int /\ ts.t1 \in Int /\ ts.t2 \in Int
  BY MonitorLoopAssumption DEF TsprocRecord
<1>2. CASE ts.mode \in {"FILTER", "FILTER_WEIGHT"}
  BY <1>1, <1>2 DEF MasterOffset
<1>3. CASE ts.mode \in {"RAW", "RAW_WEIGHT"}
  <2>1. ts.t2 = ts.t1 + Path + ahead /\ ts.t4 = ts.t3 - ahead + Path
    BY <1>3
  <2> QED
    BY <1>1, <1>3, <2>1, SymmetricPathIsExact
<1> QED
  BY <1>2, <1>3 DEF TsprocRecord, TsprocModes

(* What an iteration that reads a sync does. *)
LEMMA SyncRead ==
    ASSUME ClosedTypeOK, tsp.clock_rate_ratio = One,
           NEW d \in Records, d.kind = "sync", Receive(d)
    PROVE  LET stamped == DownTs(tsp, d.master, d.slave)
           IN  /\ stamped \in TsprocRecord /\ tsp' \in TsprocRecord
               /\ tsp'.mode = tsp.mode /\ tsp'.window = tsp.window
               /\ tsp'.filtered_delay = tsp.filtered_delay
               /\ tsp'.filtered_delay_valid = tsp.filtered_delay_valid
               /\ tsp'.clock_rate_ratio = One
               /\ tsp'.t2 # 0 => tsp'.t1 = d.master /\ tsp'.t2 = d.slave
               /\ tsp'.t3 # 0 => tsp'.t3 = tsp.t3 /\ tsp'.t4 = tsp.t4
               /\ hw_step' \in Int
               /\ hw_step' # 0 => /\ tsp'.t2 = 0 /\ tsp'.t3 = 0
                                  /\ OffsetReady(stamped)
                                  /\ hw_step' = -MasterOffset(stamped)
<1> DEFINE stamped == DownTs(tsp, d.master, d.slave)
           rated   == SetRateRatio(stamped, One)
           reset   == ResetTsproc(rated, FALSE)
<1>1. d.master \in Int /\ d.slave \in Int /\ tsp \in TsprocRecord /\ One \in Nat
  BY OneAssumption DEF Records, ClosedTypeOK
<1>2. stamped \in TsprocRecord /\ rated \in TsprocRecord /\ reset \in TsprocRecord
  <2>1. stamped \in TsprocRecord
    BY <1>1, StampsType
  <2>2. rated \in TsprocRecord
    BY <1>1, <2>1, RatioType
  <2> QED
    BY <2>1, <2>2, ResetType
<1>3. msg_type' = "sync" /\ master_time' = d.master /\ slave_time' = d.slave
  BY DEF Receive, ProcessMessage
<1>4. NoOffset(stamped) \/ Sampled(stamped, d.slave)
  BY <1>3 DEF Receive, Dispatch, ClockUpdate
<1>5. /\ stamped.t1 = d.master /\ stamped.t2 = d.slave
      /\ stamped.t3 = tsp.t3 /\ stamped.t4 = tsp.t4
      /\ stamped.mode = tsp.mode /\ stamped.window = tsp.window
      /\ stamped.filtered_delay = tsp.filtered_delay
      /\ stamped.filtered_delay_valid = tsp.filtered_delay_valid
      /\ stamped.clock_rate_ratio = One
  BY <1>1 DEF DownTs, TsprocRecord
<1>6. rated = stamped
  BY <1>2, <1>5 DEF SetRateRatio, TsprocRecord
<1>7. /\ reset.t2 = 0 /\ reset.t3 = 0
      /\ reset.mode = tsp.mode /\ reset.window = tsp.window
      /\ reset.filtered_delay = tsp.filtered_delay
      /\ reset.filtered_delay_valid = tsp.filtered_delay_valid
      /\ reset.clock_rate_ratio = One
  BY <1>2, <1>5, <1>6 DEF ResetTsproc, TsprocRecord
<1> HIDE DEF stamped, rated, reset
<1>8. CASE NoOffset(stamped)
  BY <1>2, <1>5, <1>8 DEF NoOffset, stamped
<1>9. CASE Sampled(stamped, d.slave)
  <2>1. OffsetReady(stamped) /\ Actuate(rated, MasterOffset(stamped))
    BY <1>9 DEF Sampled, rated
  <2>2. MasterOffset(stamped) \in Int
    BY <1>2, MasterOffsetInt
  <2>3. \/ tsp' = rated /\ hw_step' = 0
        \/ tsp' = reset /\ (hw_step' = -MasterOffset(stamped) \/ hw_step' = 0)
    BY <2>1, Zenon DEF Actuate, Step, reset
  <2> QED
    BY <1>2, <1>5, <1>6, <1>7, <2>1, <2>2, <2>3 DEF stamped
<1> QED
  BY <1>4, <1>8, <1>9

(* What one that reads a delay exchange does. *)
LEMMA DelayRead ==
    ASSUME ClosedTypeOK, NEW d \in Records, d.kind = "delay", Receive(d), FilterAgrees
    PROVE  /\ hw_step' = 0 /\ tsp' \in TsprocRecord
           /\ tsp'.mode = tsp.mode /\ tsp'.clock_rate_ratio = tsp.clock_rate_ratio
           /\ tsp'.t1 = tsp.t1 /\ tsp'.t2 = tsp.t2
           /\ tsp'.t3 = d.slave /\ tsp'.t4 = d.master
           /\ IF tsp'.t2 = 0 \/ tsp'.t3 = 0
              THEN /\ tsp'.window = tsp.window
                   /\ tsp'.filtered_delay = tsp.filtered_delay
                   /\ tsp'.filtered_delay_valid = tsp.filtered_delay_valid
              ELSE /\ RawDelay(tsp') \in Int
                   /\ tsp'.window = Pushed(tsp.window, RawDelay(tsp'), FilterLength)
                   /\ tsp'.filtered_delay = FilterValue(tsp'.window)
<1> DEFINE stamped == UpTs(tsp, d.slave, d.master)
<1>1. d.master \in Int /\ d.slave \in Int /\ tsp \in TsprocRecord
  BY DEF Records, ClosedTypeOK
<1>2. stamped \in TsprocRecord
  BY <1>1, StampsType
<1>3. msg_type' = "delay" /\ master_time' = d.master /\ slave_time' = d.slave
  BY DEF Receive, ProcessMessage
<1>4. hw_step' = 0 /\ tsp' = UpdateDelay(stamped)
  BY <1>3 DEF Receive, Dispatch, PathDelay
<1>5. /\ stamped.t1 = tsp.t1 /\ stamped.t2 = tsp.t2
      /\ stamped.t3 = d.slave /\ stamped.t4 = d.master
      /\ stamped.mode = tsp.mode /\ stamped.window = tsp.window
      /\ stamped.filtered_delay = tsp.filtered_delay
      /\ stamped.filtered_delay_valid = tsp.filtered_delay_valid
      /\ stamped.clock_rate_ratio = tsp.clock_rate_ratio
  BY <1>1 DEF UpTs, TsprocRecord
<1> HIDE DEF stamped
<1>6. tsp' \in TsprocRecord
  BY <1>2, <1>4, UpdateDelayType DEF FilterAgrees
<1>7. CASE stamped.t2 = 0 \/ stamped.t3 = 0
  BY <1>4, <1>5, <1>6, <1>7 DEF UpdateDelay
<1>8. CASE ~(stamped.t2 = 0 \/ stamped.t3 = 0)
  <2> DEFINE window == Pushed(stamped.window, RawDelay(stamped), FilterLength)
  <2>1. tsp' = [stamped EXCEPT !.window = window,
                               !.filtered_delay = FilterValue(window),
                               !.filtered_delay_valid = TRUE]
    BY <1>4, <1>8 DEF UpdateDelay
  <2> HIDE DEF window
  <2>2. /\ tsp'.t1 = stamped.t1 /\ tsp'.t2 = stamped.t2 /\ tsp'.t3 = stamped.t3
        /\ tsp'.t4 = stamped.t4 /\ tsp'.mode = stamped.mode
        /\ tsp'.clock_rate_ratio = stamped.clock_rate_ratio
        /\ tsp'.window = window /\ tsp'.filtered_delay = FilterValue(window)
    BY <1>2, <2>1 DEF TsprocRecord
  <2>3. RawDelay(tsp') = RawDelay(stamped)
    BY <2>2 DEF RawDelay
  <2>4. RawDelay(tsp') \in Int
    BY <1>6, RawDelayInt
  <2> QED
    BY <1>4, <1>5, <1>6, <1>8, <2>2, <2>3, <2>4 DEF window
<1> QED
  BY <1>7, <1>8

(* The datagram that is read, and those left in the socket. *)
LEMMA QueueRead ==
    ASSUME queue \in Seq(Items), queue # <<>>
    PROVE  /\ Len(queue) >= 1 /\ Len(queue) \in Nat
           /\ Head(queue) = queue[1] /\ Head(queue) \in Items
           /\ Tail(queue) \in Seq(Items) /\ Len(Tail(queue)) = Len(queue) - 1
           /\ \A i \in 1 .. Len(queue) - 1 : Tail(queue)[i] = queue[i + 1]
<1>1. Len(queue) \in Nat /\ Len(queue) # 0
  BY EmptySeq, LenProperties
<1>2. Head(queue) = queue[1] /\ Head(queue) \in Items
  BY <1>1, HeadTailProperties, ElementOfSeq
<1> QED
  BY <1>1, <1>2, HeadTailProperties

(* The iteration is one of the two, and changes the rest with it. *)
LEMMA IterationKinds ==
    ASSUME ClosedTypeOK, Iteration
    PROVE  LET head == Head(queue)
               d    == head.datagram
           IN  /\ queue # <<>> /\ head \in Items /\ d \in Records
               /\ head.epoch \in Nat /\ Receive(d)
               /\ queue' = Tail(queue) /\ requests' = requests /\ now' = now
               /\ err' = err + hw_step'
               /\ hw_step' = 0 => steps' = steps /\ overtaken' = overtaken
               /\ hw_step' # 0 => steps' = steps + 1 /\ Overtakes
               /\ \/ d.kind = "sync" /\ ReadSync(head.epoch)
                  \/ d.kind = "delay" /\ ReadDelay(head.epoch)
<1>1. queue # <<>>
  BY DEF Iteration
<1>2. Head(queue) \in Items
  BY <1>1, QueueRead DEF ClosedTypeOK
<1>3. Head(queue).datagram \in Records /\ Head(queue).epoch \in Nat
  BY <1>2 DEF Items
<1> QED
  BY <1>1, <1>2, <1>3 DEF Iteration

(***************************************************************************)
(* A step from stamps and delays of the present time scale is the negated  *)
(* error of the clock.                                                     *)
(***************************************************************************)
LEMMA StepLands ==
    ASSUME FilterAgrees, ClosedInv, Iteration, hw_step' # 0,
           Consistent(stored', matched')
    PROVE  OffsetReady(DownTs(tsp, Head(queue).datagram.master,
                                   Head(queue).datagram.slave))
           /\ hw_step' = -err /\ err' = 0
<1> DEFINE head == Head(queue)
           d    == head.datagram
           ts   == DownTs(tsp, d.master, d.slave)
<1>1. PICK f : ErrorsAre(f)
  BY DEF ClosedInv
<1>2. /\ queue # <<>> /\ head \in Items /\ d \in Records /\ head.epoch \in Nat
      /\ Receive(d) /\ err' = err + hw_step'
      /\ \/ d.kind = "sync" /\ ReadSync(head.epoch)
         \/ d.kind = "delay" /\ ReadDelay(head.epoch)
  BY IterationKinds DEF ClosedInv
<1>3. d.kind = "sync" /\ ReadSync(head.epoch)
  BY <1>2, DelayRead DEF ClosedInv
<1>4. tsp \in TsprocRecord /\ tsp.clock_rate_ratio = One /\ err \in Int
  BY DEF ClosedInv, ClosedTypeOK, DelaysOK
<1>5. d.master \in Int /\ d.slave \in Int
  BY <1>2 DEF Records
<1>6. /\ ts.t1 = d.master /\ ts.t2 = d.slave /\ ts.t3 = tsp.t3 /\ ts.t4 = tsp.t4
      /\ ts.mode = tsp.mode /\ ts.filtered_delay = tsp.filtered_delay
      /\ ts.filtered_delay_valid = tsp.filtered_delay_valid
      /\ ts.clock_rate_ratio = One
  BY <1>4 DEF DownTs, TsprocRecord
<1>7. /\ ts \in TsprocRecord /\ OffsetReady(ts) /\ tsp'.mode = tsp.mode
      /\ hw_step' = -MasterOffset(ts)
  BY <1>2, <1>3, <1>4, SyncRead DEF ClosedInv
<1> HIDE DEF ts
<1>8. head.epoch = steps /\ Fits(d, err) /\ matched' = matched
  <2>1. stored'.down = head.epoch /\ matched' = matched
    BY <1>3 DEF ReadSync, ClosedInv, ClosedTypeOK
  <2>2. stored'.down = steps
    BY DEF Consistent
  <2>3. head = queue[1] /\ 1 \in 1 .. Len(queue)
    BY <1>2, QueueRead DEF ClosedInv, ClosedTypeOK
  <2>4. Fits(d, f[head.epoch])
    BY <1>1, <2>3 DEF ErrorsAre
  <2> QED
    BY <1>1, <2>1, <2>2, <2>4 DEF ErrorsAre
<1>9. ts.t2 = ts.t1 + Path + err
  BY <1>3, <1>6, <1>8 DEF Fits
<1>10. CASE tsp.mode \in {"FILTER", "FILTER_WEIGHT"}
  <2>1. \A i \in DOMAIN matched : matched[i]
    BY <1>7, <1>8, <1>10 DEF Consistent, FilterMode
  <2>2. matched \in Seq(BOOLEAN) /\ DOMAIN matched = 1 .. Len(matched)
    BY DEF ClosedInv, DelaysOK
  <2>3. /\ tsp.window \in Seq(Int) /\ Len(tsp.window) > 0
        /\ Len(tsp.window) <= FilterLength
        /\ \A i \in 1 .. Len(tsp.window) : tsp.window[i] = Path
        /\ tsp.filtered_delay = FilterValue(tsp.window)
    BY <1>4, <1>6, <1>7, <1>10, <2>1, <2>2
    DEF OffsetReady, ClosedInv, DelaysOK, TsprocRecord
  <2>4. FilterValue(tsp.window) = Path
    BY <2>3, MonitorLoopAssumption DEF FilterAgrees
  <2>5. MasterOffset(ts) = err
    BY <1>4, <1>6, <1>7, <1>9, <1>10, <2>3, <2>4, OffsetIsError
  <2> QED
    BY <1>2, <1>4, <1>7, <2>5 DEF ts
<1>11. CASE tsp.mode \notin {"FILTER", "FILTER_WEIGHT"}
  <2>1. stored'.up = steps
    BY <1>7, <1>11 DEF Consistent, FilterMode
  <2>2. stored.up = steps
    BY <1>3, <2>1 DEF ReadSync, ClosedInv, ClosedTypeOK
  <2>3. tsp.t3 # 0
    BY <1>6, <1>7, <1>11 DEF OffsetReady
  <2>4. ts.t4 = ts.t3 - err + Path
    BY <1>1, <1>6, <2>2, <2>3 DEF ErrorsAre
  <2>5. MasterOffset(ts) = err
    BY <1>4, <1>6, <1>7, <1>9, <1>11, <2>4, OffsetIsError
  <2> QED
    BY <1>2, <1>4, <1>7, <2>5 DEF ts
<1> QED
  BY <1>10, <1>11

(* The loop starts with nothing told, stored or measured. *)
LEMMA ClosedInit == LoopInit => ClosedInv
<1> SUFFICES ASSUME LoopInit  PROVE ClosedInv
  OBVIOUS
<1>1. PICK mode \in TsprocModes : tsp = NewTsproc(mode)
  BY ExtServoAssumption DEF LoopInit, Init
<1>2. /\ tsp \in TsprocRecord /\ tsp.t2 = 0 /\ tsp.t3 = 0 /\ tsp.window = <<>>
      /\ tsp.clock_rate_ratio = One /\ ~tsp.filtered_delay_valid
  BY <1>1, NewTsprocType DEF NewTsproc
<1>3. /\ now \in Nat /\ err \in Int /\ steps = 0 /\ queue = <<>> /\ requests = {}
      /\ stored = [down |-> 0, up |-> 0] /\ matched = <<>>
  BY MonitorLoopAssumption DEF LoopInit
<1>4. ClosedTypeOK
  BY <1>2, <1>3 DEF ClosedTypeOK
<1>5. DelaysOK
  <2>1. Len(tsp.window) = 0 /\ FilterLength \in Nat
    BY <1>2, EmptySeq, TsprocAssumption
  <2> QED
    BY <1>2, <1>3, <2>1 DEF DelaysOK
<1>6. ErrorsAre([e \in Nat |-> err])
  BY <1>2, <1>3 DEF ErrorsAre
<1>7. Jumped
  BY DEF Jumped, LoopInit, Init
<1> QED
  BY <1>4, <1>5, <1>6, <1>7 DEF ClosedInv

(* Something is sent, or reaches the socket. *)
LEMMA ArrivalStep ==
    ASSUME ClosedInv, SyncArrives \/ RequestSent \/ ResponseArrives
    PROVE  ClosedInv'
<1>1. PICK f : ErrorsAre(f)
  BY DEF ClosedInv
<1>2. UNCHANGED <<tsp, hw_step, err, steps, stored, matched>>
  BY DEF SyncArrives, RequestSent, ResponseArrives, vars
<1>3. DelaysOK' /\ Jumped'
  BY <1>2 DEF ClosedInv, DelaysOK, Jumped
<1>4. /\ now \in Nat /\ err \in Int /\ steps \in Nat /\ Path \in Nat
      /\ queue \in Seq(Items) /\ requests \subseteq Requests
      /\ f \in [Nat -> Int] /\ f[steps] = err
  BY <1>1, MonitorLoopAssumption DEF ClosedInv, ClosedTypeOK, ErrorsAre
<1>5. ASSUME NEW d \in Records, NEW e \in Nat, e <= steps, Fits(d, f[e]), Waits(d, e)
      PROVE  /\ queue' \in Seq(Items)
             /\ \A i \in 1 .. Len(queue') :
                    /\ queue'[i].epoch <= steps
                    /\ Fits(queue'[i].datagram, f[queue'[i].epoch])
  <2> DEFINE item == [datagram |-> d, epoch |-> e]
  <2>1. item \in Items /\ item.datagram = d /\ item.epoch = e
    BY <1>5 DEF Items
  <2>2. queue' = Append(queue, item)
    BY <1>5 DEF Waits
  <2> HIDE DEF item
  <2>3. /\ queue' \in Seq(Items) /\ Len(queue') = Len(queue) + 1
        /\ queue'[Len(queue) + 1] = item
        /\ \A i \in 1 .. Len(queue) : queue'[i] = queue[i]
    BY <1>4, <2>1, <2>2, AppendProperties
  <2>4. Len(queue) \in Nat
    BY <1>4, LenProperties
  <2>5. ASSUME NEW i \in 1 .. Len(queue')
        PROVE  /\ queue'[i].epoch <= steps
               /\ Fits(queue'[i].datagram, f[queue'[i].epoch])
    <3>1. i \in 1 .. Len(queue) \/ i = Len(queue) + 1
      BY <2>3, <2>4
    <3>2. CASE i \in 1 .. Len(queue)
      BY <1>1, <2>3, <3>2 DEF ErrorsAre
    <3>3. CASE i = Len(queue) + 1
      BY <1>5, <2>1, <2>3, <3>3
    <3> QED
      BY <3>1, <3>2, <3>3
  <2> QED
    BY <2>3, <2>5
<1>6. CASE SyncArrives
  <2> DEFINE d == [kind |-> "sync", master |-> now, slave |-> now + Path + err]
  <2>1. d \in Records /\ Fits(d, err)
    BY <1>4 DEF Records, Fits
  <2>2. Waits(d, steps) /\ requests' = requests /\ now' = now + 1
    BY <1>6 DEF SyncArrives
  <2> HIDE DEF d
  <2>3. /\ queue' \in Seq(Items)
        /\ \A i \in 1 .. Len(queue') :
               /\ queue'[i].epoch <= steps
               /\ Fits(queue'[i].datagram, f[queue'[i].epoch])
    BY <1>4, <1>5, <2>1, <2>2, SMTT(30)
  <2>4. ClosedTypeOK'
    BY <1>2, <1>4, <2>2, <2>3 DEF ClosedInv, ClosedTypeOK
  <2>5. ErrorsAre(f)'
    BY <1>1, <1>2, <2>2, <2>3 DEF ErrorsAre
  <2> QED
    BY <1>3, <2>4, <2>5 DEF ClosedInv
<1>7. CASE RequestSent
  <2> DEFINE r == [sent |-> now, t3 |-> now + err, epoch |-> steps]
  <2>1. requests' = requests \union {r} /\ UNCHANGED <<now, queue>>
    BY <1>7 DEF RequestSent
  <2>2. r \in Requests /\ r.epoch <= steps /\ r.t3 = r.sent + f[r.epoch]
    BY <1>4 DEF Requests
  <2> HIDE DEF r
  <2>3. ClosedTypeOK'
    BY <1>2, <1>4, <2>1, <2>2 DEF ClosedInv, ClosedTypeOK
  <2>4. ErrorsAre(f)'
    BY <1>1, <1>2, <2>1, <2>2 DEF ErrorsAre
  <2> QED
    BY <1>3, <2>3, <2>4 DEF ClosedInv
<1>8. CASE ResponseArrives
  <2>1. PICK r \in requests :
            /\ Waits([kind |-> "delay", master |-> r.sent + Path, slave |-> r.t3],
                     r.epoch)
            /\ requests' = requests \ {r}
            /\ now' = now
    BY <1>8 DEF ResponseArrives
  <2> DEFINE d == [kind |-> "delay", master |-> r.sent + Path, slave |-> r.t3]
  <2>2. /\ r.sent \in Int /\ r.t3 \in Int /\ r.epoch \in Nat /\ r.epoch <= steps
        /\ r.t3 = r.sent + f[r.epoch] /\ f[r.epoch] \in Int
    BY <1>1, <1>4 DEF ErrorsAre, Requests
  <2>3. d \in Records /\ Fits(d, f[r.epoch])
    BY <1>4, <2>2, SMTT(30) DEF Records, Fits
  <2>4. Waits(d, r.epoch)
    BY <2>1
  <2> HIDE DEF d
  <2>5. /\ queue' \in Seq(Items)
        /\ \A i \in 1 .. Len(queue') :
               /\ queue'[i].epoch <= steps
               /\ Fits(queue'[i].datagram, f[queue'[i].epoch])
    BY <1>5, <2>2, <2>3, <2>4
  <2>6. ClosedTypeOK'
    BY <1>2, <1>4, <2>1, <2>5 DEF ClosedInv, ClosedTypeOK
  <2>7. ErrorsAre(f)'
    BY <1>1, <1>2, <2>1, <2>5 DEF ErrorsAre
  <2> QED
    BY <1>3, <2>6, <2>7 DEF ClosedInv
<1> QED
  BY <1>6, <1>7, <1>8

(* The history of the filter's delays moves with its window. *)
LEMMA DelaysMove ==
    ASSUME NEW w, w \in Seq(Int), NEW m, m \in Seq(BOOLEAN), Len(m) = Len(w),
           Len(w) <= FilterLength, \A i \in 1 .. Len(m) : m[i] => w[i] = Path,
           NEW raw, raw \in Int, NEW same, same \in BOOLEAN, same => raw = Path
    PROVE  LET w2 == Pushed(w, raw, FilterLength)
               m2 == Pushed(m, same, FilterLength)
           IN  /\ m2 \in Seq(BOOLEAN) /\ Len(m2) = Len(w2) /\ Len(w2) > 0
               /\ Len(w2) <= FilterLength
               /\ \A i \in 1 .. Len(m2) : m2[i] => w2[i] = Path
<1> DEFINE w2 == Pushed(w, raw, FilterLength)
           m2 == Pushed(m, same, FilterLength)
<1>1. Len(m) \in Nat /\ FilterLength \in Nat /\ FilterLength > 0
  BY LenProperties, TsprocAssumption
<1>2. /\ m2 \in Seq(BOOLEAN)
      /\ Len(m) < FilterLength =>
             /\ Len(m2) = Len(m) + 1 /\ m2[Len(m) + 1] = same
             /\ \A i \in 1 .. Len(m) : m2[i] = m[i]
      /\ Len(m) >= FilterLength =>
             /\ Len(m2) = Len(m)
             /\ \A i \in 1 .. Len(m) : m2[i] = IF i = Len(m) THEN same ELSE m[i + 1]
  <2>1. ASSUME NEW S, m \in Seq(S), same \in S
        PROVE  /\ m2 \in Seq(S)
               /\ Len(m) < FilterLength =>
                      /\ Len(m2) = Len(m) + 1 /\ m2[Len(m) + 1] = same
                      /\ \A i \in 1 .. Len(m) : m2[i] = m[i]
               /\ Len(m) >= FilterLength =>
                      /\ Len(m2) = Len(m)
                      /\ \A i \in 1 .. Len(m) :
                             m2[i] = IF i = Len(m) THEN same ELSE m[i + 1]
    BY <1>1, <2>1, PushedValues
  <2> HIDE DEF m2
  <2> QED
    BY <2>1
<1>3. /\ Len(m) < FilterLength =>
             /\ Len(w2) = Len(m) + 1 /\ w2[Len(m) + 1] = raw
             /\ \A i \in 1 .. Len(m) : w2[i] = w[i]
      /\ Len(m) >= FilterLength =>
             /\ Len(w2) = Len(m)
             /\ \A i \in 1 .. Len(m) : w2[i] = IF i = Len(m) THEN raw ELSE w[i + 1]
  <2>1. ASSUME NEW S, w \in Seq(S), raw \in S
        PROVE  /\ Len(w) < FilterLength =>
                      /\ Len(w2) = Len(w) + 1 /\ w2[Len(w) + 1] = raw
                      /\ \A i \in 1 .. Len(w) : w2[i] = w[i]
               /\ Len(w) >= FilterLength =>
                      /\ Len(w2) = Len(w)
                      /\ \A i \in 1 .. Len(w) :
                             w2[i] = IF i = Len(w) THEN raw ELSE w[i + 1]
    BY <1>1, <2>1, PushedValues
  <2> HIDE DEF w2
  <2> QED
    BY <2>1
<1> HIDE DEF w2, m2
<1>4. Len(m2) = Len(w2) /\ Len(w2) > 0 /\ Len(w2) <= FilterLength
  BY <1>1, <1>2, <1>3
<1>5. ASSUME NEW i \in 1 .. Len(m2)
      PROVE  \/ m2[i] = same /\ w2[i] = raw
             \/ \E j \in 1 .. Len(m) : m2[i] = m[j] /\ w2[i] = w[j]
  <2>1. CASE Len(m) < FilterLength
    <3>1. i = Len(m) + 1 \/ i \in 1 .. Len(m)
      BY <1>1, <1>2, <2>1
    <3> QED
      BY <1>2, <1>3, <2>1, <3>1
  <2>2. CASE Len(m) >= FilterLength
    <3>1. i \in 1 .. Len(m) /\ (i = Len(m) \/ i + 1 \in 1 .. Len(m))
      BY <1>1, <1>2, <2>2
    <3> QED
      BY <1>2, <1>3, <2>2, <3>1
  <2> QED
    BY <1>1, <2>1, <2>2
<1>6. \A i \in 1 .. Len(m2) : m2[i] => w2[i] = Path
  BY <1>5
<1> QED
  BY <1>2, <1>4, <1>6 DEF w2, m2

(* A delay that enters the filter is right if its stamps are of one scale. *)
LEMMA FilterStep ==
    ASSUME FilterAgrees, ClosedInv, NEW f, ErrorsAre(f), NEW d \in Records,
           d.kind = "delay", NEW e \in Nat, Fits(d, f[e]), Receive(d), ReadDelay(e)
    PROVE  DelaysOK'
<1>1. /\ tsp' \in TsprocRecord /\ tsp'.clock_rate_ratio = One
      /\ tsp'.t1 = tsp.t1 /\ tsp'.t2 = tsp.t2
      /\ tsp'.t3 = d.slave /\ tsp'.t4 = d.master
      /\ IF tsp'.t2 = 0 \/ tsp'.t3 = 0
         THEN /\ tsp'.window = tsp.window
              /\ tsp'.filtered_delay = tsp.filtered_delay
              /\ tsp'.filtered_delay_valid = tsp.filtered_delay_valid
         ELSE /\ RawDelay(tsp') \in Int
              /\ tsp'.window = Pushed(tsp.window, RawDelay(tsp'), FilterLength)
              /\ tsp'.filtered_delay = FilterValue(tsp'.window)
  BY DelayRead DEF ClosedInv, DelaysOK
<1>2. CASE tsp'.t2 = 0 \/ tsp'.t3 = 0
  <2>1. matched' = matched
    BY <1>2 DEF ReadDelay
  <2> QED
    BY <1>1, <1>2, <2>1 DEF ClosedInv, DelaysOK
<1>3. CASE ~(tsp'.t2 = 0 \/ tsp'.t3 = 0)
  <2>1. e = stored.down => RawDelay(tsp') = Path
    <3> SUFFICES ASSUME e = stored.down  PROVE RawDelay(tsp') = Path
      OBVIOUS
    <3>1. /\ Path \in Int /\ tsp'.t1 \in Int /\ tsp'.t2 \in Int
          /\ tsp'.t3 \in Int /\ tsp'.t4 \in Int
      BY <1>1, MonitorLoopAssumption DEF TsprocRecord
    <3>a. f[e] \in Int
      BY DEF ErrorsAre
    <3>2. tsp'.t2 = tsp'.t1 + Path + f[e] /\ tsp'.t4 = tsp'.t3 - f[e] + Path
      BY <1>1, <1>3 DEF ErrorsAre, Fits
    <3>3. (tsp'.t2 - tsp'.t3) + (tsp'.t4 - tsp'.t1) = 2 * Path
      BY <3>1, <3>a, <3>2
    <3>4. RawDelay(tsp') = TmvDiv((tsp'.t2 - tsp'.t3) + (tsp'.t4 - tsp'.t1), 2)
      BY <1>1 DEF RawDelay
    <3>5. TmvDiv(2 * Path, 2) = Path
      BY <3>1, HalfOfDouble
    <3> QED
      BY <3>3, <3>4, <3>5
  <2>2. /\ matched \in Seq(BOOLEAN) /\ tsp.window \in Seq(Int)
        /\ Len(matched) = Len(tsp.window) /\ Len(tsp.window) <= FilterLength
        /\ \A i \in 1 .. Len(matched) : matched[i] => tsp.window[i] = Path
    BY DEF ClosedInv, ClosedTypeOK, DelaysOK, TsprocRecord
  <2>3. PICK same : same \in BOOLEAN /\ same = (e = stored.down)
    OBVIOUS
  <2>4. PICK raw : raw = RawDelay(tsp')
    OBVIOUS
  <2>5. raw \in Int /\ (same => raw = Path)
    BY <1>1, <1>3, <2>1, <2>3, <2>4
  <2>6. /\ matched' = Pushed(matched, same, FilterLength)
        /\ tsp'.window = Pushed(tsp.window, raw, FilterLength)
    BY <1>1, <1>3, <2>3, <2>4 DEF ReadDelay
  <2>7. PICK w, m : w = tsp.window /\ m = matched
    OBVIOUS
  <2>8. /\ w \in Seq(Int) /\ m \in Seq(BOOLEAN) /\ Len(m) = Len(w)
        /\ Len(w) <= FilterLength
        /\ \A i \in 1 .. Len(m) : m[i] => w[i] = Path
    BY <2>2, <2>7
  <2>9. /\ Pushed(m, same, FilterLength) \in Seq(BOOLEAN)
        /\ Len(Pushed(m, same, FilterLength)) = Len(Pushed(w, raw, FilterLength))
        /\ Len(Pushed(w, raw, FilterLength)) > 0
        /\ Len(Pushed(w, raw, FilterLength)) <= FilterLength
        /\ \A i \in 1 .. Len(Pushed(m, same, FilterLength)) :
               Pushed(m, same, FilterLength)[i]
                   => Pushed(w, raw, FilterLength)[i] = Path
    <3>1. same \in BOOLEAN
      BY <2>3
    <3>2. /\ raw \in Int /\ w \in Seq(Int) /\ m \in Seq(BOOLEAN)
          /\ Len(m) = Len(w) /\ Len(w) <= FilterLength
      BY <2>5, <2>8
    <3>3. same => raw = Path
      BY <2>5
    <3>4. \A i \in 1 .. Len(m) : m[i] => w[i] = Path
      BY <2>8
    <3>5. Pushed(m, same, FilterLength) \in Seq(BOOLEAN)
      BY <3>1, <3>2, <3>3, <3>4, DelaysMove
    <3>6. Len(Pushed(m, same, FilterLength)) = Len(Pushed(w, raw, FilterLength))
      BY <3>1, <3>2, <3>3, <3>4, DelaysMove, SMTT(30)
    <3>7. /\ Len(Pushed(w, raw, FilterLength)) > 0
          /\ Len(Pushed(w, raw, FilterLength)) <= FilterLength
      BY <3>1, <3>2, <3>3, <3>4, DelaysMove
    <3>8. \A i \in 1 .. Len(Pushed(m, same, FilterLength)) :
               Pushed(m, same, FilterLength)[i]
                   => Pushed(w, raw, FilterLength)[i] = Path
      BY <3>1, <3>2, <3>3, <3>4, <3>5, <3>6, DelaysMove, SMTT(30)
    <3> QED
      BY <3>5, <3>6, <3>7, <3>8
  <2>10. /\ matched' \in Seq(BOOLEAN) /\ Len(matched') = Len(tsp'.window)
         /\ Len(tsp'.window) > 0 /\ Len(tsp'.window) <= FilterLength
         /\ \A i \in 1 .. Len(matched') : matched'[i] => tsp'.window[i] = Path
    BY <2>6, <2>7, <2>9
  <2> QED
    BY <1>1, <1>3, <2>10 DEF DelaysOK
<1> QED
  BY <1>2, <1>3

(* An iteration of the loop. *)
LEMMA IterationStep ==
    ASSUME FilterAgrees, ClosedInv, Iteration
    PROVE  ClosedInv'
<1> DEFINE head == Head(queue)
           d    == head.datagram
<1>1. PICK f : ErrorsAre(f)
  BY DEF ClosedInv
<1>2. /\ queue # <<>> /\ head \in Items /\ d \in Records /\ head.epoch \in Nat
      /\ Receive(d) /\ queue' = Tail(queue) /\ requests' = requests /\ now' = now
      /\ err' = err + hw_step'
      /\ hw_step' = 0 => steps' = steps
      /\ hw_step' # 0 => steps' = steps + 1
      /\ \/ d.kind = "sync" /\ ReadSync(head.epoch)
         \/ d.kind = "delay" /\ ReadDelay(head.epoch)
  BY IterationKinds DEF ClosedInv
<1>3. /\ err \in Int /\ steps \in Nat /\ now \in Nat /\ requests \subseteq Requests
      /\ stored.down \in Nat /\ stored.up \in Nat
      /\ stored.down <= steps /\ stored.up <= steps
      /\ tsp \in TsprocRecord /\ tsp.clock_rate_ratio = One
      /\ f \in [Nat -> Int] /\ f[steps] = err
  BY <1>1 DEF ClosedInv, ClosedTypeOK, DelaysOK, ErrorsAre
<1>4. head.epoch <= steps /\ Fits(d, f[head.epoch])
  <2>1. head = queue[1] /\ 1 \in 1 .. Len(queue)
    BY <1>2, QueueRead DEF ClosedInv, ClosedTypeOK
  <2> QED
    BY <1>1, <2>1 DEF ErrorsAre
<1>5. /\ queue' \in Seq(Items) /\ Len(queue') = Len(queue) - 1 /\ Len(queue) \in Nat
      /\ \A i \in 1 .. Len(queue') : queue'[i] = queue[i + 1]
  BY <1>2, QueueRead DEF ClosedInv, ClosedTypeOK
<1>6. \A i \in 1 .. Len(queue') :
          /\ queue'[i].epoch <= steps /\ queue'[i] \in Items
          /\ Fits(queue'[i].datagram, f[queue'[i].epoch])
  <2> TAKE i \in 1 .. Len(queue')
  <2>1. queue'[i] = queue[i + 1] /\ i + 1 \in 1 .. Len(queue)
    BY <1>5
  <2> QED
    BY <1>1, <2>1, ElementOfSeq DEF ErrorsAre, ClosedInv, ClosedTypeOK
<1> HIDE DEF head, d
<1>7. ASSUME d.kind = "delay", ReadDelay(head.epoch)
      PROVE  ClosedInv'
  <2>1. /\ hw_step' = 0 /\ tsp' \in TsprocRecord
        /\ tsp'.t1 = tsp.t1 /\ tsp'.t2 = tsp.t2
        /\ tsp'.t3 = d.slave /\ tsp'.t4 = d.master
    BY <1>2, <1>7, DelayRead DEF ClosedInv
  <2>2. DelaysOK'
    BY <1>1, <1>2, <1>3, <1>4, <1>7, FilterStep
  <2>3. steps' = steps /\ err' = err
    BY <1>2, <1>3, <2>1
  <2>4. stored' = [stored EXCEPT !.up = head.epoch]
    BY <1>7 DEF ReadDelay
  <2>5. /\ stored' \in [down : Nat, up : Nat]
        /\ stored'.down = stored.down /\ stored'.up = head.epoch
    BY <1>2, <2>4 DEF ClosedInv, ClosedTypeOK
  <2>6. ClosedTypeOK'
    BY <1>2, <1>3, <1>4, <1>5, <2>1, <2>3, <2>5 DEF ClosedTypeOK
  <2>7. tsp'.t4 = tsp'.t3 - f[head.epoch] + Path
    BY <1>4, <1>7, <2>1 DEF Fits
  <2>8. ErrorsAre(f)'
    BY <1>1, <1>2, <1>3, <1>6, <2>1, <2>3, <2>5, <2>7 DEF ErrorsAre
  <2> QED
    BY <2>1, <2>2, <2>6, <2>8 DEF ClosedInv, Jumped
<1>8. ASSUME d.kind = "sync", ReadSync(head.epoch)
      PROVE  ClosedInv'
  <2>1. /\ tsp' \in TsprocRecord /\ tsp'.window = tsp.window
        /\ tsp'.filtered_delay = tsp.filtered_delay
        /\ tsp'.filtered_delay_valid = tsp.filtered_delay_valid
        /\ tsp'.clock_rate_ratio = One
        /\ tsp'.t2 # 0 => tsp'.t1 = d.master /\ tsp'.t2 = d.slave
        /\ tsp'.t3 # 0 => tsp'.t3 = tsp.t3 /\ tsp'.t4 = tsp.t4
        /\ hw_step' \in Int
    BY <1>2, <1>3, <1>8, SyncRead DEF ClosedInv
  <2>2. stored' = [stored EXCEPT !.down = head.epoch] /\ matched' = matched
    BY <1>8 DEF ReadSync
  <2>3. /\ stored' \in [down : Nat, up : Nat]
        /\ stored'.down = head.epoch /\ stored'.up = stored.up
    BY <1>2, <2>2 DEF ClosedInv, ClosedTypeOK
  <2>4. DelaysOK'
    BY <2>1, <2>2 DEF ClosedInv, DelaysOK
  <2>5. /\ err' \in Int /\ steps' \in Nat /\ steps' >= steps
        /\ hw_step' # 0 => steps' = steps + 1
    <3>1. err' \in Int
      BY <1>2, <1>3, <2>1
    <3>2. steps' = steps \/ steps' = steps + 1
      BY <1>2
    <3> QED
      BY <1>2, <1>3, <3>1, <3>2, SMTT(30)
  <2>6. Jumped'
    BY <1>2, <1>3, <1>4, <2>3, <2>5 DEF Jumped
  <2>7. ClosedTypeOK'
    <3>1. stored'.down <= steps' /\ stored'.up <= steps'
      BY <1>2, <1>3, <1>4, <2>3, <2>5, SMTT(30)
    <3>2. now' \in Nat /\ requests' \subseteq Requests
      BY <1>2, <1>3
    <3> QED
      BY <1>5, <2>1, <2>3, <2>5, <3>1, <3>2 DEF ClosedTypeOK
  <2>8. PICK g : /\ g \in [Nat -> Int] /\ g[steps'] = err'
                 /\ \A e \in Nat : e <= steps => g[e] = f[e]
    <3>1. CASE hw_step' = 0
      <4>1. steps' = steps /\ err' = err
        BY <1>2, <1>3, <3>1
      <4> QED
        BY <1>3, <4>1
    <3>2. CASE hw_step' # 0
      <4> DEFINE h == [f EXCEPT ![steps + 1] = err']
      <4>1. h \in [Nat -> Int] /\ h[steps'] = err'
        BY <1>3, <2>5, <3>2
      <4>2. \A e \in Nat : e <= steps => h[e] = f[e]
        BY <1>3
      <4> QED
        BY <4>1, <4>2
    <3> QED
      BY <3>1, <3>2
  <2>9. \A i \in 1 .. Len(queue') :
            /\ queue'[i].epoch <= steps'
            /\ Fits(queue'[i].datagram, g[queue'[i].epoch])
    <3> TAKE i \in 1 .. Len(queue')
    <3>1. /\ queue'[i].epoch \in Nat /\ queue'[i].epoch <= steps
          /\ Fits(queue'[i].datagram, f[queue'[i].epoch])
      BY <1>6 DEF Items
    <3>2. g[queue'[i].epoch] = f[queue'[i].epoch]
      BY <2>8, <3>1
    <3> QED
      BY <1>3, <2>5, <3>1, <3>2
  <2>10. \A r \in requests' : r.epoch <= steps' /\ r.t3 = r.sent + g[r.epoch]
    <3> TAKE r \in requests'
    <3>1. r.epoch \in Nat /\ r.epoch <= steps /\ r.t3 = r.sent + f[r.epoch]
      BY <1>1, <1>2, <1>3 DEF ErrorsAre, Requests
    <3> QED
      BY <1>3, <2>5, <2>8, <3>1
  <2>11. tsp'.t2 # 0 => tsp'.t2 = tsp'.t1 + Path + g[stored'.down]
    BY <1>2, <1>4, <1>8, <2>1, <2>3, <2>8 DEF Fits
  <2>12. tsp'.t3 # 0 => tsp'.t4 = tsp'.t3 - g[stored'.up] + Path
    BY <1>1, <1>3, <2>1, <2>3, <2>8 DEF ErrorsAre
  <2>13. ErrorsAre(g)'
    BY <2>8, <2>9, <2>10, <2>11, <2>12 DEF ErrorsAre
  <2> QED
    BY <2>4, <2>6, <2>7, <2>13 DEF ClosedInv
<1> QED
  BY <1>2, <1>7, <1>8

(***************************************************************************)
(* Every reachable state of the closed loop is one in which each stamp     *)
(* tells an error that the local clock once had.                           *)
(***************************************************************************)
LEMMA ClosedInvariance ==
    ASSUME FilterAgrees
    PROVE  LoopSpec => []ClosedInv
<1>1. ClosedInv /\ [LoopNext]_allVars => ClosedInv'
  <2> SUFFICES ASSUME ClosedInv, [LoopNext]_allVars  PROVE ClosedInv'
    OBVIOUS
  <2>1. CASE Iteration
    BY <2>1, IterationStep
  <2>2. CASE SyncArrives \/ RequestSent \/ ResponseArrives
    BY <2>2, ArrivalStep
  <2>3. CASE UNCHANGED allVars
    BY <2>3 DEF allVars, loopVars, vars, clockVars, ClosedInv, ClosedTypeOK,
                DelaysOK, Jumped, ErrorsAre
  <2> QED
    BY <2>1, <2>2, <2>3 DEF LoopNext
<1> QED
  BY <1>1, ClosedInit, PTL DEF LoopSpec

(***************************************************************************)
(* A step that is computed from stamps and delays of one time scale lands  *)
(* on the master: for every path, error, mode, filter and gain, and every  *)
(* interleaving of syncs, exchanges and reads.                             *)
(***************************************************************************)
THEOREM StepsLand ==
    ASSUME FilterAgrees
    PROVE  LoopSpec => StepLandsOnMaster
<1>1. ClosedInv /\ [LoopNext]_allVars
          => [hw_step' # 0 /\ Consistent(stored', matched') => err' = 0]_allVars
  <2> SUFFICES ASSUME ClosedInv, [LoopNext]_allVars,
                      hw_step' # 0, Consistent(stored', matched')
               PROVE  err' = 0 \/ UNCHANGED allVars
    OBVIOUS
  <2>1. CASE Iteration
    BY <2>1, StepLands
  <2>2. CASE SyncArrives \/ RequestSent \/ ResponseArrives
    <3>1. UNCHANGED <<hw_step, steps, stored>>
      BY <2>2 DEF SyncArrives, RequestSent, ResponseArrives, vars, clockVars
    <3>2. stored.down < steps /\ stored.down = steps /\ steps \in Nat
      BY <3>1 DEF ClosedInv, ClosedTypeOK, Jumped, Consistent
    <3> QED
      BY <3>2
  <2> QED
    BY <2>1, <2>2 DEF LoopNext
<1> QED
  BY <1>1, ClosedInvariance, PTL DEF LoopSpec, StepLandsOnMaster

-----------------------------------------------------------------------------
(***************************************************************************)
(* After the first step.  As long as it overtook nothing that matters,     *)
(* each offset is computed from what was stamped after it, so a second     *)
(* step would be one of 0.                                                 *)
(***************************************************************************)
Clean == "delay" \notin overtaken /\ (FilterMode => overtaken = {})

AllMatched == \A i \in 1 .. Len(matched) : matched[i]

Settled ==
    /\ err = 0
    /\ \A r \in requests : r.epoch = 1
    /\ \A i \in 1 .. Len(queue) :
           queue[i].datagram.kind = "delay" \/ FilterMode => queue[i].epoch = 1
    /\ \A i, j \in 1 .. Len(queue) :
           i < j /\ queue[i].datagram.kind = "delay" => queue[j].epoch = 1
    /\ tsp.t3 # 0 =>
           stored.up = 1 /\ \A i \in 1 .. Len(queue) : queue[i].epoch = 1
    /\ FilterMode => (tsp.t2 # 0 => stored.down = 1) /\ AllMatched

Fresh ==
    /\ steps = 0 => AllMatched
    /\ steps = 1 /\ Clean => Settled
    /\ OneStepSuffices

(* A datagram joins the others in the socket. *)
LEMMA QueueGrows ==
    ASSUME queue \in Seq(Items), NEW d \in Records, NEW e \in Nat, Waits(d, e)
    PROVE  /\ Len(queue) \in Nat /\ Len(queue') = Len(queue) + 1
           /\ queue'[Len(queue) + 1].epoch = e
           /\ queue'[Len(queue) + 1].datagram = d
           /\ \A i \in 1 .. Len(queue) : queue'[i] = queue[i]
<1> DEFINE item == [datagram |-> d, epoch |-> e]
<1>1. item \in Items /\ item.datagram = d /\ item.epoch = e
  BY DEF Items
<1>2. queue' = Append(queue, item)
  BY DEF Waits
<1> HIDE DEF item
<1>3. /\ Len(queue') = Len(queue) + 1 /\ queue'[Len(queue) + 1] = item
      /\ \A i \in 1 .. Len(queue) : queue'[i] = queue[i]
  BY <1>1, <1>2, AppendProperties
<1> QED
  BY <1>1, <1>3, LenProperties

(* What arrives after the step was stamped after it. *)
LEMMA FreshArrives ==
    ASSUME ClosedInv, Fresh, SyncArrives \/ RequestSent \/ ResponseArrives
    PROVE  Fresh'
<1>1. UNCHANGED <<tsp, err, steps, stored, matched, overtaken>>
  BY DEF SyncArrives, RequestSent, ResponseArrives, vars
<1>2. (FilterMode' <=> FilterMode) /\ (Clean' <=> Clean)
      /\ (AllMatched' <=> AllMatched) /\ (OneStepSuffices' <=> OneStepSuffices)
  BY <1>1 DEF FilterMode, Clean, AllMatched, OneStepSuffices
<1>3. /\ now \in Nat /\ err \in Int /\ Path \in Nat /\ steps \in Nat
      /\ queue \in Seq(Items) /\ requests \subseteq Requests
  BY MonitorLoopAssumption DEF ClosedInv, ClosedTypeOK
<1>4. ASSUME steps = 1, Clean  PROVE Settled'
  <2>1. Settled
    BY <1>4 DEF Fresh
  <2>2. ASSUME NEW d \in Records, Waits(d, 1)
        PROVE  /\ \A i \in 1 .. Len(queue') :
                      queue'[i].datagram.kind = "delay" \/ FilterMode
                          => queue'[i].epoch = 1
               /\ \A i, j \in 1 .. Len(queue') :
                      i < j /\ queue'[i].datagram.kind = "delay"
                          => queue'[j].epoch = 1
               /\ tsp.t3 # 0 => \A i \in 1 .. Len(queue') : queue'[i].epoch = 1
    <3>1. /\ Len(queue) \in Nat /\ Len(queue') = Len(queue) + 1
          /\ queue'[Len(queue) + 1].epoch = 1
          /\ \A i \in 1 .. Len(queue) : queue'[i] = queue[i]
      BY <1>3, <2>2, QueueGrows
    <3>2. \A i \in 1 .. Len(queue') :
              \/ queue'[i].epoch = 1
              \/ i \in 1 .. Len(queue) /\ queue'[i] = queue[i]
      BY <3>1
    <3> QED
      BY <2>1, <3>1, <3>2 DEF Settled
  <2>3. CASE SyncArrives
    <3> DEFINE d == [kind |-> "sync", master |-> now, slave |-> now + Path + err]
    <3>1. d \in Records
      BY <1>3 DEF Records
    <3>2. Waits(d, 1) /\ requests' = requests
      BY <1>4, <2>3 DEF SyncArrives
    <3> QED
      BY <1>1, <1>2, <2>1, <2>2, <3>1, <3>2 DEF Settled
  <2>4. CASE RequestSent
    <3>1. queue' = queue /\ \A r \in requests' : r \in requests \/ r.epoch = 1
      BY <1>4, <2>4 DEF RequestSent
    <3> QED
      BY <1>1, <1>2, <2>1, <3>1 DEF Settled
  <2>5. CASE ResponseArrives
    <3>1. PICK r \in requests :
              /\ Waits([kind |-> "delay", master |-> r.sent + Path, slave |-> r.t3],
                       r.epoch)
              /\ requests' = requests \ {r}
      BY <2>5 DEF ResponseArrives
    <3> DEFINE d == [kind |-> "delay", master |-> r.sent + Path, slave |-> r.t3]
    <3>2. r.sent \in Int /\ r.t3 \in Int /\ r.epoch = 1
      BY <1>3, <2>1 DEF Settled, Requests
    <3>3. d \in Records
      BY <1>3, <3>2 DEF Records
    <3>4. Waits(d, 1)
      BY <3>1, <3>2
    <3> QED
      BY <1>1, <1>2, <2>1, <2>2, <3>1, <3>3, <3>4 DEF Settled
  <2> QED
    BY <2>3, <2>4, <2>5
<1> QED
  BY <1>1, <1>2, <1>4 DEF Fresh

(* A history of matched delays remains one. *)
LEMMA AllTruePushed ==
    ASSUME NEW m, m \in Seq(BOOLEAN), NEW same, same \in BOOLEAN
    PROVE  LET m2 == Pushed(m, same, FilterLength)
           IN  (\A i \in 1 .. Len(m) : m[i]) /\ same
                   => \A i \in 1 .. Len(m2) : m2[i]
<1> DEFINE m2 == Pushed(m, same, FilterLength)
<1>1. Len(m) \in Nat /\ FilterLength \in Nat
  BY LenProperties, TsprocAssumption
<1>2. /\ Len(m) < FilterLength =>
             /\ Len(m2) = Len(m) + 1 /\ m2[Len(m) + 1] = same
             /\ \A i \in 1 .. Len(m) : m2[i] = m[i]
      /\ Len(m) >= FilterLength =>
             /\ Len(m2) = Len(m)
             /\ \A i \in 1 .. Len(m) : m2[i] = IF i = Len(m) THEN same ELSE m[i + 1]
  <2>1. ASSUME NEW S, m \in Seq(S), same \in S
        PROVE  /\ m2 \in Seq(S)
               /\ Len(m) < FilterLength =>
                      /\ Len(m2) = Len(m) + 1 /\ m2[Len(m) + 1] = same
                      /\ \A i \in 1 .. Len(m) : m2[i] = m[i]
               /\ Len(m) >= FilterLength =>
                      /\ Len(m2) = Len(m)
                      /\ \A i \in 1 .. Len(m) :
                             m2[i] = IF i = Len(m) THEN same ELSE m[i + 1]
    BY <1>1, <2>1, PushedValues
  <2> HIDE DEF m2
  <2> QED
    BY <2>1
<1> HIDE DEF m2
<1>3. ASSUME \A i \in 1 .. Len(m) : m[i], same, NEW i \in 1 .. Len(m2)
      PROVE  m2[i]
  <2>1. CASE Len(m) < FilterLength
    <3>1. i = Len(m) + 1 \/ i \in 1 .. Len(m)
      BY <1>1, <1>2, <2>1
    <3> QED
      BY <1>2, <1>3, <2>1, <3>1
  <2>2. CASE Len(m) >= FilterLength
    <3>1. i \in 1 .. Len(m) /\ (i = Len(m) \/ i + 1 \in 1 .. Len(m))
      BY <1>1, <1>2, <2>2
    <3> QED
      BY <1>2, <1>3, <2>2, <3>1
  <2> QED
    BY <1>1, <2>1, <2>2
<1> QED
  BY <1>3 DEF m2

(* What an iteration does to what Fresh speaks of. *)
LEMMA IterationFacts ==
    ASSUME FilterAgrees, ClosedInv, Iteration
    PROVE  LET head == Head(queue)
               d    == head.datagram
           IN  /\ head = queue[1] /\ head.epoch \in Nat /\ head.epoch <= steps
               /\ Len(queue) \in Nat /\ Len(queue) >= 1
               /\ Len(queue') = Len(queue) - 1
               /\ \A i \in 1 .. Len(queue') : queue'[i] = queue[i + 1]
               /\ queue' = Tail(queue) /\ requests' = requests
               /\ err' = err + hw_step'
               /\ hw_step' = 0 => steps' = steps /\ overtaken' = overtaken
               /\ hw_step' # 0 => steps' = steps + 1 /\ Overtakes
               /\ FilterMode' <=> FilterMode
               /\ \/ /\ d.kind = "sync" /\ matched' = matched
                     /\ stored'.down = head.epoch /\ stored'.up = stored.up
                     /\ tsp'.t3 # 0 => tsp.t3 # 0
                     /\ hw_step' # 0 =>
                            /\ tsp'.t2 = 0 /\ tsp'.t3 = 0
                            /\ ~FilterMode => tsp.t3 # 0
                  \/ /\ d.kind = "delay" /\ hw_step' = 0
                     /\ stored'.up = head.epoch /\ stored'.down = stored.down
                     /\ tsp'.t2 = tsp.t2
                     /\ \/ matched' = matched
                        \/ /\ tsp.t2 # 0
                           /\ AllMatched /\ head.epoch = stored.down => AllMatched'
<1> DEFINE head == Head(queue)
           d    == head.datagram
<1>1. /\ queue # <<>> /\ head \in Items /\ d \in Records /\ head.epoch \in Nat
      /\ Receive(d) /\ queue' = Tail(queue) /\ requests' = requests
      /\ err' = err + hw_step'
      /\ hw_step' = 0 => steps' = steps /\ overtaken' = overtaken
      /\ hw_step' # 0 => steps' = steps + 1 /\ Overtakes
      /\ \/ d.kind = "sync" /\ ReadSync(head.epoch)
         \/ d.kind = "delay" /\ ReadDelay(head.epoch)
  BY IterationKinds DEF ClosedInv
<1>2. /\ head = queue[1] /\ Len(queue) \in Nat /\ Len(queue) >= 1
      /\ Len(queue') = Len(queue) - 1
      /\ \A i \in 1 .. Len(queue') : queue'[i] = queue[i + 1]
  BY <1>1, QueueRead DEF ClosedInv, ClosedTypeOK
<1>3. head.epoch <= steps
  BY <1>2 DEF ClosedInv, ErrorsAre
<1>4. tsp \in TsprocRecord /\ tsp.clock_rate_ratio = One
  BY DEF ClosedInv, ClosedTypeOK, DelaysOK
<1> HIDE DEF head, d
<1>5. CASE d.kind = "sync" /\ ReadSync(head.epoch)
  <2> DEFINE ts == DownTs(tsp, d.master, d.slave)
  <2>1. /\ tsp'.mode = tsp.mode /\ ts \in TsprocRecord
        /\ tsp'.t3 # 0 => tsp'.t3 = tsp.t3
        /\ hw_step' # 0 => tsp'.t2 = 0 /\ tsp'.t3 = 0 /\ OffsetReady(ts)
    BY <1>1, <1>4, <1>5, SyncRead DEF ClosedInv
  <2>2. ts.t3 = tsp.t3 /\ ts.mode = tsp.mode
    BY <1>4 DEF TsprocRecord, DownTs
  <2> HIDE DEF ts
  <2>3. OffsetReady(ts) /\ ~FilterMode => tsp.t3 # 0
    BY <2>2 DEF OffsetReady, FilterMode
  <2>4. FilterMode' <=> FilterMode
    BY <2>1 DEF FilterMode
  <2>5. /\ matched' = matched /\ stored'.down = head.epoch
        /\ stored'.up = stored.up
    BY <1>5 DEF ReadSync, ClosedInv, ClosedTypeOK
  <2> QED
    BY <1>1, <1>2, <1>3, <1>5, <2>1, <2>3, <2>4, <2>5 DEF head, d
<1>6. CASE d.kind = "delay" /\ ReadDelay(head.epoch)
  <2>1. hw_step' = 0 /\ tsp'.mode = tsp.mode /\ tsp'.t2 = tsp.t2
    BY <1>1, <1>6, DelayRead DEF ClosedInv
  <2>2. FilterMode' <=> FilterMode
    BY <2>1 DEF FilterMode
  <2>3. stored'.up = head.epoch /\ stored'.down = stored.down
    BY <1>6 DEF ReadDelay, ClosedInv, ClosedTypeOK
  <2>4. \/ matched' = matched
        \/ /\ tsp.t2 # 0
           /\ AllMatched /\ head.epoch = stored.down => AllMatched'
    <3> SUFFICES ASSUME tsp'.t2 # 0, AllMatched, head.epoch = stored.down,
                        NEW same, same \in BOOLEAN, same,
                        matched' = Pushed(matched, same, FilterLength)
                 PROVE  AllMatched'
      BY <1>6, <2>1 DEF ReadDelay
    <3>1. matched \in Seq(BOOLEAN) /\ \A i \in 1 .. Len(matched) : matched[i]
      BY DEF ClosedInv, DelaysOK, AllMatched
    <3>2. \A i \in 1 .. Len(matched') : matched'[i]
      BY <3>1, AllTruePushed
    <3> QED
      BY <3>2 DEF AllMatched
  <2> QED
    BY <1>1, <1>2, <1>3, <1>6, <2>1, <2>2, <2>3, <2>4 DEF head, d
<1> QED
  BY <1>1, <1>5, <1>6

(* The first step, from data of which none was overtaken. *)
LEMMA FirstStepSettles ==
    ASSUME FilterAgrees, ClosedInv, Fresh, Iteration, steps = 0, hw_step' # 0, Clean'
    PROVE  Settled'
<1> DEFINE head == Head(queue)
<1>1. /\ head.epoch \in Nat /\ head.epoch <= steps /\ Len(queue') \in Nat
      /\ queue' = Tail(queue) /\ requests' = requests
      /\ Overtakes /\ (FilterMode' <=> FilterMode)
      /\ matched' = matched /\ stored'.down = head.epoch /\ stored'.up = stored.up
      /\ tsp'.t2 = 0 /\ tsp'.t3 = 0
  BY IterationFacts
<1>2. stored.up \in Nat /\ stored.up <= steps
  BY DEF ClosedInv, ClosedTypeOK
<1>3. Tail(queue) \in Seq(Items) /\ DOMAIN Tail(queue) = 1 .. Len(Tail(queue))
  <2>1. queue # <<>> /\ queue \in Seq(Items)
    BY DEF Iteration, ClosedInv, ClosedTypeOK
  <2> QED
    BY <2>1, QueueRead
<1> HIDE DEF head
<1>4. AllMatched /\ AllMatched'
  BY <1>1 DEF Fresh, AllMatched
<1>5. Consistent(stored', matched')
  <2>1. matched \in Seq(BOOLEAN)
    BY DEF ClosedInv, DelaysOK
  <2>2. DOMAIN matched = 1 .. Len(matched)
    BY <2>1
  <2>3. \A i \in DOMAIN matched' : matched'[i]
    BY <1>1, <1>4, <2>2 DEF AllMatched
  <2>4. stored'.down = steps /\ stored'.up = steps
    BY <1>1, <1>2
  <2> QED
    BY <2>3, <2>4 DEF Consistent
<1>6. err' = 0
  BY <1>5, StepLands
<1>7. /\ requests' = {}
      /\ \A i \in 1 .. Len(queue') :
             queue'[i].datagram.kind # "delay" /\ ~FilterMode'
  <2>1. overtaken' = overtaken
            \union {Tail(queue)[i].datagram.kind : i \in DOMAIN Tail(queue)}
            \union {"delay" : r \in requests}
    BY <1>1 DEF Overtakes
  <2>2. "delay" \notin overtaken' /\ (FilterMode' => overtaken' = {})
    BY DEF Clean
  <2>3. requests' = {}
    BY <1>1, <2>1, <2>2
  <2>4. ASSUME NEW i \in 1 .. Len(queue')
        PROVE  queue'[i].datagram.kind \in overtaken'
    BY <1>1, <1>3, <2>1
  <2> QED
    BY <2>2, <2>3, <2>4
<1> QED
  BY <1>1, <1>4, <1>6, <1>7 DEF Settled

(* From then on a ready offset is one of the new time scale. *)
LEMMA NoSecondStep ==
    ASSUME FilterAgrees, ClosedInv, Iteration, steps = 1, Settled
    PROVE  hw_step' = 0
<1> SUFFICES ASSUME hw_step' # 0  PROVE hw_step' = 0
  OBVIOUS
<1> DEFINE head == Head(queue)
<1>1. /\ head = queue[1] /\ Len(queue) \in Nat /\ Len(queue) >= 1
      /\ matched' = matched /\ stored'.down = head.epoch /\ stored'.up = stored.up
      /\ ~FilterMode => tsp.t3 # 0
  BY IterationFacts
<1>2. 1 \in 1 .. Len(queue)
  BY <1>1
<1>3. err = 0 /\ err \in Int /\ matched \in Seq(BOOLEAN)
  BY DEF Settled, ClosedInv, ClosedTypeOK, DelaysOK
<1> HIDE DEF head
<1>4. stored'.down = steps
  <2>1. CASE FilterMode
    BY <1>1, <1>2, <2>1 DEF Settled
  <2>2. CASE ~FilterMode
    BY <1>1, <1>2, <2>2 DEF Settled
  <2> QED
    BY <2>1, <2>2
<1>5. IF FilterMode THEN \A i \in DOMAIN matched' : matched'[i]
      ELSE stored'.up = steps
  <2>1. CASE FilterMode
    <3>1. AllMatched
      BY <2>1 DEF Settled
    <3>2. DOMAIN matched = 1 .. Len(matched)
      BY <1>3
    <3> QED
      BY <1>1, <2>1, <3>1, <3>2 DEF AllMatched
  <2>2. CASE ~FilterMode
    BY <1>1, <2>2 DEF Settled
  <2> QED
    BY <2>1, <2>2
<1>6. Consistent(stored', matched')
  BY <1>4, <1>5 DEF Consistent
<1>7. err' = 0 /\ err' = err + hw_step' /\ hw_step' = -err
  BY <1>6, StepLands, IterationFacts
<1>8. PICK step : step = hw_step'
  OBVIOUS
<1>9. step \in Int /\ 0 = err + step
  BY <1>3, <1>7, <1>8
<1>10. step = 0
  BY <1>3, <1>9
<1> QED
  BY <1>8, <1>10

(* An iteration after which the clock has been stepped once at most. *)
LEMMA SettledStep ==
    ASSUME FilterAgrees, ClosedInv, Iteration, hw_step' = 0, steps = 1, Settled
    PROVE  Settled'
<1> DEFINE head == Head(queue)
           d    == head.datagram
<1>1. /\ head = queue[1] /\ Len(queue) \in Nat /\ Len(queue) >= 1
      /\ Len(queue') = Len(queue) - 1
      /\ \A i \in 1 .. Len(queue') : queue'[i] = queue[i + 1]
      /\ requests' = requests /\ err' = err + hw_step'
      /\ FilterMode' <=> FilterMode
      /\ \/ /\ d.kind = "sync" /\ matched' = matched
            /\ stored'.down = head.epoch /\ stored'.up = stored.up
            /\ tsp'.t3 # 0 => tsp.t3 # 0
         \/ /\ d.kind = "delay"
            /\ stored'.up = head.epoch /\ stored'.down = stored.down
            /\ tsp'.t2 = tsp.t2
            /\ \/ matched' = matched
               \/ /\ tsp.t2 # 0
                  /\ AllMatched /\ head.epoch = stored.down => AllMatched'
  BY IterationFacts
<1>2. 1 \in 1 .. Len(queue) /\ err' = 0
  BY <1>1 DEF Settled
<1> HIDE DEF head
<1>3. \A i \in 1 .. Len(queue') :
          i + 1 \in 1 .. Len(queue) /\ 1 < i + 1 /\ queue'[i] = queue[i + 1]
  BY <1>1
<1>4. /\ \A i \in 1 .. Len(queue') :
             queue'[i].datagram.kind = "delay" \/ FilterMode => queue'[i].epoch = 1
      /\ \A i, j \in 1 .. Len(queue') :
             i < j /\ queue'[i].datagram.kind = "delay" => queue'[j].epoch = 1
  <2>1. ASSUME NEW i \in 1 .. Len(queue')
        PROVE  queue'[i].datagram.kind = "delay" \/ FilterMode => queue'[i].epoch = 1
    BY <1>3 DEF Settled
  <2>2. ASSUME NEW i \in 1 .. Len(queue'), NEW j \in 1 .. Len(queue'), i < j,
               queue'[i].datagram.kind = "delay"
        PROVE  queue'[j].epoch = 1
    <3>1. i + 1 \in 1 .. Len(queue) /\ j + 1 \in 1 .. Len(queue) /\ i + 1 < j + 1
      BY <1>1, <1>3, <2>2
    <3>2. queue[i + 1].datagram.kind = "delay"
      BY <1>3, <2>2
    <3>3. queue[j + 1].epoch = 1
      BY <3>1, <3>2 DEF Settled
    <3> QED
      BY <1>3, <3>3
  <2> QED
    BY <2>1, <2>2
<1>5. CASE d.kind = "sync"
  <2>1. /\ matched' = matched /\ stored'.down = head.epoch
        /\ stored'.up = stored.up /\ tsp'.t3 # 0 => tsp.t3 # 0
    BY <1>1, <1>5
  <2>2. FilterMode => stored'.down = 1 /\ AllMatched'
    BY <1>1, <1>2, <2>1 DEF Settled, AllMatched
  <2> QED
    BY <1>1, <1>2, <1>3, <1>4, <2>1, <2>2 DEF Settled
<1>6. CASE d.kind = "delay"
  <2>1. head.epoch = 1 /\ \A i \in 1 .. Len(queue') : queue'[i].epoch = 1
    BY <1>1, <1>2, <1>3, <1>6 DEF Settled
  <2>2. FilterMode => (tsp'.t2 # 0 => stored'.down = 1) /\ AllMatched'
    BY <1>1, <1>6, <2>1 DEF Settled, AllMatched
  <2>3. stored'.up = 1
    BY <1>1, <1>6, <2>1
  <2> QED
    BY <1>1, <1>2, <1>4, <2>1, <2>2, <2>3 DEF Settled
<1> QED
  BY <1>1, <1>5, <1>6

(* So Fresh is inductive. *)
LEMMA FreshIteration ==
    ASSUME FilterAgrees, ClosedInv, Fresh, Iteration
    PROVE  Fresh'
<1>1. /\ Head(queue).epoch \in Nat /\ Head(queue).epoch <= steps
      /\ hw_step' = 0 => steps' = steps /\ overtaken' = overtaken
      /\ hw_step' # 0 => steps' = steps + 1 /\ Overtakes
      /\ FilterMode' <=> FilterMode
      /\ \/ matched' = matched
         \/ AllMatched /\ Head(queue).epoch = stored.down => AllMatched'
  BY IterationFacts
<1>2. steps \in Nat /\ stored.down \in Nat /\ stored.down <= steps
  BY DEF ClosedInv, ClosedTypeOK
<1>3. overtaken \subseteq overtaken'
  BY <1>1 DEF Overtakes
<1>4. Clean' => Clean
  BY <1>1, <1>3 DEF Clean
<1>5. steps' = steps \/ steps' = steps + 1
  BY <1>1
<1>6. steps' = 0 => AllMatched'
  <2> SUFFICES ASSUME steps' = 0  PROVE AllMatched'
    OBVIOUS
  <2>1. steps = 0
    BY <1>2, <1>5
  <2>2. AllMatched /\ Head(queue).epoch = stored.down
    BY <1>1, <1>2, <2>1 DEF Fresh
  <2> QED
    BY <1>1, <2>2 DEF AllMatched
<1>7. steps' = 1 /\ Clean' => Settled'
  <2> SUFFICES ASSUME steps' = 1, Clean'  PROVE Settled'
    OBVIOUS
  <2>1. CASE hw_step' = 0
    <3>1. steps = 1 /\ Settled
      BY <1>1, <1>4, <2>1 DEF Fresh
    <3> QED
      BY <2>1, <3>1, SettledStep
  <2>2. CASE hw_step' # 0
    <3>1. steps = 0
      BY <1>1, <1>2, <2>2
    <3> QED
      BY <2>2, <3>1, FirstStepSettles
  <2> QED
    BY <2>1, <2>2
<1>8. OneStepSuffices'
  <2> SUFFICES ASSUME steps' > 1  PROVE ~Clean'
    BY DEF OneStepSuffices, Clean
  <2>1. CASE steps > 1
    BY <1>4, <2>1 DEF Fresh, OneStepSuffices, Clean
  <2>2. CASE ~(steps > 1)
    <3>1. steps = 1 /\ hw_step' # 0
      BY <1>1, <1>2, <2>2
    <3> QED
      BY <1>4, <3>1, NoSecondStep DEF Fresh
  <2> QED
    BY <2>1, <2>2
<1> QED
  BY <1>6, <1>7, <1>8 DEF Fresh

(***************************************************************************)
(* The clock is stepped once, unless the step overtook a delay exchange    *)
(* or, in the modes that filter the delay, any datagram: for every         *)
(* interleaving of syncs, exchanges and reads, however many wait.          *)
(***************************************************************************)
THEOREM SecondStepNeedsStale ==
    ASSUME FilterAgrees
    PROVE  LoopSpec => []OneStepSuffices
<1>1. LoopInit => Fresh
  <2> SUFFICES ASSUME LoopInit  PROVE Fresh
    OBVIOUS
  <2>1. steps = 0 /\ matched = <<>>
    BY DEF LoopInit
  <2> QED
    BY <2>1 DEF Fresh, AllMatched, OneStepSuffices
<1>2. ClosedInv /\ Fresh /\ [LoopNext]_allVars => Fresh'
  <2> SUFFICES ASSUME ClosedInv, Fresh, [LoopNext]_allVars  PROVE Fresh'
    OBVIOUS
  <2>1. CASE Iteration
    BY <2>1, FreshIteration
  <2>2. CASE SyncArrives \/ RequestSent \/ ResponseArrives
    BY <2>2, FreshArrives
  <2>3. CASE UNCHANGED allVars
    BY <2>3 DEF allVars, loopVars, vars, Fresh, AllMatched, Settled, Clean,
                FilterMode, OneStepSuffices
  <2> QED
    BY <2>1, <2>2, <2>3 DEF LoopNext
<1>3. Fresh => OneStepSuffices
  BY DEF Fresh
<1> QED
  BY <1>1, <1>2, <1>3, ClosedInvariance, PTL DEF LoopSpec

-----------------------------------------------------------------------------
(***************************************************************************)
(* The theorems on the main loop hold in the closed one too, as long as    *)
(* what main() reads next is a datagram it knows: its slave time is not    *)
(* negative, as it would be if the clock had been stepped to before 1970.  *)
(***************************************************************************)
Stamped == queue # <<>> => Head(queue).datagram \in Datagram

(* The clock is stepped at most once, in the first lock. *)
SteppedOnce == StepThreshold = 0 => steps = 0 \/ (steps = 1 /\ state # "UNLOCKED")

(* Steps of ptp4l leave the main loop alone, the others are its iterations. *)
LEMMA ClosedStepReads ==
    ASSUME Stamped, [LoopNext]_allVars
    PROVE  \/ UNCHANGED <<vars, steps>>
           \/ Iteration /\ \E d \in Datagram : Receive(d)
<1>1. CASE Iteration
  <2>1. queue # <<>> /\ Receive(Head(queue).datagram)
    BY <1>1 DEF Iteration
  <2> QED
    BY <1>1, <2>1 DEF Stamped
<1>2. CASE SyncArrives \/ RequestSent \/ ResponseArrives
  BY <1>2 DEF SyncArrives, RequestSent, ResponseArrives
<1>3. CASE UNCHANGED allVars
  BY <1>3 DEF allVars, loopVars
<1> QED
  BY <1>1, <1>2, <1>3 DEF LoopNext

(* main() steps the clock only if the servo has announced JUMP. *)
LEMMA StepIsJump ==
    ASSUME NEW d, Receive(d), hw_step' # 0
    PROVE  state' = "JUMP"
<1>1. ASSUME NEW stamped, NEW local_ts, Sampled(stamped, local_ts)
      PROVE  state' = "JUMP"
  BY <1>1 DEF Sampled, Actuate
<1> QED
  BY <1>1 DEF Receive, Dispatch, ClockUpdate, NoOffset, PathDelay

(* What the main loop keeps it keeps in the closed loop. *)
LEMMA ClosedEInv ==
    ASSUME FilterAnswers
    PROVE  LoopSpec /\ []Stamped => [](EInv /\ SteppedOnce)
<1>1. LoopInit => EInv /\ SteppedOnce
  BY InitEInv DEF LoopInit, SteppedOnce
<1>2. EInv /\ SteppedOnce /\ Stamped /\ [LoopNext]_allVars => EInv' /\ SteppedOnce'
  <2> SUFFICES ASSUME EInv, SteppedOnce, Stamped, [LoopNext]_allVars
               PROVE  EInv' /\ SteppedOnce'
    OBVIOUS
  <2>1. CASE UNCHANGED <<vars, steps>>
    <3>1. EInv'
      BY <2>1, StepEInv DEF vars
    <3> QED
      BY <2>1, <3>1 DEF SteppedOnce, vars, piVars, servoVars
  <2>2. ASSUME NEW d \in Datagram, Receive(d), Iteration
        PROVE  EInv' /\ SteppedOnce'
    <3>1. EInv'
      BY <2>2, ReceiveEInv
    <3>2. StepThreshold = 0 /\ state # "UNLOCKED"
              => state' # "UNLOCKED" /\ hw_step' = 0
      <4>1. master_time' \in Int /\ slave_time' \in Nat
        BY <2>2, MessageType DEF Receive, EInv
      <4> QED
        BY <2>2, <4>1, LockedDispatch DEF Receive
    <3>3. CASE hw_step' = 0
      <4>1. steps' = steps
        BY <2>2, <3>3 DEF Iteration
      <4> QED
        BY <3>1, <3>2, <4>1 DEF SteppedOnce
    <3>4. CASE hw_step' # 0
      <4>1. steps' = steps + 1 /\ state' = "JUMP"
        BY <2>2, <3>4, StepIsJump DEF Iteration
      <4> QED
        BY <3>1, <3>2, <3>4, <4>1 DEF SteppedOnce
    <3> QED
      BY <3>3, <3>4
  <2> QED
    BY <2>1, <2>2, ClosedStepReads
<1> QED
  BY <1>1, <1>2, PTL DEF LoopSpec

(***************************************************************************)
(* However ptp4l's datagrams interleave with the steps of the clock, the   *)
(* clock is told frequencies and phases of its range, and runs at the      *)
(* frequency the servo believes in.                                        *)
(***************************************************************************)
THEOREM ClosedLoopInRange ==
    ASSUME FilterAnswers
    PROVE  LoopSpec /\ []Stamped => [](ClockInRange /\ ClockFollowsServo)
  BY ClosedEInv, PTL DEF EInv

(***************************************************************************)
(* With step_threshold = 0 the clock is stepped at most once, whatever     *)
(* that step has overtaken: what OneStepSuffices excepts cannot happen.    *)
(***************************************************************************)
THEOREM ClosedLoopStepsOnce ==
    ASSUME FilterAnswers, StepThreshold = 0
    PROVE  LoopSpec /\ []Stamped => [](steps <= 1)
<1>1. SteppedOnce => steps <= 1
  BY DEF SteppedOnce
<1> QED
  BY <1>1, ClosedEInv, PTL

(***************************************************************************)
(* The closed loop implements the main loop: if the socket delivers what   *)
(* Datagrams holds, what ptp4l does is a stutter and the rest a step.      *)
(***************************************************************************)
Delivered == queue # <<>> => Head(queue).datagram \in Datagrams

THEOREM ClosedLoopIsMainLoop == LoopSpec /\ []Delivered => Spec
<1>1. LoopInit => Init
  BY DEF LoopInit
<1>2. ASSUME Delivered, [LoopNext]_allVars PROVE [Next]_vars
  <2>1. CASE Iteration
    <3>1. queue # <<>> /\ Receive(Head(queue).datagram)
      BY <2>1 DEF Iteration
    <3> QED
      BY <1>2, <3>1 DEF Delivered, Next
  <2>2. CASE SyncArrives \/ RequestSent \/ ResponseArrives
    BY <2>2 DEF SyncArrives, RequestSent, ResponseArrives
  <2>3. CASE UNCHANGED allVars
    BY <2>3 DEF allVars
  <2> QED
    BY <1>2, <2>1, <2>2, <2>3 DEF LoopNext
<1> QED
  BY <1>1, <1>2, PTL DEF LoopSpec, Spec
=============================================================================
