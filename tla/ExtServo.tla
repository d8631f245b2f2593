------------------------------ MODULE ExtServo ------------------------------
(***************************************************************************)
(* The main loop (main.c): it polls the socket of ptp4l's event monitor,   *)
(* decodes a datagram (msg.c), hands its time stamps to the time stamp     *)
(* processor, the offset to the PI servo and the servo's answer to the     *)
(* clocks (clockadj.c).                                                    *)
(*                                                                         *)
(* The locals of main() that outlive an iteration are state: the buffer    *)
(* and what process_message() stores through its pointers.                 *)
(***************************************************************************)
EXTENDS PiServo, Tsproc, Messages

CONSTANTS
    Datagrams,       \* what the socket may deliver
    Modes,           \* what tsproc_mode may be configured to
    Junk,            \* the datagrams an uninitialized buffer may look like
    StartFreqs,      \* frequencies the clock may have at start-up: those of its
                     \* range, if whoever set it before kept to that
    FreqClkIsRealtime,  \* freq_clk_id = CLOCK_REALTIME
    AdjMayFail       \* clock_adjtime() may fail

ASSUME ExtServoAssumption ==
    /\ Datagrams \subseteq Datagram /\ Junk \subseteq Datagram
    /\ Modes \subseteq TsprocModes
    /\ StartFreqs \subseteq -MaxFrequency .. MaxFrequency
    /\ FreqClkIsRealtime \in BOOLEAN /\ AdjMayFail \in BOOLEAN

VARIABLES
    tsp,             \* the struct tsproc
    running,         \* FALSE: main() has returned
    hw_freq,         \* the frequency the clock runs at
    freq_failed,     \* history: the last attempt to set it failed
    hw_phase,        \* the last phase offset it was told to slew
    synced,          \* sysclk_set_sync() was called
    hw_step,         \* by how much the last iteration stepped the clock
    last             \* history: what the last iteration read, and did

clockVars == <<hw_freq, freq_failed, hw_phase, synced>>
vars == <<piVars, tsp, msgVars, running, clockVars, hw_step, last>>

\* What main() has set up when it enters the loop; nothing initializes the
\* buffer and the three locals (main.c:187-193).
Init ==
    /\ hw_freq \in StartFreqs
    /\ PiInit(-hw_freq)
    /\ \E mode \in Modes : tsp = NewTsproc(mode)
    /\ data \in Junk
    /\ \E d \in Junk :
           msg_type = d.kind /\ master_time = d.master /\ slave_time = d.slave
    /\ running = TRUE
    /\ freq_failed = FALSE
    /\ hw_phase = 0 /\ synced = FALSE
    /\ hw_step = 0
    /\ last = [read |-> "nothing", done |-> "nothing"]

\* clockadj_set_freq(), clockadj_set_phase(), clockadj_step(): an error of
\* clock_adjtime() is only logged
SetFreq(freq) ==
    /\ \/ hw_freq' = freq /\ freq_failed' = FALSE
       \/ AdjMayFail /\ hw_freq' = hw_freq /\ freq_failed' = TRUE
    /\ UNCHANGED hw_phase

SetPhase(offset) ==
    /\ hw_phase' = offset \/ (AdjMayFail /\ hw_phase' = hw_phase)
    /\ UNCHANGED <<hw_freq, freq_failed>>

Step(step) == hw_step' = step \/ (AdjMayFail /\ hw_step' = 0)

SetSync == synced' = (synced \/ FreqClkIsRealtime)

\* Mutant: a step leaves the frequency to the next sample
ActuateStepsOnly(stamped, offset) ==
    \/ /\ state' = "UNLOCKED"
       /\ tsp' = stamped
       /\ hw_step' = 0 /\ UNCHANGED clockVars
    \/ /\ state' = "JUMP"
       /\ Step(-offset)
       /\ tsp' = ResetTsproc(stamped, FALSE)
       /\ UNCHANGED clockVars
    \/ /\ state' = "LOCKED"
       /\ SetFreq(-adj') /\ SetSync
       /\ tsp' = stamped /\ hw_step' = 0
    \/ /\ state' = "LOCKED_STABLE"
       /\ SetPhase(-adj') /\ SetSync
       /\ tsp' = stamped /\ hw_step' = 0

\* Mutant: the clock is stepped by the offset, not by its negation
ActuateStepsAway(stamped, offset) ==
    \/ /\ state' = "UNLOCKED"
       /\ tsp' = stamped
       /\ hw_step' = 0 /\ UNCHANGED clockVars
    \/ /\ state' = "JUMP"
       /\ SetFreq(-adj') /\ Step(offset)
       /\ tsp' = ResetTsproc(stamped, FALSE)
       /\ UNCHANGED synced
    \/ /\ state' = "LOCKED"
       /\ SetFreq(-adj') /\ SetSync
       /\ tsp' = stamped /\ hw_step' = 0
    \/ /\ state' = "LOCKED_STABLE"
       /\ SetPhase(-adj') /\ SetSync
       /\ tsp' = stamped /\ hw_step' = 0

\* Mutant: the time stamps survive the step
ActuateKeepsStamps(stamped, offset) ==
    \/ /\ state' = "UNLOCKED"
       /\ tsp' = stamped
       /\ hw_step' = 0 /\ UNCHANGED clockVars
    \/ /\ state' = "JUMP"
       /\ SetFreq(-adj') /\ Step(-offset)
       /\ tsp' = stamped
       /\ UNCHANGED synced
    \/ /\ state' = "LOCKED"
       /\ SetFreq(-adj') /\ SetSync
       /\ tsp' = stamped /\ hw_step' = 0
    \/ /\ state' = "LOCKED_STABLE"
       /\ SetPhase(-adj') /\ SetSync
       /\ tsp' = stamped /\ hw_step' = 0

\* The switch of clock_update() on the state the servo announced
Actuate(stamped, offset) ==
    \/ /\ state' = "UNLOCKED"
       /\ tsp' = stamped
       /\ hw_step' = 0 /\ UNCHANGED clockVars
    \/ /\ state' = "JUMP"
       /\ SetFreq(-adj') /\ Step(-offset)
       /\ tsp' = ResetTsproc(stamped, FALSE)
       /\ UNCHANGED synced
    \/ /\ state' = "LOCKED"
       /\ SetFreq(-adj') /\ SetSync
       /\ tsp' = stamped /\ hw_step' = 0
    \/ /\ state' = "LOCKED_STABLE"
       /\ SetPhase(-adj') /\ SetSync
       /\ tsp' = stamped /\ hw_step' = 0

\* clock_update(); the PI servo has no rate_ratio(), so the ratio set is 1.0
NoOffset(stamped) ==
    /\ ~OffsetReady(stamped)
    /\ tsp' = stamped /\ hw_step' = 0
    /\ UNCHANGED <<piVars, clockVars>>

Sampled(stamped, local_ts) ==
    /\ OffsetReady(stamped)
    /\ ServoSample(MasterOffset(stamped), local_ts, OffsetWeight(stamped))
    /\ Actuate(SetRateRatio(stamped, One), MasterOffset(stamped))

\* Mutant: no sample until the servo has left JUMP
ClockUpdateHoldsAfterStep(t1, t2) ==
    LET stamped == DownTs(tsp, t1, t2)
    IN  \/ NoOffset(stamped)
        \/ state # "JUMP" /\ Sampled(stamped, t2)
        \/ /\ state = "JUMP" /\ tsp' = stamped /\ hw_step' = 0
           /\ UNCHANGED <<piVars, clockVars>>

ClockUpdate(t1, t2) ==
    LET stamped == DownTs(tsp, t1, t2)
    IN  NoOffset(stamped) \/ Sampled(stamped, t2)

\* path_delay()
PathDelay(t3, t4) ==
    /\ tsp' = UpdateDelay(UpTs(tsp, t3, t4))
    /\ hw_step' = 0
    /\ UNCHANGED <<piVars, clockVars>>

\* The switch of main() on msg_type
Dispatch(read) ==
    \/ /\ msg_type' = "sync"
       /\ ClockUpdate(master_time', slave_time')
       /\ last' = [read |-> read, done |-> "clock_update"]
    \/ /\ msg_type' = "delay"
       /\ PathDelay(slave_time', master_time')
       /\ last' = [read |-> read, done |-> "path_delay"]
    \/ /\ msg_type' \notin {"sync", "delay"}
       /\ hw_step' = 0
       /\ last' = [read |-> read, done |-> "nothing"]
       /\ UNCHANGED <<piVars, tsp, clockVars>>

\* An iteration that reads a datagram.  A poll that times out and an empty
\* datagram (count = 0) change nothing.
Receive(d) ==
    /\ running
    /\ data' = d
    /\ ProcessMessage(d)
    /\ Dispatch(d.kind)
    /\ UNCHANGED running

\* recvfrom() fails: count is (uint16_t)-1, not 0, and the buffer still holds
\* the datagram before
ReceiveError ==
    /\ running
    /\ UNCHANGED data
    /\ ProcessMessage(data)
    /\ Dispatch("error")
    /\ UNCHANGED running

\* poll() fails: main() returns and leaves the clock as it is
PollError ==
    /\ running
    /\ running' = FALSE /\ hw_step' = 0
    /\ UNCHANGED <<piVars, tsp, msgVars, clockVars, last>>

Next == (\E d \in Datagrams : Receive(d)) \/ ReceiveError \/ PollError

Spec == Init /\ [][Next]_vars

\* ptp4l goes on delivering sync and delay records
Delivers(kind) == \E d \in Datagrams : d.kind = kind /\ Receive(d)

FairSpec == Spec /\ WF_vars(Delivers("sync")) /\ WF_vars(Delivers("delay"))
-----------------------------------------------------------------------------
(* The domain of the state. *)
TypeOK ==
    /\ PiTypeOK
    /\ tsp \in TsprocRecord
    /\ data \in Datagram
    /\ msg_type \in Kinds /\ master_time \in Int /\ slave_time \in Nat
    /\ {running, synced, freq_failed} \subseteq BOOLEAN
    /\ hw_freq \in Int /\ hw_phase \in Int /\ hw_step \in Int
    /\ last.read \in Kinds \union {"nothing", "error"}
    /\ last.done \in {"nothing", "clock_update", "path_delay"}

(***************************************************************************)
(* Whatever arrives, is lost or is replayed, and whichever clock_adjtime() *)
(* fails, the clock is never told to run or slew beyond its range.         *)
(***************************************************************************)
ClockInRange ==
    /\ hw_freq \in -MaxFrequency .. MaxFrequency
    /\ hw_phase \in -MaxFrequency .. MaxFrequency

(***************************************************************************)
(* If the last frequency could be set, the clock runs at the frequency the *)
(* servo believes it runs at (its estimate of the drift rests on that),    *)
(* unless the servo handed its last adjustments to the phase control: a    *)
(* failing clock_adjtime() does harm only up to the next one that works.   *)
(***************************************************************************)
ClockFollowsServo ==
    ~freq_failed =>
        /\ state \in {"JUMP", "LOCKED"} => hw_freq = -last_freq
        /\ OffsetThreshold = 0 => hw_freq = -last_freq

(***************************************************************************)
(* With step_threshold = 0 the first lock is for good: whatever arrives,   *)
(* the servo is never UNLOCKED again and the clock never stepped again.    *)
(***************************************************************************)
LockedForGood ==
    [][StepThreshold = 0 /\ state # "UNLOCKED"
         => state' # "UNLOCKED" /\ hw_step' = 0]_vars

(***************************************************************************)
(* A step throws the stored time stamps away, but not for good: as long as *)
(* sync and delay records keep coming the servo gets another sample.       *)
(***************************************************************************)
OffsetsResume ==
    (state = "JUMP" /\ running) ~> (state # "JUMP" \/ ~running)

(***************************************************************************)
(* "Receive the packets using poll fd and then read the data and then pass *)
(* the data to servo" (main.c:270): what is passed on was read.            *)
(***************************************************************************)
PassesOnWhatItRead ==
    /\ last.done = "clock_update" => last.read = "sync"
    /\ last.done = "path_delay" => last.read = "delay"
=============================================================================
