-------------------------------- MODULE Startup --------------------------------
(***************************************************************************)
(* main() up to its loop: log file, configuration, socket, clocks, time    *)
(* stamp processor, the range and the present frequency of the clock, the  *)
(* servo.  A failing step makes main() return.  In the loop the clocks are *)
(* set as the servo asks, to any frequency of the range that it was told,  *)
(* and stepped.                                                            *)
(***************************************************************************)
EXTENDS ClockAdj, Config, PiGains

CONSTANTS
    Hertz,         \* the USER_HZ a kernel may have
    Found(_, _),   \* ticks and frequencies a clock may be found with
    Asked(_),      \* frequencies asked for in a range
    Steps          \* steps asked for

\* The kernel's USER_HZ is such that it takes every tick of the range of
\* clockadj_max_freq(); its own frequency is within the tolerance, and its
\* tick is one it takes
ASSUME StartupAssumption ==
    /\ Hertz \subseteq 1 .. UsecPerSec /\ Steps \subseteq Int
    /\ \A hz \in Hertz : LET nominal == NominalTick(hz) IN
           {nominal - nominal \div 10, nominal + nominal \div 10} \subseteq
               KernelTicks(hz)
    /\ \A hz \in Hertz :
           /\ Found("realtime", hz) \subseteq
                  [tick : KernelTicks(hz) \ {0}, freq : -Tolerance .. Tolerance]
           /\ \A clk \in Phcs : Found(clk, hz) \subseteq [tick : Nat, freq : Int]

VARIABLES
    pc,                     \* where main() is
    freq_clk_id, tod_clk_id,    \* of device_config
    max_frequency, intial_adj,  \* of servo_config
    gains,                  \* kp and ki of the PI servo
    found_rate,             \* history: the rate each clock was found with
    request                 \* history: what the loop asked for last

clkVars == <<freq_clk_id, tod_clk_id>>
servoConfigVars == <<max_frequency, intial_adj>>
kernelVars == <<user_hz, hw, unsync>>
readVars == <<configVars, log_fp>>
madeVars == <<clkVars, servoConfigVars, adjVars, gains>>
historyVars == <<found_rate, tx_time, request>>
vars == <<pc, kernelVars, readVars, madeVars, historyVars>>

device_config == config["device"]
servo_config == config["servo"]

NoGains == [kp |-> 0, ki |-> 0]
NoRequest == [freq |-> {}, step |-> {}]

Init ==
    /\ user_hz \in Hertz
    /\ hw \in [Clocks -> UNION {Found(clk, user_hz) : clk \in Clocks}]
    /\ \A clk \in Clocks : hw[clk] \in Found(clk, user_hz)
    /\ found_rate = [clk \in Clocks |-> Rate(clk)]
    /\ unsync = TRUE
    /\ ConfigInit /\ log_fp = FALSE
    /\ pc = "sys_log_init"
    /\ freq_clk_id = "none" /\ tod_clk_id = "none"
    /\ max_frequency = 0 /\ intial_adj = 0 /\ gains = NoGains
    /\ realtime_hz = 0 /\ realtime_nominal_tick = 0
    /\ tx_time = [tv_sec |-> 0, tv_usec |-> 0]
    /\ request = NoRequest

Goto(from, to) == pc = from /\ pc' = to

\* No configuration file is named, or uds_create(), tsproc_create(),
\* PTP_CLOCK_GETCAPS, clockadj_get_freq() or servo_create() fails
Fails ==
    /\ pc \in {"options", "uds_create", "tsproc_create", "phc_caps_get",
               "get_freq", "servo_create"}
    /\ pc' = "exit"
    /\ UNCHANGED <<kernelVars, readVars, madeVars, historyVars>>

LogInit ==
    /\ Goto("sys_log_init", "options") /\ SysLogInit
    /\ UNCHANGED <<parserVars, yamlVars, plain, written>>
    /\ UNCHANGED <<kernelVars, madeVars, historyVars>>

Options ==
    /\ Goto("options", "servo_config_parse")
    /\ UNCHANGED <<kernelVars, readVars, madeVars, historyVars>>

\* A round of the loop of servo_config_parse()
ParseConfig ==
    /\ pc = "servo_config_parse" /\ (Parse \/ ParseError)
    /\ UNCHANGED <<pc, log_fp, kernelVars, madeVars, historyVars>>

\* It returns; what it kept for itself, and the histories, are forgotten
ParseReturns ==
    /\ \/ state = "STOP_PARSE" /\ Goto("servo_config_parse", "uds_create")
       \/ state = "failed" /\ Goto("servo_config_parse", "exit")
    /\ UNCHANGED state
    /\ data_key' = "" /\ pending' = Nothing
    /\ top_key' = FALSE /\ key' = FALSE /\ value' = FALSE
    /\ open' = <<>> /\ items' = 0 /\ token' = Token("NO")
    /\ plain' = FALSE /\ written' = Nothing
    /\ UNCHANGED <<config, log_fp, kernelVars, madeVars, historyVars>>

UdsCreate ==
    /\ Goto("uds_create", "device_init")
    /\ UNCHANGED <<kernelVars, readVars, madeVars, historyVars>>

\* phc_init(): the device cannot be opened, also if its name is empty
CanOpen(device) == device \in Phcs

SystemClockMeant ==
    device_config.freq_device = "" /\ device_config.tod_device = ""

\* Mutant: a TOD device that cannot be opened is only reported
DeviceInitGoesOn ==
    /\ \/ /\ SystemClockMeant
          /\ freq_clk_id' = "realtime" /\ tod_clk_id' = "realtime"
       \/ /\ CanOpen(device_config.freq_device)
          /\ freq_clk_id' = device_config.freq_device
          /\ tod_clk_id' = IF CanOpen(device_config.tod_device)
                           THEN device_config.tod_device ELSE "none"
    /\ Goto("device_init", "tsproc_create")
    /\ UNCHANGED <<kernelVars, readVars, servoConfigVars, adjVars, gains, historyVars>>

\* device_init(): the system clock only if neither device is given
DeviceInit ==
    LET freq == device_config.freq_device
        tod  == device_config.tod_device
    IN  /\ \/ /\ SystemClockMeant
              /\ freq_clk_id' = "realtime" /\ tod_clk_id' = "realtime"
              /\ Goto("device_init", "tsproc_create")
           \/ /\ ~SystemClockMeant /\ CanOpen(freq) /\ CanOpen(tod)
              /\ freq_clk_id' = freq /\ tod_clk_id' = tod
              /\ Goto("device_init", "tsproc_create")
           \/ /\ ~SystemClockMeant /\ ~CanOpen(tod)
              /\ Goto("device_init", "exit")
              /\ UNCHANGED clkVars
           \/ /\ ~SystemClockMeant /\ CanOpen(tod) /\ ~CanOpen(freq)
              /\ tod_clk_id' = tod
              /\ Goto("device_init", "exit")
              /\ UNCHANGED freq_clk_id
        /\ UNCHANGED <<kernelVars, readVars, servoConfigVars, adjVars, gains,
                       historyVars>>

\* mave_create() and mmedian_create(): calloc() gives a block for a length of 0
FilterCreated ==
    LET len == device_config.delay_filter_length
    IN  \/ device_config.delay_filter = 0 /\ len >= 0
        \/ device_config.delay_filter = 1 /\ len >= 1

TsprocCreate ==
    /\ \/ /\ device_config.tsproc_mode \in 0 .. 3 /\ FilterCreated
          /\ Goto("tsproc_create", "phc_caps_get")
       \/ /\ ~(device_config.tsproc_mode \in 0 .. 3 /\ FilterCreated)
          /\ Goto("tsproc_create", "exit")
    /\ UNCHANGED <<kernelVars, readVars, madeVars, historyVars>>

\* Mutant: the range of the TOD clock
PhcCapsOfTod ==
    /\ Goto("phc_caps_get", "system_clock")
    /\ max_frequency' = IF tod_clk_id = "realtime" THEN MaxFreq("realtime")
                        ELSE PhcMaxAdj[tod_clk_id]
    /\ UNCHANGED <<kernelVars, readVars, clkVars, intial_adj, adjVars, gains,
                   historyVars>>

\* phc_caps_get()
PhcCapsGet ==
    /\ Goto("phc_caps_get", "system_clock")
    /\ max_frequency' = IF freq_clk_id = "realtime" THEN MaxFreq("realtime")
                        ELSE PhcMaxAdj[freq_clk_id]
    /\ UNCHANGED <<kernelVars, readVars, clkVars, intial_adj, adjVars, gains,
                   historyVars>>

\* Mutant: the state of clockadj.c is not initialized
SystemClockNoInit ==
    /\ Goto("system_clock", "get_freq")
    /\ UNCHANGED <<kernelVars, readVars, madeVars, historyVars>>

\* What main() does more if the TOD clock is the system clock
SystemClock ==
    /\ Goto("system_clock", "get_freq")
    /\ \/ /\ tod_clk_id = "realtime"
          /\ ClockadjInit(tod_clk_id)
          /\ max_frequency' = MaxFreq("realtime")'
          /\ SetLeap
       \/ /\ tod_clk_id # "realtime"
          /\ UNCHANGED <<max_frequency, adjVars, unsync>>
    /\ UNCHANGED <<user_hz, hw, readVars, clkVars, intial_adj, gains, historyVars>>

\* Mutant: the sign of the adjustment found is lost
AdoptFreqOpposite ==
    /\ Goto("get_freq", "servo_create")
    /\ SetFreq(freq_clk_id, -GetFreq(freq_clk_id))
    /\ intial_adj' = -GetFreq(freq_clk_id)
    /\ UNCHANGED <<user_hz, unsync, readVars, clkVars, max_frequency, adjVars,
                   gains, historyVars>>

\* The clock is set to the frequency it is found with, the servo told so
AdoptFreq ==
    /\ Goto("get_freq", "servo_create")
    /\ SetFreq(freq_clk_id, GetFreq(freq_clk_id))
    /\ intial_adj' = -GetFreq(freq_clk_id)
    /\ UNCHANGED <<user_hz, unsync, readVars, clkVars, max_frequency, adjVars,
                   gains, historyVars>>

\* servo_create() and servo_sync_interval()
ServoCreate ==
    /\ \/ /\ servo_config.type \in 0 .. 2
          /\ gains' = IF servo_config.type = 0
                      THEN PiSyncInterval(Configured(servo_config)) ELSE gains
          /\ Goto("servo_create", "loop")
       \/ /\ servo_config.type \notin 0 .. 2
          /\ Goto("servo_create", "exit") /\ UNCHANGED gains
    /\ UNCHANGED <<kernelVars, readVars, clkVars, servoConfigVars, adjVars,
                   historyVars>>

\* clock_update() applies an adjustment of the servo's range, and steps the
\* clock in the state JUMP
AskFreq(freq) ==
    /\ pc = "loop" /\ AbsVal(freq) <= max_frequency
    /\ SetFreq(freq_clk_id, freq)
    /\ UNCHANGED <<pc, user_hz, unsync, readVars, madeVars, found_rate>>

LoopSetFreq ==
    \E freq \in Asked(max_frequency) :
        /\ AskFreq(freq)
        /\ request' = [freq |-> {freq}, step |-> {}]
        /\ UNCHANGED tx_time

LoopJump ==
    \E freq \in Asked(max_frequency), step \in Steps :
        /\ AskFreq(freq) /\ Step(step)
        /\ request' = [freq |-> {freq}, step |-> {step}]

Main ==
    \/ Fails \/ LogInit \/ Options \/ ParseConfig \/ ParseReturns \/ UdsCreate
    \/ DeviceInit \/ TsprocCreate \/ PhcCapsGet \/ SystemClock \/ AdoptFreq
    \/ ServoCreate

Next == Main \/ LoopSetFreq \/ LoopJump

Spec == Init /\ [][Next]_vars

FairSpec == Spec /\ WF_vars(Main)
-----------------------------------------------------------------------------
(* The domain of the state; the system clock's tick is one the kernel takes. *)
TypeOK ==
    /\ ConfigTypeOK
    /\ {freq_clk_id, tod_clk_id} \subseteq Clocks \union {"none"}
    /\ pc \in {"system_clock", "get_freq", "servo_create", "loop"}
         => {freq_clk_id, tod_clk_id} \subseteq Clocks
    /\ max_frequency \in Nat /\ intial_adj \in Int
    /\ gains \in [kp : Int, ki : Int]
    /\ realtime_hz \in Nat /\ realtime_nominal_tick \in Nat
    /\ hw \in [Clocks -> [tick : Nat, freq : Int]]
    /\ hw["realtime"].tick \in KernelTicks(user_hz)
    /\ unsync \in BOOLEAN

(***************************************************************************)
(* The start-up leaves every clock at the rate it was found with, also     *)
(* when it gives up half way.                                              *)
(***************************************************************************)
RateUntouched ==
    pc # "loop" => \A clk \in Clocks : Rate(clk) = found_rate[clk]

(***************************************************************************)
(* The servo starts from the rate the clock really has: the tick is        *)
(* accounted for, because clockadj_init() comes before clockadj_get_freq().*)
(***************************************************************************)
ServoKnowsRate ==
    pc = "servo_create" => intial_adj = -Rate(freq_clk_id)

(***************************************************************************)
(* Whatever frequency of its range the servo asks for, the clock gets it   *)
(* exactly: no tick is refused and no remainder cut, so the range of       *)
(* clockadj_max_freq() and the split of clockadj_set_freq() fit together,  *)
(* and the range is the one of the clock that is set (main.c:252-256).     *)
(***************************************************************************)
ClockObeys == \A freq \in request.freq : Rate(freq_clk_id) = freq

(***************************************************************************)
(* The PI servo steers: whichever of the fields for its gains the file     *)
(* gives, both gains are positive, provided that it gives both constants   *)
(* or a norm_max of either gain, and no negative one, which the range      *)
(* check lets through.  (Without norm_max, which is then 0, the gains are  *)
(* cut to 0 and the clock is never moved: pi.c:152.)                       *)
(***************************************************************************)
GainFields ==
    {"pi_proportional_const", "pi_integral_const", "pi_proportional_scale",
     "pi_integral_scale", "pi_proportional_norm_max", "pi_integral_norm_max"}

MayAmplify(cfg) ==
    /\ \A f \in GainFields : cfg[f] >= 0
    /\ \/ cfg.pi_proportional_const > 0 /\ cfg.pi_integral_const > 0
       \/ cfg.pi_proportional_norm_max > 0 /\ cfg.pi_integral_norm_max > 0

ServoSteers ==
    pc = "loop" /\ servo_config.type = 0 /\ MayAmplify(servo_config)
      => gains.kp > 0 /\ gains.ki > 0

(***************************************************************************)
(* "The time step in nanoseconds" (clockadj.h) is what the kernel gets:    *)
(* seconds and a non-negative rest below one second, below zero as well.   *)
(***************************************************************************)
StepIsExact ==
    \A step \in request.step :
        /\ tx_time.tv_sec * NsPerSec + tx_time.tv_usec = step
        /\ tx_time.tv_usec \in 0 .. NsPerSec - 1

(***************************************************************************)
(* "Set to 1 if syslog should be used" (logger.h): logger() never writes   *)
(* to a log file that could not be opened, whatever the file sets.         *)
(***************************************************************************)
LogsToOpenFile ==
    pc # "sys_log_init" /\ config["logging"].use_syslog # 0 => log_fp

(***************************************************************************)
(* Once the file's mapping is open the start-up comes to an end: however   *)
(* blocks are nested, every one that is opened is left, no token is waited *)
(* for in vain, and main() enters its loop or returns.  (A file without a  *)
(* mapping keeps servo_config_parse() going for ever.)                     *)
(***************************************************************************)
StartsOrReturns ==
    state # "START_PARSE" ~> pc \in {"loop", "exit"}

(***************************************************************************)
(* "Validates the values for the field" (config.c:364): the loop runs with *)
(* a delay filter of a length that its table allows, whatever the file     *)
(* gives or leaves out.                                                    *)
(***************************************************************************)
FilterLengthInRange ==
    LET field == device_tbl["delay_filter_length"]
    IN  pc = "loop"
          => device_config.delay_filter_length \in field.min .. field.max
=============================================================================
