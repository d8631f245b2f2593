# A verification of ext_servo

`ext_servo` is LinuxPTP's clock servo taken out of `ptp4l`: it listens to
ptp4l's event monitor on a UNIX socket, computes the offset of a clock from
the time stamps it gets there, runs a servo, and adjusts one or two clocks
(one for the frequency, one for the time of day).  This directory models it in
TLA+, checks small instances with TLC, and proves the most important
properties for every value of the constants with TLAPS.  Line numbers refer to
the files below `src/`.

Contents: [the system](#the-system), [modules](#modules),
[runs](#runs), [what the violations show](#what-the-violations-show),
[bounds](#bounds), [fairness](#fairness), [proofs](#proofs),
[assumptions and abstractions](#assumptions-and-abstractions),
[not modelled](#not-modelled), [plan](#plan).

## The system

ext_servo is one sequential process.  What is concurrent to it is outside:
ptp4l, which goes on stamping packets with the clock that the process steps;
the kernel, which may refuse an adjustment; and, for the SHM servo, ntpd
reading the shared segment.

```
 ptp4l --datagrams--> main loop --t1..t4--> time stamp processor <--> filter
   ^                    |   ^                       |
   | reads the clock    |   +---- offset, weight ---+
   |                    v
 clocks <--adjust-- clock_update <--adj, state-- servo (PI | linreg | NTP SHM)
```

| component | source | state | operations | what makes it correct |
|---|---|---|---|---|
| main loop | `main.c` 275-303, 99-162 | the receive buffer, `msg_type`, the decoded times, all of which outlive an iteration | poll, receive, decode, `clock_update()`, `path_delay()` | what is passed on is what was read; the clock stays in its range and runs at the frequency the servo believes in; a step throws the old stamps away and sampling resumes |
| start-up | `main.c` 178-269 | which clock is opened, its tick, the range and the gains given to the servo | read the configuration, open the clocks, read the frequency, set the range, create servo, filter, processor | no clock's rate is disturbed; the servo starts from the true rate, with a range the clock can follow; it comes to an end |
| message decoding | `msg.c` | none (stores through pointers) | `process_message()` | a record gives the stamps ptp4l measured |
| time stamp processor | `tsproc.c` | t1..t4, filtered delay, its valid flag, rate ratio | down/up stamps, update delay, update offset, set delay, set ratio, reset | no offset from stamps of two time scales or two masters; a weight is at most 1.0 |
| filters | `filter/` | a ring of samples, a sorted index or a running sum | create, sample, reset, destroy | the estimate is the median, or mean, of the latest samples |
| servo interface | `servo/servo.c` | `first_update`, thresholds, the count-down to LOCKED_STABLE | sample, reset, sync_interval, ... | LOCKED_STABLE is earned by small offsets within one lock (a large one does not restart the count-down, `servo.c:90`) |
| PI servo | `servo/pi/pi.c` | two first samples, drift, `last_freq`, `count` | sample, reset | the output and the integral stay in range; a step only ends an acquisition |
| linear regression | `servo/linreg/linreg.c` | reference point, ring of points, sizes and their errors | sample, reset, rate ratio, leap | points and reference move together with a step |
| NTP SHM servo | `servo/ntpshm/ntpshm.c` | a shared segment | sample | a reader that follows the protocol uses the stamps of one sample |
| clock adjustment | `clockadj.c`, `main.c` 32-97 | `realtime_hz`, `realtime_nominal_tick` | set/get frequency, phase, step, range, sync | what is asked for is what the clock does |
| configuration | `config.c` | the state of an automaton over the YAML scanner's tokens, the last key, flags, a union for the section that is read; the three configurations it is copied to | parse a token, open, fill and close a section, check and convert a value | what a file of sections says is what the program runs with, if the members can hold it; the parse ends |
| logger | `logger.c` | its configuration, the log file | open the file, take a configuration, write | it never writes to a file that could not be opened |
| socket, kernel compatibility | `uds.c`, `missing.h` | - | I/O | - |

What is hard to test here:

* **stale state**: the locals of `main()` survive a message that does not set
  them; the stamps in `struct tsproc` survive a step unless reset; the
  filtered delay survives a full reset behind a cleared flag; the last key and the
  flags of the configuration's parser survive the section they belong to.
* **ordering**: a step overtakes datagrams in the socket and delay exchanges
  on their way; the stores of the SHM servo are not ordered; the calls at
  start-up depend on each other and on *which* clock they are given.
* **partial failure**: a failing `recvfrom()` is treated as a message, a failing
  `clock_adjtime()` as a success; start-up may give up halfway.
* **long histories**: the range of the integral, the count-down to
  LOCKED_STABLE, the points of the regression across steps and resets, the ring and the sorted index of the filters.
* **numbers**: a split of a frequency into ticks and a rest, a negative step
  with a borrowed second, sums that wrap around, signed corrections in
  unsigned fields, a range check that checks nothing and values that are cut to
  the width of a member.

`PROJECT.json` lists them one by one, at their lines, with the properties that
look at each.

## Modules

| module | models | how it corresponds to the code |
|---|---|---|
| `Tmv`, `FixedPoint` | `tmv.h` | integers; C's division, wrap-around; doubles as multiples of 1/`One` |
| `Window`, `FilterWindow`, `FilterEstimates` | the promise of `filter.h` | the abstract filter: a window of the latest samples and their median or mean, in the arithmetic of words |
| `MovingMedian`, `MovingAverage`, `FilterLength` | `mmedian.c`, `mave.c` | ring, index, count and order array, or sum, as in the structs; sample and reset |
| `Filter` | `filter.c` | a filter of either type, whose calls go to one of the two modules above; `Abstract` is the refinement mapping to `FilterWindow`, which reads the window off the ring |
| `Tsproc` | `tsproc.c` | one operator per function from a record (the struct) to a record |
| `TsprocApi` | callers of `tsproc.h` | any sequence of calls, with histories of what was stored since a step and since a full reset |
| `Servo` | `servo.c`, `servo.h` | the fields of `struct servo`, and `Conclude`, which is the switch at the end of `servo_sample()` |
| `PiServo` | `pi.c` | an action per case of `pi_sample()`, `ServoReset` for `pi_reset()`; composed with `Servo` to `ServoSample` |
| `PiServoApi` | callers of `servo.h` | any sequence of samples and resets |
| `Messages` | what `main()` knows of a datagram | the kinds of datagrams with the two times of a record, and what `process_message()` leaves in the locals of `main()` |
| `Msg` | `msg.c` | the bytes: big-endian fields (written by ptp4l, external), seconds from two parts, corrections in 2^-16 ns; a refinement of `Messages` |
| `ExtServo` | `main.c` 275-303, 99-162 | extends `PiServo`, `Tsproc` and `Messages`; `Receive(d)` is one *whole* iteration: decode, switch on `msg_type`, stamps, offset, servo, adjustment, reset of the stamps |
| `MonitorLoop` | the loop closed over ptp4l (external) | extends `ExtServo`; `Iteration` is `Receive` of the datagram at the head of the socket, the other actions are ptp4l's |
| `Regression` | `regress()` of `linreg.c` | the running sums and the line through weighted points |
| `Linreg` | `linreg.c` | the struct as the record `lr`, one operator per function from struct to struct; `LinregSample` is `linreg_sample()` with the three ways it ends, `DivideByZero` the 0/0, after which the model stops |
| `LinregApi` | callers of `servo.h` | samples and resets on a clock that runs at the frequency asked for and is stepped on JUMP, with a history of the latest samples |
| `ClockAdj` | `clockadj.c`, `main.c` 32-97 | tick and frequency as in `struct timex`; the kernel's side (range of the tick, tolerance) is external |
| `ConfigTables` | the tables of `config.c` 21-280 | the fields of a section with type and range, and how the text of a value becomes what its member holds: converted, then narrowed or cut |
| `Yaml` | libyaml's scanner (external) | the tokens of any file of block mappings and sequences, within bounds |
| `Config` | `config.c` 300-877, `logger.c` 74-92 | the parser: a disjunct per case of its nested switches on state and token |
| `PiGains` | `pi.c` 15-23, 146-214 | the gains a configuration gives for an interval of 1.0 |
| `Startup` | `main.c` 178-269 | one action per step, each with its failure; `ParseConfig` is one token |
| `NtpShm` | `ntpshm.c` | the stores of `ntpshm_sample()` one by one, the reader of the header comment (lines 24-43), crash of the writer, reordering of plain stores |
| `MC*` | - | instances for TLC |
| `Calls_proofs` | `tmv.h`, `tsproc.c`, `pi.c` | lemmas on single calls of `Tmv`, `Tsproc` and `PiServo`, on which the next two rest |
| `Api_proofs` | - | theorems about `PiServoApi` and `TsprocApi` |
| `ExtServo_proofs` | - | theorems about `ExtServo` and about `MonitorLoop` |
| `Filter_proofs`, `LinregApi_proofs`, `Msg_proofs`, `NtpShm_proofs`, `Startup_proofs` | - | theorems about the module of that name; the last also about `Config`, `ClockAdj` and `PiGains` |

Definitions keep the names of the code.  A definition with the suffix of a
fault and the comment `Mutant:` before an original is a wrong version of it;
the project's mutants replace the original by it, and the named property then
fails.  They are no part of any specification.

### How the modules compose

`Servo` <- `PiServo` <- `ExtServo` <- `MonitorLoop`;
`Servo` <- `Linreg` <- `LinregApi`, with `Regression` below `Linreg`; `Tsproc` <- `ExtServo`;
`Messages` <- `ExtServo`; `ConfigTables`, `Yaml` <- `Config`; `ClockAdj`, `Config`, `PiGains` <- `Startup`.
`Msg` is checked to implement the decoding step of `Messages`: `Msg!Decoded` is the
refinement mapping, which rounds the correction to the nanosecond.  The filter enters `Tsproc` as its window and the
operator constant `FilterValue`: `Filter` is checked to compute exactly such a
function of the window, so that what is shown of `Tsproc` holds with either
filter.  `Startup` ends in the state `ExtServo` starts from:
`ServoKnowsRate` and `ClockObeys` are what `ExtServo!Init` and its `SetFreq`
take for granted.

## Runs

| run | question | result |
|---|---|---|
| `pi_servo` | any samples and resets: range, count-down, acquisition | holds |
| `filter` | do both filters refine `FilterWindow`: is the estimate the middle of the latest samples, or their mean though the sum wraps around? is the order array sorted? is half of the window on either side of the median? | holds |
| `tsproc` | all four modes, any calls: no stamps from before a step, none of a former remote (except RAW_WEIGHT), weight at most 1.0 | holds |
| `ext_servo` | the main loop in FILTER_WEIGHT mode, `step_threshold` 0, LOCKED_STABLE, with replayed datagrams, failing receives and failing adjustments: range, first lock for good; is the clock where the servo believes it is, until an adjustment fails? does the servo get another sample after a step? | holds; the last under fairness |
| `ext_servo_replay` | is what is passed to the servo what was read? | **violated** |
| `monitor_loop` | FILTER and RAW mode, stamps overtaken by a step: does a consistent step land on the master, is one enough? | holds, with the exception the property names |
| `linreg` | any samples and resets on a clock that obeys: are the points in the master's time and in that of the undisciplined clock, is a window size earned, when does it divide by zero? | holds |
| `msg` | do the bytes of a record become the times that were measured? | holds, until 2106 |
| `startup` | any file, any devices, any failing step, clocks found with any tick: what does the program run with, is it what the file says wherever the members can hold it, and does it come to its loop? | holds; the end of the start-up under fairness |
| `startup_config` | is the delay filter's length within the range of its table (`config.c:364`)? | **violated** |
| `ntpshm` | stores seen in program order: whole samples under even counts, two neighbouring ones at worst under odd ones; the servo killed between any two stores, and started again: nothing unwritten is used | holds |
| `ntpshm_torn` | equal counts mean one sample (`ntpshm.c:35`) | **violated** |

### What the violations show

* `startup_config`: `value_range_check()` joins its two comparisons with `&&`
  (`config.c:381`, 387), so that no number is refused, and nothing reads the defaults
  of the tables.  A file without `delay_filter_length` brings the program into its loop
  with a length of 0, and the first sample of the moving average divides by it
  (`mave.c:40`).  To write `||` is not enough: `config.yml` itself sets
  `pi_proportional_exponent` to -0.3, and its table wants at least `DBL_MIN`.
* `ext_servo_replay`: `process_message()` stores nothing for a datagram which is
  not a signaling message (`msg.c:94`); `main()` goes on with the `msg_type` and
  the times of an earlier one, and the servo gets the same sample twice.  The
  same happens after a failing `recvfrom()`, because `count` is a `uint16_t`.
* `ntpshm_torn`: without barriers the plain stores of the stamps may be moved
  after the volatile count and flag (the places say "TODO: write memory
  barrier"), so a reader finds the flag set, equal counts, and half a sample.  The
  barriers alone would not be enough: with `Reordering = FALSE` the property is
  violated too, because the writer increments the count *before* it clears the
  flag (`ntpshm.c:76`), so that a reader who saw the flag before the update may find
  the same odd count twice within it.  A reader should trust even counts only, which
  `EvenCountMeansWhole` shows to be enough.

In RAW_WEIGHT mode the weight of the first offset after a full reset is computed
with the delay of the former master, because `tsproc_reset(tsp, 1)` clears
`filtered_delay_valid` but not `filtered_delay` and the weight does not look at the
flag (`tsproc.c:190`), while `tsproc.h:125` says that everything is reset.  `main()` never
asks for a full reset; `FormerRemoteForgotten` says what holds in the other modes.

`servo.h:31` explains SERVO_LOCKED_STABLE as "the available master is lost", while
`servo_sample()` announces it for syncs that have just been received; no run is
spent on that, `StableEarned` says what the state does mean.

In LOCKED_STABLE `clockadj_set_phase()` gets the frequency adjustment of the servo,
in ppb, where `clockadj.h:40` says nanoseconds (`main.c:140`).  That needs no run
either; `ClockInRange` bounds what the clock is told.

One result that is not a violation but worth knowing: in FILTER mode a sync
that was stamped before a step and read after it meets the delay exchange read
after it, gives an offset wrong by the step, and the clock may be stepped wrongly
once more.  `OneStepSuffices` says exactly when this cannot happen: if the step
overtook no delay exchange and, in the modes that filter the delay, no datagram.

## Bounds

Every bound is a constant or a set in an `MC` module.

* `pi_servo`: offsets -3..3, times 0..3, frequencies -3..3, weights 1/2 and 1,
  thresholds 1 and 2: each threshold is exceeded, met and missed, the clamp is hit
  on both sides, times go back and come too soon.
* `filter`: a ring of 4 over six values, with equal, negative and odd-sum ones: even
  and odd counts, a full ring, several wraps; words of 16 values, so that the
  running sum does wrap around, and so does the sum of the two middle samples 7 and 7 (then
  the "median" is -1).  `HalfOnEitherSide` leaves such windows out: it is about samples
  that are halves of words, as all raw delays are (`tsproc.c:105` halves their sum), here -3 to 2.
* `tsproc`: two times of either clock, delays of both signs, a window of 2, two
  ratios; all four modes.  The state space is finite without a constraint.
* `ext_servo`: two syncs, one delay exchange and a message that is no signaling
  message: a small and a large offset of either sign.  The buffer, and so the first
  datagram a failing receive replays, starts with another sync.  The clock's range is
  -3..3, and it is found with -3 or 2; the window is 1.  `ext_servo_replay` has three
  syncs, two exchanges and an unknown TLV, in FILTER mode.
* `monitor_loop`: the master's time runs from 10 to `Horizon` = 17, at most
  `Waiting` = 3 datagrams wait, `MaxRequests` = 1 exchange is on its way.  The clock
  starts 6 behind or 8 ahead.  Acquisition takes two syncs and a step, so there is
  time for a second step, and the mutants show that one happens when the code is
  wrong.
* `linreg`: windows of two and four points, six calls, so that the ring wraps, both
  windows are filled, errors are averaged with either formula and a reset meets
  full windows; offsets below and above both thresholds, gaps of 0 and 4, weights of
  0 and 1.  The frequency range of 30 % makes rounding and clamping show.
* `startup*`: two PHCs and CLOCK_REALTIME, `USER_HZ` of 100 and 1024, a few
  found frequencies and ticks, requests at both ends of the range.  Files have up to
  `MaxItems` = 4 keys and entries in collections nested up to `MaxOpen` = 3 deep: a section
  that is repeated or has another between, a block inside a section, a sequence of
  sections, unknown keys, missing values, values that no enumeration has, a number that its member cannot hold and a
  device's name that is too long.  The tables
  are complete; a file uses eleven of their fields.
* `msg`: bytes of two bits, so that `seconds_lsb` is full at 255; times on both
  sides of it, corrections that are negative, fractional and the largest there is.
* `ntpshm*`: 3 or 4 samples.  A reader who finds the count unchanged has seen the
  stores of two updates at most, so that three samples exhibit every case; the
  proofs have no such bound.

Deadlock is not checked in `ExtServo` (`main()` returns after a failing `poll()`),
`MonitorLoop`, `LinregApi` and `NtpShm` (their bounds end the behaviours) and `Startup`
(it ends).

## Fairness

Two properties need it.  `StartsOrReturns` in `startup` assumes weak fairness of `Main`, the
steps of `main()` before its loop: a sequential program goes on, and the scanner
always has a next token.  The property starts once the file's mapping is open; a
file without one keeps `servo_config_parse()` going for ever, because
`YAML_STREAM_END_TOKEN` is not looked at in the state START_PARSE (`config.c:811`).

For `OffsetsResume` in `ext_servo`, `FairSpec` adds weak fairness of
`Delivers("sync")` and of `Delivers("delay")`: ptp4l sends a sync record with
every sync message and a delay record with every exchange, and `main()` does
nothing but poll and read.  There is no assumption on their order, on receive
errors or on other messages in between.  Without the delay records the servo
waits for ever in three of the four modes, and rightly so.  The property's
disjunct `~running` covers that `main()` ends when `poll()` fails, at any
moment.

## Proofs

All for every value of the constants the modules' assumptions allow, and for
behaviours of any length.

| theorem | module | says |
|---|---|---|
| `TypeCorrect`, `FrequencyStaysInRange`, `LockStaysConsistent`, `StableIsEarned`, `StepsNeedAcquisition`, `StableEndsUnlocked` | `Api_proofs` | all properties of the run `pi_servo` |
| `TsprocTypes`, `StampsAreFromAfterStep`, `FormerRemoteIsForgotten`, `WeightStaysFraction` | `Api_proofs` | all properties of the run `tsproc` |
| `SymmetricPathIsExact`, `StaleExchangeIsWrong` | `Calls_proofs` | on a symmetric path the offset is the error of the clock, exactly; if the clock was stepped between the sync and the exchange it is off by half the step in RAW, rounded as C does |
| `LoopTypes`, `ClockStaysInRange`, `ClockKeepsFollowing`, `LockIsForGood` | `ExtServo_proofs` | the main loop's type, range, belief and lock |
| `StepsLand`, `SecondStepNeedsStale` | `ExtServo_proofs` | all properties of the run `monitor_loop`: a consistent step lands on the master, and what a second one needs |
| `ClosedLoopIsMainLoop`, `ClosedLoopInRange`, `ClosedLoopStepsOnce` | `ExtServo_proofs` | the closed loop implements `ExtServo`; it keeps range and belief as well; with `step_threshold` 0 it steps the clock once at most, whatever that step overtook |
| `MsgTypes`, `BytesRefineMessages` | `Msg_proofs` | all properties of the run `msg`: no time overflows, and the decoding of bytes implements that of `Messages` |
| `MeasuredIsDatagram`, `EraEnds` | `Msg_proofs` | what is decoded is a datagram `ExtServo` is about; beyond the seconds that `seconds_lsb` counts every time comes out too early |
| `FilterTypes`, `OrderStaysSorted`, `FiltersEstimateWindow` | `Filter_proofs` | properties of the run `filter`: the last is the refinement of `FilterWindow` by either filter |
| `MedianInTheMiddle` | `Filter_proofs` | as many samples are above the median as below it, if they are halves of words |
| `MedianAgrees`, `MeanAgrees` | `Filter_proofs` | a window of equal samples has this value as its median if twice the value fits the word, and as its mean if the sum does |
| `LinregTypes`, `PointsKeepRemoteTime`, `PointsKeepUndisciplinedTime`, `SizesAreEarned`, `ZeroDivisionNeedsSameTimes` | `LinregApi_proofs` | all properties of the run `linreg` |
| `StartupTypes`, `RatesAreUntouched`, `ServoKnowsTheRate`, `ClocksObey`, `StepsAreExact`, `ServoCanSteer`, `LogIsOpen`, `FileIsObeyed` | `Startup_proofs` | all invariants of the run `startup` |
| `NtpShmTypes`, `EvenCountsAreSafe`, `OnlyWrittenIsUsed` | `NtpShm_proofs` | type, and the SHM protocol for any number of samples and crashes, if stores are seen in program order |

Along which argument:

* `Calls_proofs` has the lemmas on one call: that the product of gain and
  weighted offset is an integer, that the clamp keeps the range, what each case of
  `pi_sample()` does to state and count.  The integral is kept in range *because*
  it is left alone whenever the output is clamped and otherwise satisfies
  `drift + term = output`; thus the inductive invariant `PiInv` combines the type,
  `FreqInRange`, and `LockConsistent`, which ties the servo's state to the
  `count` of `pi.c`.  None is inductive alone.
* For `TsprocApi`, `Api_proofs` strengthens the properties by what the histories mean: a stamp
  is non-zero only if it was stored since the last reset, the filtered delay is
  valid only if it was stored since the last full one.
* `ExtServo_proofs` lifts `PiInv` through a whole iteration.  `EInv` adds the domain of
  the loop's variables, the servo's count-down, and the two properties themselves.
  The interesting case is a sample that leaves the servo UNLOCKED: it does
  not touch the clock, so one needs that it does not touch `last_freq` either.  That
  clock and belief agree holds until an adjustment fails, which the history
  `freq_failed` remembers.
* The second half of `ExtServo_proofs` is about the closed loop.  `ClosedInv` says that there
  is a function `f` from the number of steps to the error the clock had after so many,
  and that every stamp in the socket, on its way, or in the processor tells the error
  of its own epoch (`ErrorsAre`); a delay in the filter from stamps of one epoch is the delay of the path
  (`DelaysOK`).  An offset from one epoch then *is* the present error (`OffsetIsError`,
  which is `SymmetricPathIsExact` in all four modes), and the step is its negation.  For
  `SecondStepNeedsStale`, `Settled` follows what is left from before the first step: if
  that one overtook nothing that matters, a stale sync is still in the socket at most,
  and meets no delay exchange before a fresh sync replaces it.  The history
  `matched` counts a delay only if it was really given to the filter.
* The last part of `ExtServo_proofs` carries `EInv` over: what ptp4l does leaves the main loop's
  variables alone, and an iteration of the closed loop reads one datagram
  (`ClosedStepReads`).  `SteppedOnce` joins the number of steps, which only the closed loop
  counts, with the lock, which a step begins (`StepIsJump`) and `step_threshold` 0 never
  ends (`LockedDispatch`).
* `Msg_proofs`: the fields are digits of a number in the system of base `Byte`, 2 of them
  make one of base `Byte`^2 (`TwoDigits`), and so on to 8 bytes (`ReadShort`, `ReadLong`, `Read64`:
  what is written comes out modulo the width, which `Signed` turns back into the
  correction, `CorrectionExact`).  `Or` is a recursive function; that it has values at all is shown by the
  least row that had none (`OrDefined`, `OrValues`).  In the era the upper part of the
  seconds is 0, and the or is the lower part (`TimestampExact`); beyond, the 32 bits bound what comes out,
  which is all that `MsgTypes` and `EraEnds` need.  `RoundedTime` shows that to shift the correction and
  to add, or subtract, it is to round the exact time down, or up.
* `Filter_proofs` maps the ring, read from the index backwards, to the sliding window of
  `FilterWindow`.  For the median `OrderInv` says that the order array lists the slots in
  use, each once, sorted by value; insertion and removal keep that (with equal
  samples the array and `SortSeq` may differ in order but not in values: the k-th value
  of both is the one with as many smaller ones, by counting).  The sum of the middle two is
  wrapped in both; that of two halves of words needs no wrapping, so that half of it lies between
  them (`HalfTheSum`, `MedianHalves`).  For the mean
  `AverageInv` says that the running sum is the window's *modulo the word*, and that
  the slots not yet in use hold 0, which is what makes the subtraction of the
  overwritten slot right.
* `LinregApi_proofs`: `LinregInv` has four parts.  `TimeInv` bounds how far steps move the
  clock, so that `last_update` is 0 only if there was no sample, which is how
  `update_reference()` reads it.  `RingInv` says by `Matches` that points and samples of
  the same age agree: y and the master's time differ by one and the same number for all of
  them, and so do x and the undisciplined clock up to a fraction of a unit; that
  fraction is bounded *because* `x_remainder` carries it to the next sample, where the
  reference and the history are equal without any fraction.  `SizeInv` says that
  a slope or an averaged error is there only with enough points of after the reset; it takes
  that `ERR_INITIAL_UPDATES` is at least 1.  That `Undefined` means equal times is
  the Cauchy-Schwarz inequality with its case of equality (`SpreadSign`), proved along the running
  sums: each point adds a square to the spread (`SpreadStep`).
* `Startup_proofs`: `KernelInv` follows the kernel's tick and frequency through all steps of
  the start-up, and which of the tables `clockadj_init()` has filled (`AdjOK`, `RangeOK`),
  and that the system clock's tick is one the kernel takes (`KernelOK`).
  `ClocksObey` then is arithmetic: the tick that is rounded to leaves a
  rest of half a tick at most, which the tolerance covers, and at the ends of the range the tick stays
  within the kernel's.  The assumption about `USER_HZ` it needs is in
  `StartupAssumption`, which TLC evaluates; 100, 1000 and 1024 satisfy it, 128 does not.
  `StartInv` adds the domain of parser and servo, the
  log file and the gains.  `ReadInv` is what the parser knows of a
  file of sections: its state and flags are told by how deep the scanner is and
  where in the innermost mapping (`PlaceOK`, `FlagsOK`), and every member of a section holds
  what the keys written so far may leave in it (`MeaningOK`), narrowed or cut.  `FittingSays` adds
  that a member which can hold the value then has exactly it.
* `NtpShm_proofs` uses two invariants, since crashes and whole samples exclude
  each other; the first one holds until the first crash.  `SeqInv` follows the writer by the set of stores still to come
  (`Shape`, `Progress`: the count is even iff no update is halfway) and the reader by
  what it has read so far (`ReaderFits`).  `WriteInv` (`Shape`, `Ordered`, `Guarded`,
  `Written`) needs no parity and survives crashes.  The type needs neither, but that the
  count is bounded by the stores there were (`Counted`).

Hypotheses of the theorems, which are no assumptions on the constants because no
finite check can evaluate them:

* on `Tsproc` and `ExtServo`, `FilterAnswers`: the estimate of a window of integers, not empty, is an
  integer, which median and mean satisfy;
* on `MonitorLoop`, `FilterAgrees`: moreover a window of at most `FilterLength` samples that all
  are `Path` has `Path` as its estimate.  By `MedianAgrees` the median does if 2 * `Path` fits
  the word, by `MeanAgrees` the mean if `FilterLength` * `Path` does; a filter whose sum wraps
  around does not;
* on `MonitorLoop`, `ClosedLoopIsMainLoop` only: `[]Delivered`, the socket delivers members of
  the constant `Datagrams`, with which `ExtServo` describes its input;
* on `MonitorLoop`, `ClosedLoopInRange` and `ClosedLoopStepsOnce` only: `[]Stamped`, the datagram
  read next is one of `Datagram`, that is, the local clock shows no negative time.  The
  instance in `MCMonitorLoop` satisfies it, also with a `step_threshold` of 0;
* on `Startup`: what the loop asks of a clock (`Asked`) are integers, what a file may hold
  for a key (`TextsOf`) are texts, and the names in it (`NamesIn`) are strings.  The instances in
  `MCStartup` satisfy them.

Recursive functions are unfolded by proofs of their own: that they exist is shown
by the least argument at which they would not (`LeastNumber`, `RecursionExists`), since
the library's theorems on induction take an operator.

Model-checked only: the violations, which say what does *not* hold of the instance, and the liveness properties `OffsetsResume` and `StartsOrReturns`
(temporal reasoning with fairness and ENABLED is out of the prover's reach).

## Assumptions and abstractions

* **Doubles are integers**: gains, weights and rate ratios are multiples of
  1/`One`, frequencies integers, products truncated as in `dbl_tmv()`.  Nothing is
  said about rounding errors.  A rate is given in ppb to the clock and scaled by 65.536
  to `timex.freq`; `ClockAdj` keeps the split into tick and rest and leaves the
  scaling out.
* **Parameters of the PI servo**: `pi_sync_interval()` is called once, before the
  first sample, with an interval of 1.0; its results are the constants `Kp`, `Ki` and
  `EstInterval`.  `PiGains` computes the gains in thousandths, for `ServoSteers`: with a
  `norm_max` that the file leaves out, and that is therefore 0, they are cut to 0
  (`pi.c:152`), and the servo never moves the clock.
* **The regression servo**: slope, frequency ratio and remainder are multiples of
  1/`One`, the other doubles integers, `update_interval` is a whole number of seconds.
  The properties are about times, sizes and counts, not about how good the line is.
  After a 0/0 the code goes on with NaN as its frequency, also across resets; the
  model ends there.
* **Datagrams** are a kind and the two times of a record; `Msg` has the bytes.  In
  `Msg` a byte has any even number of values and the nanoseconds of all seconds that `seconds_lsb`
  counts, with any correction, fit an `int64_t` (`MsgAssumption`; 256 and 10^9 satisfy it).  The refinement ends with
  these seconds: beyond, from 2106 on, `seconds_msb` is shifted to the wrong place (`msg.c:20`).  A short datagram leaves the
  rest of the buffer as it was, which is within the datagrams the model enumerates.
* **Uninitialized locals**: `data`, `msg_type` and the times of `main()` start with any
  value of `Junk`.
* `StartFreqs` **within the range**: whoever set the clock before kept to its
  range.  A clock found beyond is not considered.
* **`max_frequency`** of the configuration has no effect, because `main.c:252`
  overwrites it by the range of the clock; the model has the latter only.
* **Both clocks or neither** are CLOCK_REALTIME: `device_init()` (`main.c:68`)
  leaves no other way.
* **Configuration files** consist of block mappings and block sequences with scalars
  as keys, all else libyaml's scanner produces (flow style, anchors, several
  documents) is left out, and it may fail at any token.  A text is a word, the
  number that `atoi()` reads in it and the one that `strtod()` reads.
* **Values that do not fit** are refused by nothing.  Four members are of type `uint8_t`,
  `poll_time` is a `uint16_t`, and strings are cut to the 15 or 31 characters their arrays hold: 256 for `use_stdout`
  switches it off, 2.9 for an integer is 2, a longer path of a device is another
  path.  The model stores what the conversion gives, `RunsAsWritten` is about the values that `Fits`
  admits.  To convert a number that is out of range to an unsigned member (as also the -1
  of an unknown name to an enumeration) is undefined; the model allows what x86-64 (the low
  bits, all bits set) and ARM (0 for a negative one) do.
* **Filter length** is 1 or more in the modules on filters and stamps, as `config.yml`
  says; `startup_config` shows that the program does not make sure of it.
* **`USER_HZ`** is 100, 1000 or 1024.  With 128 the range `clockadj_max_freq()` computes
  is one tick larger than the kernel's.
* **The SHM stamps**: seconds, microseconds and nanoseconds of a stamp are one
  store; the leap indication, precision and sample count follow the stamps.
  ntpd is external and does what the comment in `ntpshm.c` says.  By the `poll()`
  between two samples the stores of the former one are visible.
* **The closed loop** leaves out what a frequency of some ppb moves the clock in a
  few seconds, as well as receive errors, which the runs on `ExtServo` cover.

## Not modelled

* *`clockadj_compare()`, `sysclk_set_tai_offset()`, `servo_leap()`,
  `tsproc_set_delay()` from `main()`*: never called by the program
  (`tsproc_set_delay()` is modelled as part of the interface all the same).
* *Socket, the text of log messages*: input and output, without state that the rest
  reads.
* *Kernel compatibility* (`missing.h`): definitions for older kernels.
* *`pow()` in `pi_sync_interval()`*: the interval is 1.0.  `parse_config_file()` of `config.h`
  is declared only.

## Plan

Done: the modules above in the order `Tmv`, `Servo`, `PiServo`, `PiServoApi`,
filters, `Tsproc`, `TsprocApi`, `ExtServo`, `NtpShm`, `ClockAdj`, `Startup`,
`MonitorLoop`, `Regression`, `Linreg`, `Messages`, `Msg`, `ConfigTables`, `Yaml`, `Config`,
`PiGains`.  Next, in this order:

1. `Linreg` in the main loop: `LinregApi` steps the clock at once, `ExtServo` is built on
   the PI servo.  The frequency the loop sets and `clock_freq` agree as
   `ClockFollowsServo` says of the PI servo, and the replayed syncs of
   `ext_servo_replay` are what `ZeroDivisionNeedsReplays` is about.
2. More refinements stated as such: `Startup` ends in `ExtServo!Init`, an atomic register
   implemented by `NtpShm` under even counts.
