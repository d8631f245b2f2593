----------------------------- MODULE LinregApi ------------------------------
(***************************************************************************)
(* The linear regression servo under any sequence of servo_sample() and    *)
(* servo_reset(), on a clock that is stepped when the servo says so.       *)
(***************************************************************************)
EXTENDS Linreg, Window

CONSTANTS
    Offsets,       \* the offsets,
    Gaps,          \* the local time from one sample to the next (0: the same
                   \* sync once more) and
    Weights,       \* the weights that samples may have
    InitialAdjs,   \* the -frequency the clock may have at start-up
    Start,         \* time of the clock at start-up
    MaxCalls       \* bound on the calls

ASSUME ApiAssumption ==
    /\ Offsets \subseteq Int /\ Gaps \subseteq Nat /\ Weights \subseteq Nat
    /\ InitialAdjs \subseteq -MaxFrequency .. MaxFrequency
    /\ Start \in Nat \ {0} /\ MaxCalls \in Nat
    \* the time of the master is after 1970, whatever the steps
    /\ \A offset \in Offsets : Start > MaxCalls * AbsVal(offset)

VARIABLES
    local,         \* the local time stamp of the last sample, as the clock
                   \* now shows it
    calls,         \* number of calls
    samples        \* history: the latest samples since the reset, by the
                   \* time of the master, the time of the undisciplined local
                   \* clock (in units of 1/One) and the weight

vars == <<lrVars, local, calls, samples>>

Init ==
    /\ \E initial_adj \in InitialAdjs : LinregInit(initial_adj)
    /\ local = Start /\ calls = 0 /\ samples = <<>>

\* What the undisciplined clock has counted while the clock, running at the
\* frequency the servo asked for, went on by gap
Undisciplined(gap) == TmvDiv(gap * NsPerSec * One, NsPerSec - adj)

\* The master's time is the local time stamp less the offset
Taken(offset, gap, weight) ==
    [remote |-> local + gap - offset, weight |-> weight,
     elapsed |-> IF samples = <<>> THEN 0
                 ELSE samples[Len(samples)].elapsed + Undisciplined(gap)]

Sample ==
    \E offset \in Offsets, gap \in Gaps, weight \in Weights :
        LET local_ts == local + gap
        IN  /\ calls < MaxCalls /\ calls' = calls + 1
            /\ \/ /\ LinregSample(offset, local_ts, weight)
                  /\ local' = IF state' = "JUMP" THEN local_ts - offset
                              ELSE local_ts
               \/ /\ DivideByZero(offset, local_ts, weight)
                  /\ local' = local_ts
            /\ samples' = Pushed(samples, Taken(offset, gap, weight), MaxPoints)

Reset ==
    /\ calls < MaxCalls /\ calls' = calls + 1
    /\ defined /\ LinregReset
    /\ samples' = <<>>
    /\ UNCHANGED local

Next == Sample \/ Reset

Spec == Init /\ [][Next]_vars
-----------------------------------------------------------------------------
(* The domain of the state. *)
TypeOK ==
    /\ ServoTypeOK /\ defined \in BOOLEAN
    /\ lr.num_points \in 0 .. MaxPoints
    /\ lr.last_point \in 0 .. MaxPoints - 1
    /\ lr.points \in [0 .. MaxPoints - 1 -> [x : Int, y : Int, w : Nat]]
    /\ lr.x_remainder \in 1 - One .. One - 1
    /\ lr.size \in {0} \union Sizes
    /\ lr.clock_freq \in -MaxFrequency .. MaxFrequency
    /\ lr.frequency_ratio \in Int
    /\ lr.results \in [Sizes -> [slope : Int, intercept : Int, err : Nat,
                                 err_updates : 0 .. InitialUpdates]]

\* The points in use and the samples they stand for, the newest at 0
Used == 0 .. lr.num_points - 1
PointAt(a) == lr.points[(MaxPoints + lr.last_point - a) % MaxPoints]
SampleAt(a) == samples[Len(samples) - a]

(***************************************************************************)
(* The points keep to the time of the master, also across steps, which     *)
(* move the reference and last_update together: two points lie as far      *)
(* apart in y as their samples in the time of the master.                  *)
(***************************************************************************)
PointsInRemoteTime ==
    /\ lr.num_points = Len(samples)
    /\ \A a, b \in Used :
          PointAt(a).y - PointAt(b).y = SampleAt(a).remote - SampleAt(b).remote

(***************************************************************************)
(* Their x is the time of the undisciplined clock: the corrections, which  *)
(* change from sample to sample, are taken out, neither they nor the steps *)
(* leave a trace, and the fractions cut off from x do not add up.          *)
(***************************************************************************)
PointsInUndisciplinedTime ==
    lr.num_points = Len(samples) =>
        \A a, b \in Used :
            AbsVal(One * (PointAt(a).x - PointAt(b).x)
                   - (SampleAt(a).elapsed - SampleAt(b).elapsed)) < One

(***************************************************************************)
(* A size is used only if there are as many points of after the last       *)
(* reset, and a size other than the smallest that has a line only if its   *)
(* errors were averaged for long enough: err, which a reset does not       *)
(* clear, is never compared before.                                        *)
(***************************************************************************)
SizeIsEarned ==
    lr.size # 0 =>
        /\ Enough(lr, lr.size)
        /\ \/ lr.results[lr.size].err_updates = InitialUpdates
           \/ \A s \in Sizes : s < lr.size => lr.results[s].slope = 0

(***************************************************************************)
(* The code divides by zero only if no time has passed, or nothing has any *)
(* weight, over as many samples since the reset as the smallest regression *)
(* uses points: one sync that is replayed does no harm.                    *)
(***************************************************************************)
ZeroDivisionNeedsReplays ==
    ~defined =>
        /\ Len(samples) >= Points[MinSize]
        /\ \A a, b \in 0 .. Points[MinSize] - 1 :
              \/ SampleAt(a).weight = 0 \/ SampleAt(b).weight = 0
              \/ AbsVal(SampleAt(a).elapsed - SampleAt(b).elapsed) < One
=============================================================================
