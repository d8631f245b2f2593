------------------------------- MODULE Linreg -------------------------------
(***************************************************************************)
(* The servo based on linear regression (linreg.c).  The struct is the     *)
(* record lr, a function of the code an operator from the struct it finds  *)
(* to the one it leaves.  Doubles are integers, or fixed-point numbers     *)
(* where the code multiplies by them (slope, frequency_ratio, x_remainder).*)
(*                                                                         *)
(* If all the points of a regression lie at one time or have no weight,    *)
(* the code divides 0.0 by 0.0 and the frequency is no number any more;    *)
(* the model ends there.                                                   *)
(***************************************************************************)
EXTENDS Servo, Regression

CONSTANTS
    MinSize, MaxSize,  \* MIN_SIZE, MAX_SIZE: 2 to their power points are used
    InitialUpdates,    \* ERR_INITIAL_UPDATES
    Smoothing,         \* 1 / ERR_SMOOTH
    UpdateInterval,    \* update_interval, set once before the first sample
    NsPerSec           \* 1e9 in the code

ASSUME LinregAssumption ==
    /\ MinSize \in Nat \ {0} /\ MaxSize \in Nat /\ MinSize <= MaxSize
    /\ InitialUpdates \in Nat \ {0} /\ Smoothing \in Nat \ {0}
    /\ UpdateInterval \in Nat \ {0}
    /\ NsPerSec \in Nat /\ MaxFrequency < NsPerSec

VARIABLES
    lr,         \* the struct linreg_servo
    defined     \* no regression has divided by zero

lrVars == <<servoVars, lr, defined>>

Sizes == MinSize .. MaxSize

\* 1 << size: the points a regression of this size uses
Points[size \in 0 .. MaxSize] == IF size = 0 THEN 1 ELSE 2 * Points[size - 1]
MaxPoints == Points[MaxSize]

NoResult == [slope |-> 0, intercept |-> 0, err |-> 0, err_updates |-> 0]

\* linreg_servo_create()
NewLinreg(initial_adj) ==
    [points |-> [k \in 0 .. MaxPoints - 1 |-> [x |-> 0, y |-> 0, w |-> 0]],
     reference |-> [x |-> 0, y |-> 0],
     num_points |-> 0, last_point |-> 0,
     x_remainder |-> 0, last_update |-> 0,
     results |-> [s \in Sizes |-> NoResult],
     size |-> 0,
     clock_freq |-> -initial_adj, frequency_ratio |-> One]

LinregInit(initial_adj) ==
    /\ ServoInit(initial_adj)
    /\ lr = NewLinreg(initial_adj)
    /\ defined = TRUE

\* move_reference()
MoveReference(s, x, y) ==
    LET moved(res) == [res EXCEPT !.intercept = @ + Times(x, res.slope) - y]
    IN  [s EXCEPT !.reference = [x |-> @.x + x, y |-> @.y + y],
                  !.results = [i \in Sizes |-> moved(s.results[i])]]

\* Mutant: the part of a unit that was cut off is forgotten
UpdateReferenceCutsOff(s, local_ts) ==
    LET y_interval == local_ts - s.last_update
        x_interval == TmvDiv(y_interval * NsPerSec, NsPerSec + s.clock_freq)
        moved == MoveReference(s, x_interval, y_interval)
    IN  [(IF s.last_update # 0 THEN moved ELSE s) EXCEPT !.last_update = local_ts]

\* update_reference()
UpdateReference(s, local_ts) ==
    LET y_interval == local_ts - s.last_update
        x_interval == TmvDiv(y_interval * NsPerSec * One, NsPerSec + s.clock_freq)
                          + s.x_remainder
        whole == TmvDiv(x_interval, One)
        moved == MoveReference([s EXCEPT !.x_remainder = x_interval - One * whole],
                               whole, y_interval)
    IN  [(IF s.last_update # 0 THEN moved ELSE s) EXCEPT !.last_update = local_ts]

\* add_sample()
AddSample(s, offset, weight) ==
    LET slot == (s.last_point + 1) % MaxPoints
    IN  [s EXCEPT !.last_point = slot,
                  !.points[slot] = [x |-> s.reference.x,
                                    y |-> s.reference.y - offset,
                                    w |-> weight],
                  !.num_points = IF @ < MaxPoints THEN @ + 1 ELSE @]

\* Mutant: the ring is read forward
NewestForward(s, size) ==
    [a \in 1 .. Points[size] |->
        LET p == s.points[(s.last_point + (a - 1)) % MaxPoints]
        IN  [p EXCEPT !.x = @ - s.reference.x, !.y = @ - s.reference.y]]

\* The newest points, newest first, as seen from the reference
Newest(s, size) ==
    [a \in 1 .. Points[size] |->
        LET p == s.points[(MaxPoints + s.last_point - (a - 1)) % MaxPoints]
        IN  [p EXCEPT !.x = @ - s.reference.x, !.y = @ - s.reference.y]]

Enough(s, size) == Points[size] <= s.num_points

\* The moving average of the prediction errors, with one more of them
Averaged(res, e) ==
    IF res.slope = 0 THEN res
    ELSE IF res.err_updates < InitialUpdates
    THEN [res EXCEPT !.err = TmvDiv(@ * res.err_updates + e, res.err_updates + 1),
                     !.err_updates = @ + 1]
    ELSE [res EXCEPT !.err = @ + TmvDiv(e - @, Smoothing)]

\* regress()
Regress(s) ==
    LET y0 == Newest(s, 0)[1].y
        again(size) ==
            LET line == Line(Newest(s, size))
                res  == s.results[size]
            IN  [Averaged(res, AbsVal(res.intercept - y0)) EXCEPT
                    !.slope = line.slope, !.intercept = line.intercept]
    IN  [s EXCEPT !.results = [size \in Sizes |->
            IF Enough(s, size) THEN again(size) ELSE s.results[size]]]

\* 0/0 in regress()
Undefined(s) ==
    \E size \in Sizes : Enough(s, size) /\ Spread(Newest(s, size)) = 0

\* update_size(): ERR_EQUALS is 1.05
UpdateSize(s) ==
    LET best[size \in MinSize - 1 .. MaxSize] ==
            IF size < MinSize THEN [size |-> 0, err |-> 0]
            ELSE LET res == s.results[size]
                     b   == best[size - 1]
                 IN  IF \/ b.size = 0 /\ res.slope # 0
                        \/ /\ b.err * 21 > res.err * 20
                           /\ res.err_updates >= InitialUpdates
                     THEN [size |-> size, err |-> res.err]
                     ELSE b
    IN  [s EXCEPT !.size = best[MaxSize].size]

\* Mutant: only the upper bound is enforced
ClampFreqAbove(freq) == IF freq > MaxFrequency THEN MaxFrequency ELSE freq

ClampFreq(freq) ==
    IF freq > MaxFrequency THEN MaxFrequency
    ELSE IF freq < -MaxFrequency THEN -MaxFrequency ELSE freq

\* The frequency, from the line of the size that was selected
SetClockFreq(s) ==
    LET res  == s.results[s.size]
        corr == IF s.size <= 4 THEN 1 ELSE s.size \div 2
        freq == ClampFreq(TmvDiv(NsPerSec * (res.slope - One), One)
                          + TmvDiv(res.intercept, UpdateInterval * corr))
    IN  [s EXCEPT !.clock_freq = freq,
                  !.frequency_ratio = TmvDiv(res.slope * NsPerSec, NsPerSec + freq)]

\* Mutant: last_update stays in the time scale of before the step
SteppedKeepsUpdate(s, offset) == MoveReference(s, 0, -offset)

\* The step main() is about to make
Stepped(s, offset) ==
    [MoveReference(s, 0, -offset) EXCEPT !.last_update = @ - offset]

WaitForMore(offset, next) ==
    /\ next.size = 0
    /\ lr' = next
    /\ Conclude("UNLOCKED", offset)

Jump(offset, next) ==
    /\ next.size # 0
    /\ MustStep(AbsVal(next.results[next.size].intercept))
    /\ lr' = SetClockFreq(Stepped(next, offset))
    /\ Conclude("JUMP", offset)

Lock(offset, next) ==
    /\ next.size # 0
    /\ ~MustStep(AbsVal(next.results[next.size].intercept))
    /\ lr' = SetClockFreq(next)
    /\ Conclude("LOCKED", offset)

\* servo_sample()
LinregSample(offset, local_ts, weight) ==
    LET added == AddSample(UpdateReference(lr, local_ts), offset, weight)
        next  == UpdateSize(Regress(added))
    IN  /\ defined
        /\ ~Undefined(added)
        /\ WaitForMore(offset, next) \/ Jump(offset, next) \/ Lock(offset, next)
        /\ adj' = -lr'.clock_freq
        /\ UNCHANGED defined

\* ... with a regression that divides by zero
DivideByZero(offset, local_ts, weight) ==
    LET added == AddSample(UpdateReference(lr, local_ts), offset, weight)
    IN  /\ defined
        /\ Undefined(added)
        /\ lr' = added
        /\ defined' = FALSE
        /\ UNCHANGED servoVars

\* Mutant: the slopes survive
ResetKeepsSlopes ==
    /\ lr' = [lr EXCEPT !.num_points = 0, !.last_update = 0, !.size = 0,
                        !.frequency_ratio = One]
    /\ UNCHANGED <<servoVars, defined>>

\* linreg_reset(): what it does not name it keeps
LinregReset ==
    /\ lr' = [lr EXCEPT !.num_points = 0, !.last_update = 0, !.size = 0,
                        !.frequency_ratio = One,
                        !.results = [s \in Sizes |->
                            [@[s] EXCEPT !.slope = 0, !.err_updates = 0]]]
    /\ UNCHANGED <<servoVars, defined>>
=============================================================================
