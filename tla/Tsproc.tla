------------------------------- MODULE Tsproc -------------------------------
(***************************************************************************)
(* Time stamp processing (tsproc.c): the operations on a struct tsproc,    *)
(* each as a function of the record it is called with.  t1 and t4 are      *)
(* times of the master, t2 and t3 of the local clock; 0 means that the     *)
(* time stamp is missing.  The delay filter is the window of its latest    *)
(* samples (FilterWindow) and its estimate of them.                        *)
(***************************************************************************)
EXTENDS FixedPoint, Window

CONSTANTS
    FilterLength,
    FilterValue(_)      \* the filter's estimate for a window of samples

ASSUME TsprocAssumption == FilterLength \in Nat \ {0}

TsprocModes == {"FILTER", "RAW", "FILTER_WEIGHT", "RAW_WEIGHT"}

\* tsproc_create()
NewTsproc(mode) ==
    [mode |-> mode, t1 |-> 0, t2 |-> 0, t3 |-> 0, t4 |-> 0,
     clock_rate_ratio |-> One, window |-> <<>>,
     filtered_delay |-> 0, filtered_delay_valid |-> FALSE]

\* tsproc_down_ts(), tsproc_up_ts()
DownTs(tsp, remote_ts, local_ts) == [tsp EXCEPT !.t1 = remote_ts, !.t2 = local_ts]
UpTs(tsp, local_ts, remote_ts)   == [tsp EXCEPT !.t3 = local_ts, !.t4 = remote_ts]

\* tsproc_set_clock_rate_ratio(), tsproc_set_delay()
SetRateRatio(tsp, ratio) == [tsp EXCEPT !.clock_rate_ratio = ratio]
SetDelay(tsp, delay) ==
    [tsp EXCEPT !.filtered_delay = delay, !.filtered_delay_valid = TRUE]

\* get_raw_delay(): ((t2 - t3) * rr + (t4 - t1)) / 2
RawDelay(tsp) ==
    LET local == tsp.t2 - tsp.t3
        t23   == IF tsp.clock_rate_ratio = One THEN local
                 ELSE Times(local, tsp.clock_rate_ratio)
    IN  TmvDiv(t23 + (tsp.t4 - tsp.t1), 2)

\* Mutant: the window grows without end
UpdateDelayUnbounded(tsp) ==
    LET window == Append(tsp.window, RawDelay(tsp))
    IN  IF tsp.t2 = 0 \/ tsp.t3 = 0 THEN tsp
        ELSE [tsp EXCEPT !.window = window,
                         !.filtered_delay = FilterValue(window),
                         !.filtered_delay_valid = TRUE]

\* tsproc_update_delay(); without t2 or t3 it changes nothing
UpdateDelay(tsp) ==
    LET window == Pushed(tsp.window, RawDelay(tsp), FilterLength)
    IN  IF tsp.t2 = 0 \/ tsp.t3 = 0 THEN tsp
        ELSE [tsp EXCEPT !.window = window,
                         !.filtered_delay = FilterValue(window),
                         !.filtered_delay_valid = TRUE]

\* tsproc_update_offset() returns 0: the mode has all it needs
OffsetReady(tsp) ==
    /\ tsp.t1 # 0 /\ tsp.t2 # 0
    /\ tsp.mode \in {"FILTER", "FILTER_WEIGHT"} => tsp.filtered_delay_valid
    /\ tsp.mode # "FILTER" => tsp.t3 # 0

\* The offset it then returns, t2 - t1 - delay
MasterOffset(tsp) ==
    tsp.t2 - tsp.t1 - IF tsp.mode \in {"FILTER", "FILTER_WEIGHT"}
                      THEN tsp.filtered_delay ELSE RawDelay(tsp)

\* The weight is the filtered over the raw delay, at most 1.0
Weighted(tsp) ==
    /\ tsp.mode \in {"FILTER_WEIGHT", "RAW_WEIGHT"}
    /\ tsp.filtered_delay > 0 /\ RawDelay(tsp) > 0

\* Mutant: a delay below the filtered one weighs more than 1.0
OffsetWeightUncapped(tsp) ==
    IF Weighted(tsp) THEN (tsp.filtered_delay * One) \div RawDelay(tsp)
    ELSE One

OffsetWeight(tsp) ==
    IF Weighted(tsp) /\ tsp.filtered_delay < RawDelay(tsp)
    THEN (tsp.filtered_delay * One) \div RawDelay(tsp)
    ELSE One

\* Mutant: the last delay exchange survives the step
ResetKeepsUp(tsp, full) ==
    LET stampless == [tsp EXCEPT !.t1 = 0, !.t2 = 0]
    IN  IF full
        THEN [stampless EXCEPT !.clock_rate_ratio = One, !.window = <<>>,
                               !.filtered_delay_valid = FALSE]
        ELSE stampless

\* Mutant: the filtered delay stays valid when the remote clock changes
ResetKeepsValid(tsp, full) ==
    LET stampless == [tsp EXCEPT !.t1 = 0, !.t2 = 0, !.t3 = 0, !.t4 = 0]
    IN  IF full
        THEN [stampless EXCEPT !.clock_rate_ratio = One, !.window = <<>>]
        ELSE stampless

\* tsproc_reset(): full when the remote clock changed, not full after a step
ResetTsproc(tsp, full) ==
    LET stampless == [tsp EXCEPT !.t1 = 0, !.t2 = 0, !.t3 = 0, !.t4 = 0]
    IN  IF full
        THEN [stampless EXCEPT !.clock_rate_ratio = One, !.window = <<>>,
                               !.filtered_delay_valid = FALSE]
        ELSE stampless

TsprocRecord ==
    [mode : TsprocModes, t1 : Int, t2 : Int, t3 : Int, t4 : Int,
     clock_rate_ratio : Nat, window : Seq(Int),
     filtered_delay : Int, filtered_delay_valid : BOOLEAN]
=============================================================================
