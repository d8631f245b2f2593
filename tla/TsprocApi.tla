----------------------------- MODULE TsprocApi ------------------------------
(***************************************************************************)
(* A struct tsproc under any sequence of calls of its interface.  Three    *)
(* history variables say which of the stored data are still good: which    *)
(* were stored since the local clock was stepped (tsproc_reset(tsp, 0)),   *)
(* and which since the remote clock changed (tsproc_reset(tsp, 1)).        *)
(***************************************************************************)
EXTENDS Tsproc

CONSTANTS
    Modes,          \* the modes to look at
    MasterTimes,    \* the times t1 and t4
    LocalTimes,     \* the times t2 and t3
    Delays,         \* the delays given to tsproc_set_delay()
    Ratios          \* the rate ratios

ASSUME ApiAssumption ==
    /\ Modes \subseteq TsprocModes
    /\ MasterTimes \subseteq Nat \ {0} /\ LocalTimes \subseteq Nat \ {0}
    /\ Delays \subseteq Int /\ Ratios \subseteq Nat

VARIABLES
    tsp,
    since_step,     \* history: time stamps stored since the last reset
    since_change    \* history: data stored since the last full reset

vars == <<tsp, since_step, since_change>>

Init ==
    /\ \E mode \in Modes : tsp = NewTsproc(mode)
    /\ since_step = {} /\ since_change = {}

CallDownTs(remote_ts, local_ts) ==
    /\ tsp' = DownTs(tsp, remote_ts, local_ts)
    /\ since_step' = since_step \union {"down"}
    /\ since_change' = since_change \union {"down"}

CallUpTs(local_ts, remote_ts) ==
    /\ tsp' = UpTs(tsp, local_ts, remote_ts)
    /\ since_step' = since_step \union {"up"}
    /\ since_change' = since_change \union {"up"}

CallUpdateDelay ==
    /\ tsp' = UpdateDelay(tsp)
    /\ since_change' = IF tsp.t2 # 0 /\ tsp.t3 # 0
                       THEN since_change \union {"delay"} ELSE since_change
    /\ UNCHANGED since_step

CallSetDelay(delay) ==
    /\ tsp' = SetDelay(tsp, delay)
    /\ since_change' = since_change \union {"delay"}
    /\ UNCHANGED since_step

CallSetRateRatio(ratio) ==
    /\ tsp' = SetRateRatio(tsp, ratio)
    /\ UNCHANGED <<since_step, since_change>>

CallReset(full) ==
    /\ tsp' = ResetTsproc(tsp, full)
    /\ since_step' = {}
    /\ since_change' = IF full THEN {} ELSE since_change \ {"down", "up"}

Next ==
    \/ \E m \in MasterTimes, l \in LocalTimes : CallDownTs(m, l) \/ CallUpTs(l, m)
    \/ CallUpdateDelay
    \/ \E delay \in Delays : CallSetDelay(delay)
    \/ \E ratio \in Ratios : CallSetRateRatio(ratio)
    \/ \E full \in BOOLEAN : CallReset(full)

Spec == Init /\ [][Next]_vars
-----------------------------------------------------------------------------
(* The domain of the state. *)
TypeOK ==
    /\ tsp \in TsprocRecord
    /\ Len(tsp.window) <= FilterLength
    /\ since_step \subseteq {"down", "up"}
    /\ since_change \subseteq {"down", "up", "delay"}

\* What tsproc_update_offset() computes offset and weight from
Sources ==
    {"down"}
        \union (IF tsp.mode = "FILTER" THEN {} ELSE {"up"})
        \union (IF \/ tsp.mode \in {"FILTER", "FILTER_WEIGHT"}
                   \/ Weighted(tsp)
                THEN {"delay"} ELSE {})

(***************************************************************************)
(* An offset is never computed from a time stamp that was taken before the *)
(* clock was stepped (tsproc.h: "0 to reset stored measurements (e.g.      *)
(* after clock was stepped)"): a sync alone does not bring an offset back  *)
(* in the modes that also use the last delay exchange.                     *)
(***************************************************************************)
NoStampFromBeforeStep ==
    OffsetReady(tsp) => Sources \ {"delay"} \subseteq since_step

(***************************************************************************)
(* "1 to reset everything (e.g. when remote clock changed)" (tsproc.h): no *)
(* offset and no weight is computed from data of the former remote clock.  *)
(* RAW_WEIGHT does not keep to it: it reads filtered_delay without looking *)
(* at filtered_delay_valid, the only one of the two that is cleared.       *)
(***************************************************************************)
FormerRemoteForgotten ==
    OffsetReady(tsp) /\ tsp.mode # "RAW_WEIGHT" => Sources \subseteq since_change

(***************************************************************************)
(* The weight of an offset is a fraction of 1.0 whatever the delays, also  *)
(* negative ones, were.                                                    *)
(***************************************************************************)
WeightIsFraction ==
    OffsetReady(tsp) => OffsetWeight(tsp) \in 0 .. One
=============================================================================
