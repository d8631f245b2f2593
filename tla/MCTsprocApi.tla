---------------------------- MODULE MCTsprocApi -----------------------------
(* TsprocApi on three times of either clock and a window of two delays. *)
EXTENDS TsprocApi, FilterEstimates

MCModes == TsprocModes
MCRawWeight == {"RAW_WEIGHT"}
MCMasterTimes == {1, 4}
MCLocalTimes == {1, 3}
MCDelays == {-1, 2}
MCRatios == {2, 3}
MCFilterValue(w) == Median(1024, w)
=============================================================================
