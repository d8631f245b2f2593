---------------------------- MODULE MCMonitorLoop ----------------------------
(* MonitorLoop with a socket of a few datagrams. *)
EXTENDS MonitorLoop, FilterEstimates

MCJunk == {[kind |-> "other_tlv", master |-> 0, slave |-> 0]}
MCStartFreqs == {0}
MCStartErrors == {-6, 8}
MCFilterValue(w) == Median(1024, w)
=============================================================================
