------------------------------- MODULE MCMsg -------------------------------
(* Msg with bytes of two bits: times on both sides of a full seconds_lsb,  *)
(* corrections that are negative, fractional and more than a nanosecond.   *)
EXTENDS Msg

Time(sec, ns) == [sec |-> sec, ns |-> ns]

MCSendable ==
    [kind : {"sync", "delay"},
     master : {Time(0, 119), Time(18, 0), Time(255, 119), Time(256, 1)},
     slave : {Time(0, 1), Time(255, 118)},
     correction : {-40, -1, 0, 15, 33, 32767}]
    \union
    [kind : {"other_tlv", "not_signaling"},
     master : {Time(18, 0)}, slave : {Time(0, 1)}, correction : {33}]
=============================================================================
