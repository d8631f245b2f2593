----------------------------- MODULE MCExtServo -----------------------------
(* ExtServo on a few records of either kind. *)
EXTENDS ExtServo

Record(kind, m, s) == [kind |-> kind, master |-> m, slave |-> s]
NoRecord(kind) == Record(kind, 0, 0)

MCSyncs == {Record("sync", 1, 2), Record("sync", 3, 7), Record("sync", 6, 5)}
MCDelays == {Record("delay", 6, 5), Record("delay", 5, 4)}
MCOthers == {NoRecord("other_tlv"), NoRecord("not_signaling")}

MCDatagrams == MCSyncs \union MCDelays \union MCOthers
MCFewDatagrams ==
    {Record("sync", 1, 2), Record("sync", 6, 5), Record("delay", 6, 5),
     NoRecord("not_signaling")}
MCOneJunk == {Record("sync", 3, 7)}
MCNoJunk == {NoRecord("other_tlv")}
MCStartFreqs == {-3, 2}
MCFilterValue(w) == w[Len(w)]
=============================================================================
