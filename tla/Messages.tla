------------------------------ MODULE Messages ------------------------------
(***************************************************************************)
(* What the main loop knows of a datagram: its kind and, if it carries a   *)
(* record, the time stamps of the record; and what process_message()       *)
(* leaves behind.  Msg refines it down to the bytes.                       *)
(***************************************************************************)
EXTENDS Integers

VARIABLES
    data,            \* the receive buffer
    msg_type, master_time, slave_time  \* locals of main()

msgVars == <<data, msg_type, master_time, slave_time>>

Kinds == {"sync", "delay", "other_tlv", "not_signaling"}

Datagram == [kind : Kinds, master : Int, slave : Nat]

\* process_message(): a message that is not a signaling message stores
\* nothing, an unknown TLV its type only
ProcessMessage(d) ==
    LET record == d.kind \in {"sync", "delay"}
    IN  /\ msg_type' = IF d.kind = "not_signaling" THEN msg_type ELSE d.kind
        /\ master_time' = IF record THEN d.master ELSE master_time
        /\ slave_time' = IF record THEN d.slave ELSE slave_time
=============================================================================
