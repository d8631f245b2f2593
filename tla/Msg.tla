--------------------------------- MODULE Msg ---------------------------------
(***************************************************************************)
(* msg.c down to the bytes: ptp4l (external) puts the time stamps of a     *)
(* record into big-endian fields, process_message() takes them out.        *)
(*                                                                         *)
(* A byte has Byte values, 256 in the code; 16 bits are two bytes, 32 four *)
(* and 64 eight.  A time stamp on the wire counts seconds in two parts and *)
(* nanoseconds, a correction 2^-16 ns.                                     *)
(***************************************************************************)
EXTENDS Integers, Sequences

CONSTANTS
    Byte,         \* values of a byte, a power of 2
    NsPerSec,     \* 1000000000
    Sendable      \* messages ptp4l may send, with the record in them if any:
                  \* times are seconds and nanoseconds, corrections 1/Uint16 ns

Uint16 == Byte * Byte
Uint32 == Uint16 * Uint16
Uint48 == Uint16 * Uint32
Uint64 == Uint16 * Uint48

\* Byte is even, as a power of 2; a time stamp and a correction fit an int64_t
ASSUME MsgAssumption ==
    /\ Byte \in Nat \ {0} /\ Byte % 2 = 0
    /\ NsPerSec \in 1 .. Uint32 \div 2 - 1
    /\ NsPerSec * Uint32 + Uint48 \div 2 <= Uint64 \div 2
    /\ \A m \in Sendable :
           /\ m.kind \in {"sync", "delay", "other_tlv", "not_signaling"}
           /\ \A time \in {m.master, m.slave} :
                  time.sec \in 0 .. Uint48 - 1 /\ time.ns \in 0 .. NsPerSec - 1
           /\ m.correction \in -(Uint64 \div 2) .. Uint64 \div 2 - 1

VARIABLES
    wire,         \* the receive buffer: kind of message, fields of the record
    msg_type, master_time, slave_time,  \* locals of main()
    sent          \* history: what ptp4l has put into the buffer

vars == <<wire, msg_type, master_time, slave_time, sent>>

\* ptp4l writes 2, 4 or 8 bytes of a number
Htons(number) == <<(number \div Byte) % Byte, number % Byte>>
Htonl(number) == Htons(number \div Uint16) \o Htons(number)
Hton64(number) == Htonl(number \div Uint32) \o Htonl(number)

Stamp(time) ==
    [seconds_msb |-> Htons(time.sec \div Uint32),
     seconds_lsb |-> Htonl(time.sec),
     nanoseconds |-> Htonl(time.ns)]

Wire(m) ==
    [kind |-> m.kind, master |-> Stamp(m.master), slave |-> Stamp(m.slave),
     totalCorrectionField |-> Hton64(m.correction)]
-----------------------------------------------------------------------------
\* ntohs(), ntohl() and ntoh64()
Ntohs(bytes) == bytes[1] * Byte + bytes[2]
Ntohl(bytes) == Ntohs(SubSeq(bytes, 1, 2)) * Uint16 + Ntohs(SubSeq(bytes, 3, 4))
Ntoh64(bytes) == Ntohl(SubSeq(bytes, 1, 4)) * Uint32 + Ntohl(SubSeq(bytes, 5, 8))

\* a | b of two numbers of 32 bits
Or[a \in 0 .. Uint32 - 1] ==
    [b \in 0 .. Uint32 - 1 |->
        IF a = 0 \/ b = 0 THEN a + b
        ELSE 2 * Or[a \div 2][b \div 2] + (IF a % 2 = 0 /\ b % 2 = 0 THEN 0 ELSE 1)]

\* The bits of a uint64_t as an int64_t
Signed(bits) == IF bits < Uint64 \div 2 THEN bits ELSE bits - Uint64

\* timestamp_ntohns(): both parts of the seconds are 32 bits wide when they are
\* put together, and the upper one is shifted by 16
TimestampNtohns(ts) ==
    LET seconds == Or[Ntohl(ts.seconds_lsb)][Ntohs(ts.seconds_msb) * Uint16] % Uint32
    IN  (seconds * NsPerSec + Ntohl(ts.nanoseconds)) % Uint64

\* Mutant: a negative correction loses its sign
CorrectionUnsigned(record) == Ntoh64(record.totalCorrectionField) \div Uint16

\* corr >> 16, which rounds down
Correction(record) == Signed(Ntoh64(record.totalCorrectionField)) \div Uint16

\* process_rx_sync_msg()
ProcessRxSyncMsg(record) ==
    /\ master_time' = Signed(TimestampNtohns(record.master)) + Correction(record)
    /\ slave_time' = Signed(TimestampNtohns(record.slave))

\* Mutant: the correction is added as in a sync
ProcessDelayTimingMsgAdds(record) ==
    /\ slave_time' = Signed(TimestampNtohns(record.slave))
    /\ master_time' = Signed(TimestampNtohns(record.master)) + Correction(record)

\* process_delay_timing_msg()
ProcessDelayTimingMsg(record) ==
    /\ slave_time' = Signed(TimestampNtohns(record.slave))
    /\ master_time' = Signed(TimestampNtohns(record.master)) - Correction(record)

\* process_message()
ProcessMessage ==
    \/ /\ wire'.kind = "sync"
       /\ msg_type' = "sync" /\ ProcessRxSyncMsg(wire')
    \/ /\ wire'.kind = "delay"
       /\ msg_type' = "delay" /\ ProcessDelayTimingMsg(wire')
    \/ /\ wire'.kind = "other_tlv"
       /\ msg_type' = "other_tlv" /\ UNCHANGED <<master_time, slave_time>>
    \/ /\ wire'.kind = "not_signaling"
       /\ UNCHANGED <<msg_type, master_time, slave_time>>

\* A datagram arrives and is decoded
Receive ==
    \E m \in Sendable :
        /\ sent' = m /\ wire' = Wire(m)
        /\ ProcessMessage

Init ==
    /\ \E m \in Sendable :
           m.kind = "not_signaling" /\ sent = m /\ wire = Wire(m)
    /\ msg_type = "other_tlv" /\ master_time = 0 /\ slave_time = 0

Spec == Init /\ [][Receive]_vars
-----------------------------------------------------------------------------
(* The domain of the state: times are an int64_t, their sums do not        *)
(* overflow.                                                               *)
TypeOK ==
    /\ msg_type \in {"sync", "delay", "other_tlv"}
    /\ {master_time, slave_time} \subseteq -(Uint64 \div 2) .. Uint64 \div 2 - 1
    /\ sent \in Sendable /\ wire = Wire(sent)

\* What ptp4l measured, the master's time in 1/Uint16 ns
Ns(time) == time.sec * NsPerSec + time.ns

ExactMasterTime(m) ==
    Ns(m.master) * Uint16 + IF m.kind = "delay" THEN -m.correction ELSE m.correction

(***************************************************************************)
(* The main loop gets the times that ptp4l measured, the master's to the   *)
(* nanosecond: what comes out of the bytes is a step of Messages, on which *)
(* ExtServo is built.  It ends with the last second that seconds_lsb can   *)
(* count (2106): seconds_msb is shifted to the wrong place.                *)
(***************************************************************************)
InEra(m) == {m.master.sec, m.slave.sec} \subseteq 0 .. Uint32 - 1

Rounded(m) ==
    [kind |-> m.kind, slave |-> Ns(m.slave),
     master |-> IF m.kind = "delay" THEN -((-ExactMasterTime(m)) \div Uint16)
                ELSE ExactMasterTime(m) \div Uint16]

Decoded == INSTANCE Messages WITH data <- Rounded(sent)

GivesWhatWasMeasured ==
    [][InEra(sent') => Decoded!ProcessMessage(Rounded(sent'))]_vars
=============================================================================
