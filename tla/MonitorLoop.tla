------------------------------ MODULE MonitorLoop ------------------------------
(***************************************************************************)
(* The loop closed: ptp4l's event monitor stamps sync messages and delay   *)
(* exchanges with the clock that main() steps, and its datagrams wait in   *)
(* the socket until main() reads them.  A step thus overtakes datagrams    *)
(* that were stamped before it.                                            *)
(*                                                                         *)
(* Over the few seconds looked at only steps move the local clock against  *)
(* the master: what a frequency of some ppb adds is left out.              *)
(***************************************************************************)
EXTENDS ExtServo, FiniteSets

CONSTANTS
    Path,         \* delay of the path, the same in both directions
    StartErrors,  \* local clock minus master at start-up
    Start,        \* time of the master at start-up
    Horizon,      \* bound: time of the master up to which messages are sent
    Waiting,      \* bound: datagrams that may wait in the socket
    MaxRequests   \* bound: delay requests that may be on their way

ASSUME MonitorLoopAssumption ==
    /\ Path \in Nat /\ StartErrors \subseteq Int
    /\ {Start, Horizon, Waiting, MaxRequests} \subseteq Nat

VARIABLES
    now,       \* time of the master
    err,       \* local clock minus master
    queue,     \* datagrams in the socket, and how many steps came before each
    requests,  \* delay requests on their way
    steps,     \* how often the clock was stepped
    stored,    \* history: the steps before the time stamps in tsp
    matched,   \* history: for each delay in the filter, whether no step came
               \* between the stamps it was computed from
    overtaken  \* history: what steps have overtaken

loopVars == <<now, err, queue, requests, steps, stored, matched, overtaken>>
allVars == <<vars, loopVars>>

LoopInit ==
    /\ Init
    /\ now = Start
    /\ err \in StartErrors
    /\ queue = <<>> /\ requests = {}
    /\ steps = 0
    /\ stored = [down |-> 0, up |-> 0] /\ matched = <<>>
    /\ overtaken = {}

Waits(datagram, epoch) ==
    /\ Len(queue) < Waiting
    /\ queue' = Append(queue, [datagram |-> datagram, epoch |-> epoch])

\* A sync reaches the local clock, and its time stamps the socket
SyncArrives ==
    /\ now < Horizon
    /\ now' = now + 1
    /\ Waits([kind |-> "sync", master |-> now, slave |-> now + Path + err], steps)
    /\ UNCHANGED <<vars, err, requests, steps, stored, matched, overtaken>>

\* A delay request is sent ...
RequestSent ==
    /\ now < Horizon
    /\ Cardinality(requests) < MaxRequests
    /\ requests' = requests
           \union {[sent |-> now, t3 |-> now + err, epoch |-> steps]}
    /\ UNCHANGED <<vars, now, err, queue, steps, stored, matched, overtaken>>

\* ... and answered
ResponseArrives ==
    \E r \in requests :
        /\ Waits([kind |-> "delay", master |-> r.sent + Path, slave |-> r.t3],
                 r.epoch)
        /\ requests' = requests \ {r}
        /\ UNCHANGED <<vars, now, err, steps, stored, matched, overtaken>>

\* History: main() has read a sync, or the stamps of a delay exchange
ReadSync(epoch) ==
    /\ stored' = [stored EXCEPT !.down = epoch]
    /\ UNCHANGED matched

ReadDelay(epoch) ==
    /\ stored' = [stored EXCEPT !.up = epoch]
    /\ matched' = IF tsp'.t2 = 0 \/ tsp'.t3 = 0 THEN matched
                  ELSE Pushed(matched, epoch = stored.down, FilterLength)

\* History: a step overtakes what is in the socket or on its way
Overtakes ==
    overtaken' = overtaken
        \union {Tail(queue)[i].datagram.kind : i \in DOMAIN Tail(queue)}
        \union {"delay" : r \in requests}

\* main() reads a datagram; if it steps the clock, the error changes
Iteration ==
    LET head == Head(queue)
    IN  /\ queue # <<>>
        /\ Receive(head.datagram)
        /\ queue' = Tail(queue)
        /\ err' = err + hw_step'
        /\ \/ hw_step' = 0 /\ UNCHANGED <<steps, overtaken>>
           \/ hw_step' # 0 /\ steps' = steps + 1 /\ Overtakes
        /\ \/ head.datagram.kind = "sync" /\ ReadSync(head.epoch)
           \/ head.datagram.kind = "delay" /\ ReadDelay(head.epoch)
        /\ UNCHANGED <<now, requests>>

LoopNext == SyncArrives \/ RequestSent \/ ResponseArrives \/ Iteration

LoopSpec == LoopInit /\ [][LoopNext]_allVars
-----------------------------------------------------------------------------
\* The offset computed from these stamps and delays knows of all steps so far
FilterMode == tsp.mode \in {"FILTER", "FILTER_WEIGHT"}

Consistent(stamps, delays) ==
    /\ stamps.down = steps
    /\ IF FilterMode THEN \A i \in DOMAIN delays : delays[i]
       ELSE stamps.up = steps

(***************************************************************************)
(* A step that is computed from stamps of one time scale lands on the      *)
(* master: offset, delay, the verdict of the servo and the sign of the     *)
(* step fit together.                                                      *)
(***************************************************************************)
StepLandsOnMaster ==
    [][hw_step' # 0 /\ Consistent(stored', matched') => err' = 0]_allVars

(***************************************************************************)
(* The clock is stepped once, unless the step overtook a delay exchange    *)
(* or, in the modes that filter the delay, any datagram: the others get    *)
(* along with stale syncs, because a new exchange is read after them.      *)
(***************************************************************************)
OneStepSuffices ==
    steps > 1 => "delay" \in overtaken \/ (FilterMode /\ overtaken # {})
=============================================================================
