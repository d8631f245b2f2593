-------------------------------- MODULE NtpShm --------------------------------
(***************************************************************************)
(* The NTP SHM servo (ntpshm.c): ntpshm_sample() stores a pair of time     *)
(* stamps in a shared memory segment, and ntpd reads them there, by the    *)
(* protocol that the comments on struct shmTime give.  Neither locks, and  *)
(* there is no memory barrier ("TODO: write memory barrier").              *)
(*                                                                         *)
(* A time stamp is the number of the sample it comes from, and 0 if it was *)
(* never written; the second, microsecond and nanosecond fields of a stamp *)
(* are one store.  leap, precision and nsamples, which the reader uses     *)
(* like the stamps, are left out.                                          *)
(***************************************************************************)
EXTENDS Integers

CONSTANTS
    MaxSamples,      \* bound on the samples taken
    Reordering       \* stores may become visible out of program order

ASSUME NtpShmAssumption ==
    MaxSamples \in Nat /\ Reordering \in BOOLEAN

VARIABLES
    shm,       \* the segment
    sampled,   \* number of calls of ntpshm_sample()
    todo,      \* the stores of the last call that are not yet visible
    crashed,   \* history: the servo was killed within a call
    pc,        \* where the reader is
    mode,      \* the mode and
    before,    \* the count it found before it read
    seen,      \* the time stamps it has read
    used       \* history: the time stamps it used last, and its counts

writerVars == <<sampled, todo, crashed>>
readerVars == <<pc, mode, before, seen>>
vars == <<shm, writerVars, readerVars, used>>

NoStamps == [clock |-> 0, receive |-> 0]

\* shmget() has made a new segment
Init ==
    /\ shm = [mode |-> 0, count |-> 0, valid |-> 0, clock |-> 0, receive |-> 0]
    /\ sampled = 0 /\ todo = {} /\ crashed = FALSE
    /\ pc = "idle" /\ mode = 0 /\ before = 0
    /\ seen = NoStamps
    /\ used = [stamps |-> NoStamps, mode |-> 1, count |-> 0, any |-> FALSE]

Stores == 1 .. 7

\* Mutant: both increments come after the time stamps
ProgramCountsLate ==
    <<"mode", "clear_valid", "clock", "receive", "count", "count", "set_valid">>

\* Mutant: the flag is set before the time stamps are there
ProgramValidFirst ==
    <<"mode", "count", "set_valid", "clock", "receive", "count", "set_valid">>

\* The stores of ntpshm_sample(), in program order
Program ==
    <<"mode", "count", "clear_valid", "clock", "receive", "count", "set_valid">>

\* Mutant: the count is incremented by two each time
EffectCountsTwice(store) ==
    CASE store = "mode"        -> [shm EXCEPT !.mode = 1]
      [] store = "count"       -> [shm EXCEPT !.count = shm.count + 2]
      [] store = "clear_valid" -> [shm EXCEPT !.valid = 0]
      [] store = "clock"       -> [shm EXCEPT !.clock = sampled]
      [] store = "receive"     -> [shm EXCEPT !.receive = sampled]
      [] store = "set_valid"   -> [shm EXCEPT !.valid = 1]

Effect(store) ==
    CASE store = "mode"        -> [shm EXCEPT !.mode = 1]
      [] store = "count"       -> [shm EXCEPT !.count = shm.count + 1]
      [] store = "clear_valid" -> [shm EXCEPT !.valid = 0]
      [] store = "clock"       -> [shm EXCEPT !.clock = sampled]
      [] store = "receive"     -> [shm EXCEPT !.receive = sampled]
      [] store = "set_valid"   -> [shm EXCEPT !.valid = 1]

\* count and valid are volatile: their accesses keep their order
Volatile == {"count", "clear_valid", "set_valid"}

MustPrecede(i, j) == Reordering => {Program[i], Program[j]} \subseteq Volatile

\* main() calls ntpshm_sample().  There is a poll() between two calls, by
\* then the stores of the one before are visible.
Sample ==
    /\ todo = {}
    /\ sampled < MaxSamples
    /\ sampled' = sampled + 1
    /\ todo' = Stores
    /\ UNCHANGED <<shm, crashed, readerVars, used>>

\* One of the stores becomes visible
Store(i) ==
    /\ i \in todo
    /\ \A j \in todo : j < i => ~MustPrecede(j, i)
    /\ shm' = Effect(Program[i])
    /\ todo' = todo \ {i}
    /\ UNCHANGED <<sampled, crashed, readerVars, used>>

\* The servo is killed; the segment outlives it
Crash ==
    /\ todo # {}
    /\ todo' = {} /\ crashed' = TRUE
    /\ UNCHANGED <<shm, sampled, readerVars, used>>
-----------------------------------------------------------------------------
\* The reader polls the valid flag ...
ReadValid ==
    /\ pc = "idle" /\ shm.valid = 1
    /\ pc' = "mode"
    /\ UNCHANGED <<shm, writerVars, mode, before, seen, used>>

ReadMode ==
    /\ pc = "mode"
    /\ mode' = shm.mode
    /\ pc' = "before"
    /\ UNCHANGED <<shm, writerVars, before, seen, used>>

ReadCount ==
    /\ pc = "before"
    /\ before' = shm.count
    /\ pc' = "clock"
    /\ UNCHANGED <<shm, writerVars, mode, seen, used>>

ReadClock ==
    /\ pc = "clock"
    /\ seen' = [seen EXCEPT !.clock = shm.clock]
    /\ pc' = "receive"
    /\ UNCHANGED <<shm, writerVars, mode, before, used>>

ReadReceive ==
    /\ pc = "receive"
    /\ seen' = [seen EXCEPT !.receive = shm.receive]
    /\ pc' = "after"
    /\ UNCHANGED <<shm, writerVars, mode, before, used>>

\* ... uses the values, in mode 1 only if the count is what it was, ...
Use ==
    /\ pc = "after"
    /\ used' = IF mode = 1 /\ shm.count # before THEN used
               ELSE [stamps |-> seen, mode |-> mode, count |-> before,
                     any |-> TRUE]
    /\ pc' = "clear"
    /\ UNCHANGED <<shm, writerVars, mode, before, seen>>

\* ... and clears the flag
ClearValid ==
    /\ pc = "clear"
    /\ shm' = [shm EXCEPT !.valid = 0]
    /\ pc' = "idle"
    /\ UNCHANGED <<writerVars, mode, before, seen, used>>

Reader ==
    \/ ReadValid \/ ReadMode \/ ReadCount \/ ReadClock \/ ReadReceive
    \/ Use \/ ClearValid

Next == Sample \/ (\E i \in Stores : Store(i)) \/ Crash \/ Reader

Spec == Init /\ [][Next]_vars
-----------------------------------------------------------------------------
(* The domain of the state; the count is at most twice the samples. *)
Stamps == [clock : 0 .. sampled, receive : 0 .. sampled]

TypeOK ==
    /\ sampled \in 0 .. MaxSamples
    /\ todo \subseteq Stores /\ crashed \in BOOLEAN
    /\ shm \in [mode : {0, 1}, count : 0 .. 2 * sampled, valid : {0, 1},
                clock : 0 .. sampled, receive : 0 .. sampled]
    /\ pc \in {"idle", "mode", "before", "clock", "receive", "after", "clear"}
    /\ mode \in {0, 1} /\ before \in 0 .. 2 * sampled
    /\ seen \in Stamps
    /\ used \in [stamps : Stamps, mode : {0, 1}, count : 0 .. 2 * sampled,
                 any : BOOLEAN]

Whole(stamps) == stamps.clock = stamps.receive

(***************************************************************************)
(* "if count before and after read of values is equal, use values"         *)
(* (ntpshm.c:35): the values are then those of one sample, at least if the *)
(* servo was never killed.                                                 *)
(***************************************************************************)
WholeWhenCountsEqual == ~crashed /\ used.mode = 1 => Whole(used.stamps)

(***************************************************************************)
(* What the stores of ntpshm_sample(), seen in program order, do promise:  *)
(* values read under equal even counts are those of one sample, and those  *)
(* read under equal odd counts mix two consecutive samples at worst, until *)
(* the servo is killed within a call and the counts change their parity.   *)
(***************************************************************************)
EvenCountMeansWhole ==
    ~crashed =>
        /\ used.count % 2 = 0 => Whole(used.stamps)
        /\ used.stamps.clock - used.stamps.receive \in -1 .. 1

(***************************************************************************)
(* "if valid set use values" (ntpshm.c:31): the reader never uses a stamp  *)
(* that was not yet written, nor one without the protection of the count,  *)
(* also if the servo is killed between any two stores and started again.   *)
(***************************************************************************)
UsesWrittenStamps ==
    used.any => used.mode = 1 /\ used.stamps.clock # 0 /\ used.stamps.receive # 0
=============================================================================
