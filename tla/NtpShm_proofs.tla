---------------------------- MODULE NtpShm_proofs ----------------------------
(***************************************************************************)
(* What a reader of the shared memory segment may rely on, for any number  *)
(* of samples, if the stores become visible in program order.              *)
(***************************************************************************)
EXTENDS NtpShm, TLAPS

\* Of the stores of a call the first p - 1 are visible
Phase(p) == todo = p .. 7

Ordered == todo = {} \/ \E p \in Stores : Phase(p)

Shape ==
    /\ sampled \in Nat
    /\ shm \in [mode : Nat, count : Nat, valid : Nat, clock : Nat, receive : Nat]
    /\ pc \in {"idle", "mode", "before", "clock", "receive", "after", "clear"}
    /\ mode \in Nat /\ before \in Nat
    /\ seen \in [clock : Nat, receive : Nat]
    /\ used \in [stamps : [clock : Nat, receive : Nat], mode : Nat, count : Nat,
                 any : BOOLEAN]

(* A store becomes visible when the ones before it are. *)
LEMMA StoreInOrder ==
    ASSUME ~Reordering, Ordered, NEW i \in Stores, Store(i)
    PROVE  Phase(i) /\ todo' = (i + 1) .. 7
<1>1. PICK p \in Stores : Phase(p)
  BY DEF Ordered, Store
<1>2. i \in p .. 7 /\ todo = p .. 7
  BY <1>1 DEF Phase, Store
<1>3. p \in todo
  BY <1>1 DEF Phase, Stores
<1>4. ~(p < i)
  BY <1>3 DEF Store, MustPrecede
<1>5. p = i
  BY <1>2, <1>4 DEF Stores
<1>6. todo' = (p .. 7) \ {p}
  BY <1>1, <1>5 DEF Store, Phase
<1> QED
  BY <1>1, <1>5, <1>6 DEF Stores

(* So it stays after each of the stores ... *)
LEMMA OrderedStep ==
    ASSUME ~Reordering, Ordered, [Next]_vars
    PROVE  Ordered'
<1>1. CASE Sample
  BY <1>1 DEF Sample, Ordered, Phase, Stores
<1>2. ASSUME NEW i \in Stores, Store(i)  PROVE Ordered'
  <2>1. Phase(i) /\ todo' = (i + 1) .. 7
    BY <1>2, StoreInOrder
  <2>2. CASE i = 7
    <3>1. todo' = {}
      BY <2>1, <2>2
    <3> QED
      BY <3>1 DEF Ordered
  <2>3. CASE i # 7
    <3>1. i + 1 \in Stores
      BY <2>3 DEF Stores
    <3>2. Phase(i + 1)'
      BY <2>1 DEF Phase
    <3> QED
      BY <3>1, <3>2 DEF Ordered
  <2> QED
    BY <2>2, <2>3
<1>3. CASE Crash
  BY <1>3 DEF Crash, Ordered
<1>4. CASE Reader \/ UNCHANGED vars
  <2>1. UNCHANGED todo
    BY <1>4 DEF Reader, ReadValid, ReadMode, ReadCount, ReadClock, ReadReceive,
                Use, ClearValid, writerVars, vars
  <2> QED
    BY <2>1 DEF Ordered, Phase
<1> QED
  BY <1>1, <1>2, <1>3, <1>4 DEF Next

(* What each of the seven stores does to the segment. *)
LEMMA StoreEffect ==
    ASSUME NEW i \in Stores, Store(i)
    PROVE  /\ i = 1 => shm' = [shm EXCEPT !.mode = 1]
           /\ i \in {2, 6} => shm' = [shm EXCEPT !.count = shm.count + 1]
           /\ i = 3 => shm' = [shm EXCEPT !.valid = 0]
           /\ i = 4 => shm' = [shm EXCEPT !.clock = sampled]
           /\ i = 5 => shm' = [shm EXCEPT !.receive = sampled]
           /\ i = 7 => shm' = [shm EXCEPT !.valid = 1]
  BY DEF Store, Effect, Program, Stores

(* The same, field by field. *)
LEMMA StoreFields ==
    ASSUME Shape, NEW i \in Stores, Store(i)
    PROVE  /\ shm'.mode = IF i = 1 THEN 1 ELSE shm.mode
           /\ shm'.count = IF i = 2 \/ i = 6 THEN shm.count + 1 ELSE shm.count
           /\ shm'.valid = IF i = 3 THEN 0 ELSE IF i = 7 THEN 1 ELSE shm.valid
           /\ shm'.clock = IF i = 4 THEN sampled ELSE shm.clock
           /\ shm'.receive = IF i = 5 THEN sampled ELSE shm.receive
<1> USE DEF Shape
<1>1. CASE i = 1
  BY <1>1, StoreEffect
<1>2. CASE i = 2 \/ i = 6
  BY <1>2, StoreEffect
<1>3. CASE i = 3
  BY <1>3, StoreEffect
<1>4. CASE i = 4
  BY <1>4, StoreEffect
<1>5. CASE i = 5
  BY <1>5, StoreEffect
<1>7. CASE i = 7
  BY <1>7, StoreEffect
<1> QED
  BY <1>1, <1>2, <1>3, <1>4, <1>5, <1>7 DEF Stores

(* The state keeps its shape. *)
LEMMA ShapeStep ==
    ASSUME Shape, [Next]_vars
    PROVE  Shape'
<1>1. CASE Sample
  BY <1>1 DEF Sample, Shape, readerVars
<1>2. ASSUME NEW i \in Stores, Store(i)  PROVE Shape'
  <2>1. UNCHANGED <<sampled, readerVars, used>>
    BY <1>2 DEF Store
  <2>2. shm' \in [mode : Nat, count : Nat, valid : Nat, clock : Nat, receive : Nat]
    BY <1>2, StoreEffect DEF Shape, Stores
  <2> QED
    BY <2>1, <2>2 DEF Shape, readerVars
<1>3. CASE Crash
  BY <1>3 DEF Crash, Shape, readerVars
<1>4. CASE Reader
  <2>1. CASE ReadValid \/ ReadMode \/ ReadCount
    BY <2>1 DEF ReadValid, ReadMode, ReadCount, writerVars, Shape
  <2>2. CASE ReadClock \/ ReadReceive
    BY <2>2 DEF ReadClock, ReadReceive, writerVars, Shape
  <2>3. CASE Use
    BY <2>3 DEF Use, writerVars, Shape
  <2>4. CASE ClearValid
    BY <2>4 DEF ClearValid, writerVars, Shape
  <2> QED
    BY <1>4, <2>1, <2>2, <2>3, <2>4 DEF Reader
<1>5. CASE UNCHANGED vars
  BY <1>5 DEF vars, writerVars, readerVars, Shape
<1> QED
  BY <1>1, <1>2, <1>3, <1>4, <1>5 DEF Next

-----------------------------------------------------------------------------
\* x is the sample whose stores end with this count, or next to it
Near(x, c) == 2 * x - c \in -1 .. 1

(* Two numbers near the same count are near each other, or equal. *)
LEMMA NearEachOther ==
    ASSUME NEW x \in Nat, NEW y \in Nat, NEW c \in Nat, Near(x, c), Near(y, c)
    PROVE  x - y \in -1 .. 1 /\ (c % 2 = 0 => x = y)
<1>1. 2 * x - c >= -1 /\ 2 * x - c <= 1 /\ 2 * y - c >= -1 /\ 2 * y - c <= 1
  BY DEF Near
<1>2. x - y >= -1 /\ x - y <= 1
  BY <1>1
<1>3. ASSUME c % 2 = 0  PROVE x = y
  <2>1. PICK k \in Nat : c = 2 * k
    BY <1>3
  <2>2. x = k /\ y = k
    BY <1>1, <2>1
  <2> QED
    BY <2>2
<1> QED
  BY <1>2, <1>3

\* What the segment holds, by the number of stores that are visible
Progress ==
    \/ /\ todo = {}
       /\ shm.count = 2 * sampled
       /\ shm.clock = sampled /\ shm.receive = sampled
    \/ \E p \in Stores :
           /\ Phase(p)
           /\ 2 * sampled - shm.count
                = IF p <= 2 THEN 2 ELSE IF p <= 6 THEN 1 ELSE 0
           /\ sampled - shm.clock = IF p <= 4 THEN 1 ELSE 0
           /\ sampled - shm.receive = IF p <= 5 THEN 1 ELSE 0

Guarded ==
    /\ shm.valid # 0 => shm.mode = 1
    /\ \A p \in Stores : Phase(p) /\ p >= 2 => shm.mode = 1
    /\ pc # "idle" => shm.mode = 1
    /\ pc \in {"before", "clock", "receive", "after"} => mode = 1

\* As long as the count is what it was, the stamps read fit to it
ReaderFits ==
    /\ before <= shm.count
    /\ pc \in {"receive", "after"} /\ before = shm.count
         => Near(seen.clock, before)
    /\ pc = "after" /\ before = shm.count => Near(seen.receive, before)
    /\ Near(used.stamps.clock, used.count)
    /\ Near(used.stamps.receive, used.count)

SeqInv == Shape /\ Progress /\ Guarded /\ ReaderFits

(* A new segment is in order. *)
LEMMA InitSeqInv == Init => SeqInv
<1> SUFFICES ASSUME Init  PROVE SeqInv
  OBVIOUS
<1>1. Shape
  BY DEF Init, Shape, NoStamps
<1>2. Progress
  BY DEF Init, Progress
<1>3. Guarded
  <2>1. \A p \in Stores : ~Phase(p)
    BY DEF Init, Phase, Stores
  <2> QED
    BY <2>1 DEF Init, Guarded
<1>4. ReaderFits
  BY DEF Init, ReaderFits, Near, NoStamps
<1> QED
  BY <1>1, <1>2, <1>3, <1>4 DEF SeqInv

(* At any time the stamps in the segment fit its count. *)
LEMMA SegmentFits ==
    ASSUME Shape, Progress
    PROVE  Near(shm.clock, shm.count) /\ Near(shm.receive, shm.count)
  BY DEF Shape, Progress, Near, Stores

(* The writer goes through the phases. *)
LEMMA ProgressStep ==
    ASSUME ~Reordering, ~crashed', Shape, Progress, [Next]_vars
    PROVE  Progress'
<1> USE DEF Shape
<1>1. CASE Sample
  <2>1. Phase(1)'
    BY <1>1 DEF Sample, Phase, Stores
  <2>2. todo = {} /\ shm' = shm /\ sampled' = sampled + 1
    BY <1>1 DEF Sample
  <2>3. shm.count = 2 * sampled /\ shm.clock = sampled /\ shm.receive = sampled
    BY <2>2 DEF Progress, Phase, Stores
  <2> QED
    BY <2>1, <2>2, <2>3 DEF Progress, Stores
<1>2. ASSUME NEW i \in Stores, Store(i)  PROVE Progress'
  <2>1. Phase(i) /\ todo' = (i + 1) .. 7
    BY <1>2, StoreInOrder DEF Progress, Ordered
  <2>2. PICK p \in Stores :
            /\ Phase(p)
            /\ 2 * sampled - shm.count
                 = IF p <= 2 THEN 2 ELSE IF p <= 6 THEN 1 ELSE 0
            /\ sampled - shm.clock = IF p <= 4 THEN 1 ELSE 0
            /\ sampled - shm.receive = IF p <= 5 THEN 1 ELSE 0
    BY <1>2 DEF Store, Progress
  <2>3. p = i
    <3>1. p .. 7 = i .. 7
      BY <2>1, <2>2 DEF Phase
    <3>2. p \in p .. 7 /\ i \in i .. 7 /\ p \in Nat /\ i \in Nat
      BY DEF Stores
    <3>3. p \in i .. 7 /\ i \in p .. 7
      BY <3>1, <3>2
    <3> QED
      BY <3>2, <3>3
  <2>4. UNCHANGED sampled
    BY <1>2 DEF Store
  <2>5. CASE i = 7
    <3>1. todo' = {}
      BY <2>1, <2>5
    <3>2. shm'.count = shm.count /\ shm'.clock = shm.clock
            /\ shm'.receive = shm.receive
      BY <1>2, <2>5, StoreFields
    <3> QED
      BY <2>2, <2>3, <2>4, <2>5, <3>1, <3>2 DEF Progress
  <2>6. CASE i # 7
    <3>1. i + 1 \in Stores /\ Phase(i + 1)'
      BY <2>1, <2>6 DEF Stores, Phase
    <3>2. /\ 2 * sampled - shm'.count
               = IF i + 1 <= 2 THEN 2 ELSE IF i + 1 <= 6 THEN 1 ELSE 0
          /\ sampled - shm'.clock = IF i + 1 <= 4 THEN 1 ELSE 0
          /\ sampled - shm'.receive = IF i + 1 <= 5 THEN 1 ELSE 0
      BY <1>2, <2>2, <2>3, <2>6, StoreFields DEF Stores
    <3> QED
      BY <2>4, <3>1, <3>2 DEF Progress
  <2> QED
    BY <2>5, <2>6
<1>3. CASE Reader \/ UNCHANGED vars
  <2>1. /\ UNCHANGED <<todo, sampled>>
        /\ UNCHANGED <<shm.count, shm.clock, shm.receive>>
    BY <1>3 DEF Reader, ReadValid, ReadMode, ReadCount, ReadClock, ReadReceive,
                Use, ClearValid, writerVars, vars
  <2> QED
    BY <2>1 DEF Progress, Phase
<1> QED
  BY <1>1, <1>2, <1>3 DEF Next, Crash

(* The mode is set before the flag, and stays. *)
LEMMA GuardedStep ==
    ASSUME ~Reordering, Shape, Ordered, Guarded, [Next]_vars
    PROVE  Guarded'
<1> USE DEF Shape
<1>1. CASE Sample
  <2>1. /\ todo' = 1 .. 7
        /\ UNCHANGED <<shm, pc, mode>>
    BY <1>1 DEF Sample, Stores, readerVars
  <2>2. ASSUME NEW p \in Stores, Phase(p)'  PROVE p = 1
    <3>1. p .. 7 = 1 .. 7
      BY <2>1, <2>2 DEF Phase
    <3>2. 1 \in p .. 7
      BY <3>1
    <3> QED
      BY <3>2 DEF Stores
  <2> QED
    BY <2>1, <2>2 DEF Guarded
<1>2. ASSUME NEW i \in Stores, Store(i)  PROVE Guarded'
  <2>1. Phase(i) /\ todo' = (i + 1) .. 7
    BY <1>2, StoreInOrder
  <2>2. shm'.mode = 1 \/ (i # 1 /\ shm'.mode = shm.mode)
    BY <1>2, StoreFields
  <2>3. i # 1 => shm.mode = 1
    BY <2>1, SMTT(30) DEF Guarded, Stores
  <2>4. shm'.mode = 1
    BY <2>2, <2>3
  <2> QED
    BY <1>2, <2>4 DEF Guarded, Store, readerVars
<1>3. CASE Crash
  <2>1. /\ todo' = {}
        /\ UNCHANGED <<shm, pc, mode>>
    BY <1>3 DEF Crash, readerVars
  <2>2. \A p \in Stores : ~Phase(p)'
    BY <2>1 DEF Phase, Stores
  <2> QED
    BY <2>1, <2>2 DEF Guarded
<1>4. CASE Reader \/ UNCHANGED vars
  <2>1. UNCHANGED todo /\ UNCHANGED shm.mode
    BY <1>4 DEF Reader, ReadValid, ReadMode, ReadCount, ReadClock, ReadReceive,
                Use, ClearValid, writerVars, vars
  <2>2. shm'.valid # 0 => shm.valid # 0
    BY <1>4 DEF Reader, ReadValid, ReadMode, ReadCount, ReadClock, ReadReceive,
                Use, ClearValid, vars
  <2>3. pc' # "idle" => shm.mode = 1
    BY <1>4 DEF Guarded, Reader, ReadValid, ReadMode, ReadCount, ReadClock,
                ReadReceive, Use, ClearValid, vars, readerVars
  <2>4. pc' \in {"before", "clock", "receive", "after"} => mode' = 1
    BY <1>4 DEF Guarded, Reader, ReadValid, ReadMode, ReadCount, ReadClock,
                ReadReceive, Use, ClearValid, vars, readerVars
  <2> QED
    BY <2>1, <2>2, <2>3, <2>4 DEF Guarded, Phase
<1> QED
  BY <1>1, <1>2, <1>3, <1>4 DEF Next

(* While the count stands still, so does the fit of what was read. *)
LEMMA ReaderFitsStep ==
    ASSUME ~Reordering, SeqInv, [Next]_vars
    PROVE  ReaderFits'
<1> USE DEF SeqInv, Shape
<1>1. CASE Sample \/ Crash \/ UNCHANGED vars
  <2>1. UNCHANGED <<shm, readerVars, used>>
    BY <1>1 DEF Sample, Crash, vars
  <2> QED
    BY <2>1 DEF ReaderFits, Near, readerVars
<1>2. ASSUME NEW i \in Stores, Store(i)  PROVE ReaderFits'
  <2>1. UNCHANGED <<pc, mode, before, seen, used>>
    BY <1>2 DEF Store, readerVars
  <2>2. shm'.count \in {shm.count, shm.count + 1}
    BY <1>2, StoreFields
  <2>3. before' = shm'.count => before = shm.count
    BY <2>1, <2>2 DEF ReaderFits
  <2> QED
    BY <2>1, <2>2, <2>3 DEF ReaderFits, Near
<1>3. CASE ReadValid \/ ReadMode \/ ReadCount \/ ClearValid
  <2>1. UNCHANGED <<shm.count, used>> /\ pc' \notin {"receive", "after"}
    BY <1>3 DEF ReadValid, ReadMode, ReadCount, ClearValid
  <2>2. before' = before \/ before' = shm.count
    BY <1>3 DEF ReadValid, ReadMode, ReadCount, ClearValid
  <2> QED
    BY <2>1, <2>2 DEF ReaderFits, Near
<1>4. CASE ReadClock
  <2>1. /\ UNCHANGED <<shm, before, used>> /\ pc' = "receive"
        /\ seen'.clock = shm.clock
    BY <1>4 DEF ReadClock
  <2>2. Near(shm.clock, shm.count)
    BY SegmentFits
  <2> QED
    BY <2>1, <2>2 DEF ReaderFits, Near
<1>5. CASE ReadReceive
  <2>1. /\ UNCHANGED <<shm, before, used>> /\ pc = "receive" /\ pc' = "after"
        /\ seen'.receive = shm.receive /\ seen'.clock = seen.clock
    BY <1>5 DEF ReadReceive
  <2>2. Near(shm.receive, shm.count)
    BY SegmentFits
  <2> QED
    BY <2>1, <2>2 DEF ReaderFits, Near
<1>6. CASE Use
  <2>1. UNCHANGED <<shm, before>> /\ pc = "after" /\ pc' = "clear"
    BY <1>6 DEF Use
  <2>2. mode = 1
    BY <2>1 DEF Guarded
  <2>3. \/ used' = used
        \/ /\ shm.count = before
           /\ used'.stamps = seen /\ used'.count = before
    BY <1>6, <2>2 DEF Use
  <2> QED
    BY <2>1, <2>3 DEF ReaderFits, Near
<1> QED
  BY <1>1, <1>2, <1>3, <1>4, <1>5, <1>6 DEF Next, Reader

(* That the servo was killed is not forgotten. *)
LEMMA CrashedStays ==
    ASSUME [Next]_vars, ~crashed'
    PROVE  ~crashed
<1>1. CASE \E i \in Stores : Store(i)
  BY <1>1 DEF Store
<1>2. CASE Sample
  BY <1>2 DEF Sample
<1>3. CASE Crash
  BY <1>3 DEF Crash
<1>4. CASE Reader \/ UNCHANGED vars
  <2>1. UNCHANGED crashed
    BY <1>4 DEF Reader, ReadValid, ReadMode, ReadCount, ReadClock, ReadReceive,
                Use, ClearValid, writerVars, vars
  <2> QED
    BY <2>1
<1> QED
  BY <1>1, <1>2, <1>3, <1>4 DEF Next

(***************************************************************************)
(* If the stores are seen in program order and the servo was not killed    *)
(* among them, values read under equal even counts are of one sample, and  *)
(* under equal odd counts of two consecutive ones at worst.                *)
(***************************************************************************)
THEOREM EvenCountsAreSafe ==
    ASSUME ~Reordering
    PROVE  Spec => []EvenCountMeansWhole
<1> DEFINE UncrashedInv == ~crashed => SeqInv
<1>1. Init => UncrashedInv
  BY InitSeqInv
<1>2. UncrashedInv /\ [Next]_vars => UncrashedInv'
  <2> SUFFICES ASSUME UncrashedInv, [Next]_vars, ~crashed'  PROVE SeqInv'
    OBVIOUS
  <2>1. SeqInv
    BY CrashedStays
  <2>2. Ordered
    BY <2>1 DEF SeqInv, Progress, Ordered
  <2> QED
    BY <2>1, <2>2, ShapeStep, ProgressStep, GuardedStep, ReaderFitsStep DEF SeqInv
<1>3. UncrashedInv => EvenCountMeansWhole
  <2> SUFFICES ASSUME UncrashedInv, ~crashed  PROVE EvenCountMeansWhole
    BY DEF EvenCountMeansWhole
  <2>1. SeqInv
    OBVIOUS
  <2>2. /\ used.stamps.clock \in Nat /\ used.stamps.receive \in Nat
        /\ used.count \in Nat
    BY <2>1 DEF SeqInv, Shape
  <2>3. Near(used.stamps.clock, used.count) /\ Near(used.stamps.receive, used.count)
    BY <2>1 DEF SeqInv, ReaderFits
  <2> QED
    BY <2>2, <2>3, NearEachOther DEF EvenCountMeansWhole, Whole
<1> QED
  BY <1>1, <1>2, <1>3, PTL DEF Spec

-----------------------------------------------------------------------------
\* Once a stamp is in the segment there is always one
Written ==
    /\ todo # {} => sampled # 0
    /\ shm.valid # 0 => shm.clock # 0 /\ shm.receive # 0
    /\ \A p \in Stores : Phase(p) =>
           /\ p >= 5 => shm.clock # 0
           /\ p >= 6 => shm.receive # 0
    /\ pc # "idle" => shm.clock # 0 /\ shm.receive # 0
    /\ pc \in {"receive", "after"} => seen.clock # 0
    /\ pc = "after" => seen.receive # 0
    /\ UsesWrittenStamps

WriteInv == Shape /\ Ordered /\ Guarded /\ Written

(* The stores of a call fill the segment before they set the flag. *)
LEMMA WrittenStep ==
    ASSUME ~Reordering, WriteInv, [Next]_vars
    PROVE  Written'
<1> USE DEF WriteInv, Shape
<1>1. CASE Sample
  <2>1. /\ todo' = 1 .. 7 /\ sampled' # 0
        /\ UNCHANGED <<shm, pc, seen, used>>
    BY <1>1 DEF Sample, Stores, readerVars
  <2>2. ASSUME NEW p \in Stores, Phase(p)'  PROVE p = 1
    <3>1. p .. 7 = 1 .. 7
      BY <2>1, <2>2 DEF Phase
    <3>2. 1 \in p .. 7
      BY <3>1
    <3> QED
      BY <3>2 DEF Stores
  <2> QED
    BY <2>1, <2>2 DEF Written, UsesWrittenStamps
<1>2. ASSUME NEW i \in Stores, Store(i)  PROVE Written'
  <2>1. Phase(i) /\ todo' = (i + 1) .. 7
    BY <1>2, StoreInOrder
  <2>2. UNCHANGED <<sampled, pc, seen, used>> /\ sampled # 0
    BY <1>2 DEF Store, readerVars, Written
  <2>3. /\ i >= 5 => shm.clock # 0
        /\ i >= 6 => shm.receive # 0
    BY <2>1 DEF Written
  <2>4. /\ i >= 4 => shm'.clock # 0
        /\ i >= 5 => shm'.receive # 0
        /\ shm.clock # 0 => shm'.clock # 0
        /\ shm.receive # 0 => shm'.receive # 0
        /\ shm'.valid # 0 => i = 7 \/ shm.valid # 0
    BY <1>2, <2>2, <2>3, StoreFields DEF Stores
  <2>5. ASSUME NEW p \in Stores, Phase(p)'  PROVE p = i + 1
    <3>1. p .. 7 = (i + 1) .. 7
      BY <2>1, <2>5 DEF Phase
    <3>2. p \in (i + 1) .. 7 /\ i + 1 <= 7
      BY <3>1 DEF Stores
    <3>3. i + 1 \in p .. 7
      BY <3>1, <3>2 DEF Stores
    <3> QED
      BY <3>2, <3>3 DEF Stores
  <2>6. \A p \in Stores : Phase(p)' =>
            /\ p >= 5 => shm'.clock # 0
            /\ p >= 6 => shm'.receive # 0
    BY <2>4, <2>5 DEF Stores
  <2>7. shm'.valid # 0 => shm'.clock # 0 /\ shm'.receive # 0
    BY <2>4 DEF Written
  <2> QED
    BY <2>2, <2>4, <2>6, <2>7 DEF Written, UsesWrittenStamps
<1>3. CASE Crash
  <2>1. /\ todo' = {}
        /\ UNCHANGED <<shm, pc, seen, used>>
    BY <1>3 DEF Crash, readerVars
  <2>2. \A p \in Stores : ~Phase(p)'
    BY <2>1 DEF Phase, Stores
  <2> QED
    BY <2>1, <2>2 DEF Written, UsesWrittenStamps
<1>4. CASE Reader \/ UNCHANGED vars
  <2>1. UNCHANGED <<todo, sampled>> /\ UNCHANGED <<shm.clock, shm.receive>>
    BY <1>4 DEF Reader, ReadValid, ReadMode, ReadCount, ReadClock, ReadReceive,
                Use, ClearValid, writerVars, vars
  <2>2. shm'.valid # 0 => shm.valid # 0
    BY <1>4 DEF Reader, ReadValid, ReadMode, ReadCount, ReadClock, ReadReceive,
                Use, ClearValid, vars
  <2>3. pc' # "idle" => shm.valid = 1 \/ pc # "idle"
    BY <1>4 DEF Reader, ReadValid, ReadMode, ReadCount, ReadClock, ReadReceive,
                Use, ClearValid, vars, readerVars
  <2>4. /\ pc' \in {"receive", "after"} => seen'.clock # 0
        /\ pc' = "after" => seen'.receive # 0
    <3>1. CASE ReadClock
      BY <3>1 DEF ReadClock, Written
    <3>2. CASE ReadReceive
      BY <3>2 DEF ReadReceive, Written
    <3>3. CASE ReadValid \/ ReadMode \/ ReadCount \/ Use \/ ClearValid
      BY <3>3 DEF ReadValid, ReadMode, ReadCount, Use, ClearValid
    <3>4. CASE UNCHANGED vars
      BY <3>4 DEF vars, readerVars, Written
    <3> QED
      BY <1>4, <3>1, <3>2, <3>3, <3>4 DEF Reader
  <2>5. UsesWrittenStamps'
    <3>1. CASE Use
      BY <3>1 DEF Use, Written, Guarded, UsesWrittenStamps
    <3>2. CASE UNCHANGED used
      BY <3>2 DEF Written, UsesWrittenStamps
    <3> QED
      BY <1>4, <3>1, <3>2 DEF Reader, ReadValid, ReadMode, ReadCount, ReadClock,
                              ReadReceive, ClearValid, vars
  <2> QED
    BY <2>1, <2>2, <2>3, <2>4, <2>5 DEF Written, Phase
<1> QED
  BY <1>1, <1>2, <1>3, <1>4 DEF Next

(***************************************************************************)
(* If the stores are seen in program order, the reader uses no stamp that  *)
(* was not written, even if the servo is killed between any two stores.    *)
(***************************************************************************)
THEOREM OnlyWrittenIsUsed ==
    ASSUME ~Reordering
    PROVE  Spec => []UsesWrittenStamps
<1>1. Init => WriteInv
  <2> SUFFICES ASSUME Init  PROVE WriteInv
    OBVIOUS
  <2>1. Ordered
    BY DEF Init, Ordered
  <2>2. \A p \in Stores : ~Phase(p)
    BY DEF Init, Phase, Stores
  <2>3. Written
    BY <2>2 DEF Init, Written, UsesWrittenStamps, NoStamps
  <2> QED
    BY <2>1, <2>3, InitSeqInv DEF WriteInv, SeqInv
<1>2. WriteInv /\ [Next]_vars => WriteInv'
  BY OrderedStep, ShapeStep, GuardedStep, WrittenStep DEF WriteInv
<1>3. WriteInv => UsesWrittenStamps
  BY DEF WriteInv, Written
<1> QED
  BY <1>1, <1>2, <1>3, PTL DEF Spec

-----------------------------------------------------------------------------
(***************************************************************************)
(* Each call counts twice, also when its stores become visible in another  *)
(* order, or never do because the servo is killed.                         *)
(***************************************************************************)
Counted ==
    shm.count + (IF 2 \in todo THEN 1 ELSE 0) + (IF 6 \in todo THEN 1 ELSE 0)
        <= 2 * sampled

(* What the reader has seen stays possible when the numbers grow. *)
LEMMA TypesMonotone ==
    ASSUME TypeOK, sampled' \in 0 .. MaxSamples, sampled <= sampled',
           UNCHANGED <<readerVars, used>>
    PROVE  /\ pc' \in {"idle", "mode", "before", "clock", "receive", "after", "clear"}
           /\ mode' \in {0, 1} /\ before' \in 0 .. 2 * sampled'
           /\ seen' \in Stamps'
           /\ used' \in [stamps : Stamps', mode : {0, 1}, count : 0 .. 2 * sampled',
                         any : BOOLEAN]
<1>1. PICK n \in Nat, m \in Nat : n = sampled /\ m = sampled' /\ n <= m
  BY NtpShmAssumption DEF TypeOK
<1>2. n <= m
  BY <1>1
<1>3. 0 .. n \subseteq 0 .. m /\ 0 .. 2 * n \subseteq 0 .. 2 * m
  <2>1. \A x \in 0 .. n : x \in 0 .. m
    BY <1>2
  <2>2. \A x \in 0 .. 2 * n : x \in 0 .. 2 * m
    BY <1>2
  <2> QED
    BY <2>1, <2>2, Zenon
<1>4. \A s \in Stamps : s \in Stamps'
  BY <1>1, <1>3 DEF Stamps
<1>5. /\ pc \in {"idle", "mode", "before", "clock", "receive", "after", "clear"}
      /\ mode \in {0, 1} /\ before \in 0 .. 2 * sampled'
      /\ seen \in Stamps'
  BY <1>1, <1>3, <1>4 DEF TypeOK
<1>6. used \in [stamps : Stamps', mode : {0, 1}, count : 0 .. 2 * sampled',
                any : BOOLEAN]
  BY <1>1, <1>3, <1>4 DEF TypeOK
<1> QED
  BY <1>5, <1>6 DEF readerVars

(* A store that becomes visible. *)
LEMMA StoreTypes ==
    ASSUME TypeOK, Counted, NEW i \in Stores, Store(i)
    PROVE  TypeOK' /\ Counted'
<1>1. Shape
  BY NtpShmAssumption DEF TypeOK, Shape, Stamps
<1>2. /\ shm'.mode = IF i = 1 THEN 1 ELSE shm.mode
      /\ shm'.count = IF i = 2 \/ i = 6 THEN shm.count + 1 ELSE shm.count
      /\ shm'.valid = IF i = 3 THEN 0 ELSE IF i = 7 THEN 1 ELSE shm.valid
      /\ shm'.clock = IF i = 4 THEN sampled ELSE shm.clock
      /\ shm'.receive = IF i = 5 THEN sampled ELSE shm.receive
  BY <1>1, StoreFields
<1>3. /\ i \in todo /\ todo' = todo \ {i}
      /\ UNCHANGED <<sampled, crashed, readerVars, used>>
  BY DEF Store
<1>4. sampled \in Nat /\ shm.count \in Nat
  BY NtpShmAssumption DEF TypeOK
<1>5. Counted'
  BY <1>2, <1>3, <1>4 DEF Counted, TypeOK
<1>6. shm'.count \in 0 .. 2 * sampled
  BY <1>2, <1>3, <1>4, <1>5 DEF Counted
<1>7. shm' \in [mode : {0, 1}, count : 0 .. 2 * sampled, valid : {0, 1},
                clock : 0 .. sampled, receive : 0 .. sampled]
  <2>1. shm' \in [mode : Nat, count : Nat, valid : Nat, clock : Nat, receive : Nat]
    BY <1>1, <1>4, StoreEffect DEF Shape, Stores
  <2>2. /\ shm'.mode \in {0, 1} /\ shm'.valid \in {0, 1}
        /\ shm'.clock \in 0 .. sampled /\ shm'.receive \in 0 .. sampled
    BY <1>2, <1>4 DEF TypeOK
  <2> QED
    BY <1>6, <2>1, <2>2 DEF TypeOK
<1>8. /\ pc' \in {"idle", "mode", "before", "clock", "receive", "after", "clear"}
      /\ mode' \in {0, 1} /\ before' \in 0 .. 2 * sampled'
      /\ seen' \in Stamps'
      /\ used' \in [stamps : Stamps', mode : {0, 1}, count : 0 .. 2 * sampled',
                    any : BOOLEAN]
  <2>1. sampled' \in 0 .. MaxSamples /\ sampled <= sampled'
    BY <1>3, <1>4 DEF TypeOK
  <2> QED
    BY <1>3, <2>1, TypesMonotone
<1> QED
  BY <1>3, <1>5, <1>7, <1>8 DEF TypeOK

(***************************************************************************)
(* The domain of the state, in which the count is at most twice the        *)
(* samples: with and without reordering, and whenever the servo is killed. *)
(***************************************************************************)
THEOREM NtpShmTypes == Spec => []TypeOK
<1>1. Init => TypeOK /\ Counted
  <2> SUFFICES ASSUME Init  PROVE TypeOK /\ Counted
    OBVIOUS
  <2>1. 0 \in 0 .. MaxSamples /\ NoStamps \in [clock : 0 .. 0, receive : 0 .. 0]
    BY NtpShmAssumption DEF NoStamps
  <2>2. shm = [mode |-> 0, count |-> 0, valid |-> 0, clock |-> 0, receive |-> 0]
    BY DEF Init
  <2>3. shm \in [mode : {0, 1}, count : 0 .. 0, valid : {0, 1},
                 clock : 0 .. 0, receive : 0 .. 0]
    BY <2>2
  <2>4. used \in [stamps : [clock : 0 .. 0, receive : 0 .. 0], mode : {0, 1},
                  count : 0 .. 0, any : BOOLEAN]
    BY <2>1 DEF Init
  <2>5. sampled = 0 /\ 2 * sampled = 0 /\ todo = {} /\ shm.count = 0
    BY <2>2 DEF Init
  <2>6. Counted
    BY <2>5 DEF Counted
  <2>7. Stamps = [clock : 0 .. 0, receive : 0 .. 0]
    BY <2>5 DEF Stamps
  <2> QED
    BY <2>1, <2>3, <2>4, <2>5, <2>6, <2>7 DEF Init, TypeOK
<1>2. TypeOK /\ Counted /\ [Next]_vars => TypeOK' /\ Counted'
  <2> SUFFICES ASSUME TypeOK, Counted, [Next]_vars
               PROVE  TypeOK' /\ Counted'
    OBVIOUS
  <2>1. CASE Sample
    <3>1. /\ todo = {} /\ sampled < MaxSamples /\ sampled' = sampled + 1
          /\ todo' = Stores /\ UNCHANGED <<shm, crashed, readerVars, used>>
      BY <2>1 DEF Sample
    <3>2. sampled \in Nat /\ sampled' \in 0 .. MaxSamples /\ sampled <= sampled'
      BY <3>1, NtpShmAssumption DEF TypeOK
    <3>3. Counted'
      BY <3>1, <3>2 DEF Counted, TypeOK, Stores
    <3>4. shm \in [mode : {0, 1}, count : 0 .. 2 * sampled', valid : {0, 1},
                   clock : 0 .. sampled', receive : 0 .. sampled']
      BY <3>1, <3>2 DEF TypeOK
    <3> QED
      BY <3>1, <3>2, <3>3, <3>4, TypesMonotone DEF TypeOK
  <2>2. ASSUME NEW i \in Stores, Store(i)  PROVE TypeOK' /\ Counted'
    BY <2>2, StoreTypes
  <2>3. CASE Crash
    BY <2>3 DEF Crash, TypeOK, Counted, Stamps, readerVars
  <2>4. CASE Reader
    <3>1. UNCHANGED <<sampled, todo, crashed>>
      BY <2>4 DEF Reader, ReadValid, ReadMode, ReadCount, ReadClock, ReadReceive,
                  Use, ClearValid, writerVars
    <3>2. CASE ReadValid \/ ReadMode \/ ReadCount
      BY <3>1, <3>2 DEF ReadValid, ReadMode, ReadCount, TypeOK, Counted, Stamps
    <3>3. CASE ReadClock \/ ReadReceive
      BY <3>1, <3>3 DEF ReadClock, ReadReceive, TypeOK, Counted, Stamps
    <3>4. CASE Use
      BY <3>1, <3>4 DEF Use, TypeOK, Counted, Stamps
    <3>5. CASE ClearValid
      BY <3>1, <3>5 DEF ClearValid, TypeOK, Counted, Stamps
    <3> QED
      BY <2>4, <3>2, <3>3, <3>4, <3>5 DEF Reader
  <2>5. CASE UNCHANGED vars
    BY <2>5 DEF vars, writerVars, readerVars, TypeOK, Counted, Stamps
  <2> QED
    BY <2>1, <2>2, <2>3, <2>4, <2>5 DEF Next
<1> QED
  BY <1>1, <1>2, PTL DEF Spec
=============================================================================
