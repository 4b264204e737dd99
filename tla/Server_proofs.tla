--------------------------- MODULE Server_proofs ---------------------------
(***************************************************************************)
(* Proofs about the server process: what brings the inputs of connections  *)
(* to the ticks of the runtime - the clock that says when a tick is due,   *)
(* the queue that keeps what has come in and the hub of the workers that   *)
(* submit it - and the life cycle of the process: its players' sessions    *)
(* and what is saved when it exits.                                        *)
(***************************************************************************)
EXTENDS Server, WorkerHub, FixedRateClock, FiniteSetTheorems, SequenceTheorems,
        WellFoundedInduction, TLAPS

(***************************************************************************)
(* The clock keeps time for every interval, catch-up limit and sequence of *)
(* polls. The invariant is the property itself, with the types that its    *)
(* arithmetic needs.                                                       *)
(***************************************************************************)

ClockInv == ClockTypeOK /\ ClockKeepsTime

\* How many intervals fit: what the division of a poll says of its deadline.
LEMMA DueFits ==
  ASSUME NEW late \in Nat, NEW due \in Nat,
         due <= late \div Interval + 1
  PROVE  Interval * (due - 1) <= late
<1>1. Interval \in Nat \ {0}
  BY FixedRateClockAssumption
<1> DEFINE q == late \div Interval
<1>2. q \in Int /\ Interval * q <= late
  BY <1>1
<1>3. due - 1 <= q /\ due - 1 \in Int
  BY <1>2
<1>4. Interval * (due - 1) <= Interval * q
  <2> HIDE DEF q
  <2>1. \A i \in Nat, j, k \in Int : j <= k => i * j <= i * k
    OBVIOUS
  <2> QED BY <1>1, <1>2, <1>3, <2>1
<1> QED BY <1>1, <1>2, <1>3, <1>4

\* ran, dropped and the batch come from one split of due, and due moves the
\* deadline by as many intervals as the tick.
LEMMA PollDueKeepsTime == ClockInv /\ PollDue => ClockInv'
<1> SUFFICES ASSUME ClockInv, PollDue PROVE ClockInv'
  OBVIOUS
<1> USE FixedRateClockAssumption
<1>1. /\ now \in Nat /\ deadline \in Nat /\ tick \in Nat /\ ran \in Nat /\ dropped \in Nat
      /\ deadline = Interval * (tick + 1) /\ ran + dropped = tick /\ now >= deadline
  BY DEF ClockInv, ClockTypeOK, ClockKeepsTime, PollDue
<1> DEFINE late == now - deadline
           count == AtMost(Due, MaxCatchUp)
<1>2. late \in Nat /\ late \div Interval \in Nat
  BY <1>1
<1>3. Due \in Nat \ {0} /\ Due <= late \div Interval + 1
  BY <1>2 DEF Due, AtMost
<1>4. count \in Nat \ {0} /\ count <= Due /\ count <= MaxCatchUp
  BY <1>3 DEF AtMost
<1>5. Interval * (Due - 1) <= late
  BY <1>2, <1>3, DueFits
<1> HIDE DEF count, late
<1>6. /\ batch' = [first |-> tick + Due - count + 1, count |-> count, dropped |-> Due - count]
      /\ deadline' = deadline + Interval * Due
      /\ tick' = tick + Due /\ ran' = ran + count /\ dropped' = dropped + (Due - count)
      /\ now' = now
  BY DEF PollDue, NextDeadline, count
<1>7. deadline' = Interval * (tick' + 1) /\ Interval * tick' <= now'
  <2>1. \A i \in Nat, t, d \in Nat :
          /\ i * (t + 1) + i * d = i * (t + d + 1)
          /\ i * (t + d) = i * (t + 1) + i * (d - 1)
    OBVIOUS
  <2>2. Interval * (tick + Due) = deadline + Interval * (Due - 1)
    BY <1>1, <1>3, <2>1
  <2>3. deadline + Interval * Due = Interval * (tick + Due + 1)
    BY <1>1, <1>3, <2>1
  <2>4. late = now - deadline
    BY DEF late
  <2>5. Interval * (Due - 1) \in Int
    BY <1>3
  <2> QED BY <1>1, <1>3, <1>5, <1>6, <2>2, <2>3, <2>4, <2>5
<1>8. ClockTypeOK'
  <2>1. Interval * Due \in Nat
    BY <1>3
  <2> QED BY <1>1, <1>3, <1>4, <1>6, <2>1 DEF ClockTypeOK
<1>9. ran' + dropped' = tick' /\ batch'.count <= MaxCatchUp
      /\ batch'.first + batch'.count = tick' + 1
  BY <1>1, <1>3, <1>4, <1>6
<1> QED BY <1>7, <1>8, <1>9 DEF ClockInv, ClockKeepsTime

\* The clock does not drift, and runs or drops every tick once, however late
\* it is polled (FixedRateClock::poll).
THEOREM ClockIsAccurate == ClockSpec => []ClockKeepsTime
<1>1. ClockInit => ClockInv
  BY FixedRateClockAssumption
     DEF ClockInit, ClockInv, ClockTypeOK, ClockKeepsTime, NoBatch
<1>2. ClockInv /\ [ClockNext]_clockVars => ClockInv'
  <2> SUFFICES ASSUME ClockInv, [ClockNext]_clockVars PROVE ClockInv'
    OBVIOUS
  <2> USE FixedRateClockAssumption
  <2>1. CASE TimePasses
    <3>1. PICK d \in Delays : now' = now + d
      BY <2>1 DEF TimePasses
    <3>2. now' \in Nat /\ now <= now'
      BY <3>1 DEF ClockInv, ClockTypeOK
    <3>3. Interval * tick \in Nat
      BY DEF ClockInv, ClockTypeOK
    <3> QED BY <2>1, <3>2, <3>3 DEF ClockInv, ClockTypeOK, ClockKeepsTime, TimePasses
  <2>2. CASE PollEarly
    BY <2>2 DEF ClockInv, ClockTypeOK, ClockKeepsTime, PollEarly, NoBatch
  <2>3. CASE PollDue
    BY <2>3, PollDueKeepsTime
  <2>4. CASE PollOverflows
    BY <2>4 DEF ClockInv, ClockTypeOK, ClockKeepsTime, PollOverflows, clockVars
  <2>5. CASE UNCHANGED clockVars
    BY <2>5 DEF ClockInv, ClockTypeOK, ClockKeepsTime, clockVars
  <2> QED BY <2>1, <2>2, <2>3, <2>4, <2>5 DEF ClockNext
<1>3. ClockInv => ClockKeepsTime
  BY DEF ClockInv
<1> QED BY <1>1, <1>2, <1>3, PTL DEF ClockSpec

(***************************************************************************)
(* BoundedInputQueue, for every set of connections, capacity, sequence     *)
(* bound and drain limit: the accounting of len, the numbering of the      *)
(* queued inputs, and the fairness of drain_tick.                          *)
(***************************************************************************)

(* The slots of an arbitrary pending map: Slots is SlotsOf(pending).       *)
SlotsOf(q) == UNION {{c} \X (1 .. Len(q[c])) : c \in Connection}

Queues == [Connection -> Seq(Envelope)]

(* Which pairs are slots of a pending map.                                 *)
LEMMA SlotMember ==
  ASSUME NEW q \in Queues, NEW c, NEW i
  PROVE  <<c, i>> \in SlotsOf(q) <=> c \in Connection /\ i \in 1 .. Len(q[c])
  BY DEF SlotsOf

(* Every slot is such a pair.                                              *)
LEMMA SlotIsPair ==
  ASSUME NEW q \in Queues, NEW x \in SlotsOf(q)
  PROVE  \E c \in Connection, i \in Nat : x = <<c, i>> /\ i \in 1 .. Len(q[c])
<1>1. PICK c \in Connection : x \in {c} \X (1 .. Len(q[c]))
  BY DEF SlotsOf
<1>2. Len(q[c]) \in Nat
  BY DEF Queues
<1>3. PICK i \in 1 .. Len(q[c]) : x = <<c, i>>
  BY <1>1
<1> QED BY <1>2, <1>3

(* push_back occupies one new slot.                                        *)
LEMMA SlotsAppend ==
  ASSUME NEW q \in Queues, NEW c \in Connection, NEW e \in Envelope,
         NEW r, r = [q EXCEPT ![c] = Append(@, e)]
  PROVE  /\ r \in Queues
         /\ SlotsOf(r) = SlotsOf(q) \cup {<<c, Len(q[c]) + 1>>}
         /\ <<c, Len(q[c]) + 1>> \notin SlotsOf(q)
<1>1. r \in Queues /\ Len(r[c]) = Len(q[c]) + 1 /\ Len(q[c]) \in Nat
  BY DEF Queues
<1>2. \A d \in Connection : d # c => r[d] = q[d]
  BY DEF Queues
<1>3. <<c, Len(q[c]) + 1>> \notin SlotsOf(q)
  BY <1>1, SlotMember
<1>4. ASSUME NEW x \in SlotsOf(r)
      PROVE  x \in SlotsOf(q) \cup {<<c, Len(q[c]) + 1>>}
  <2>1. PICK d \in Connection, i \in Nat : x = <<d, i>> /\ i \in 1 .. Len(r[d])
    BY <1>1, SlotIsPair
  <2>2. CASE d = c
    BY <1>1, <2>1, <2>2, SlotMember
  <2>3. CASE d # c
    BY <1>2, <2>1, <2>3, SlotMember
  <2> QED BY <2>2, <2>3
<1>5. ASSUME NEW x \in SlotsOf(q) \cup {<<c, Len(q[c]) + 1>>}
      PROVE  x \in SlotsOf(r)
  <2>1. CASE x = <<c, Len(q[c]) + 1>>
    <3>1. Len(q[c]) + 1 \in 1 .. Len(r[c])
      BY <1>1
    <3> QED BY <1>1, <2>1, <3>1, SlotMember
  <2>2. CASE x \in SlotsOf(q)
    <3>1. PICK d \in Connection, i \in Nat : x = <<d, i>> /\ i \in 1 .. Len(q[d])
      BY <2>2, SlotIsPair
    <3>2. i \in 1 .. Len(r[d])
      BY <1>1, <1>2, <3>1
    <3> QED BY <1>1, <3>1, <3>2, SlotMember
  <2> QED BY <1>5, <2>1, <2>2
<1> QED BY <1>1, <1>3, <1>4, <1>5

(* pop_front frees the last slot of its connection.                        *)
LEMMA SlotsTail ==
  ASSUME NEW q \in Queues, NEW c \in Connection, q[c] # <<>>,
         NEW r, r = [q EXCEPT ![c] = Tail(@)]
  PROVE  /\ r \in Queues
         /\ SlotsOf(r) = SlotsOf(q) \ {<<c, Len(q[c])>>}
         /\ <<c, Len(q[c])>> \in SlotsOf(q)
<1>1. r \in Queues /\ Len(r[c]) = Len(q[c]) - 1 /\ Len(q[c]) \in Nat \ {0}
  BY HeadTailProperties, EmptySeq DEF Queues
<1>2. \A d \in Connection : d # c => r[d] = q[d]
  BY DEF Queues
<1>3. <<c, Len(q[c])>> \in SlotsOf(q)
  BY <1>1, SlotMember
<1>4. ASSUME NEW x \in SlotsOf(r)
      PROVE  x \in SlotsOf(q) \ {<<c, Len(q[c])>>}
  <2>1. PICK d \in Connection, i \in Nat : x = <<d, i>> /\ i \in 1 .. Len(r[d])
    BY <1>1, SlotIsPair
  <2>2. CASE d = c
    BY <1>1, <2>1, <2>2, SlotMember
  <2>3. CASE d # c
    BY <1>2, <2>1, <2>3, SlotMember
  <2> QED BY <2>2, <2>3
<1>5. ASSUME NEW x \in SlotsOf(q) \ {<<c, Len(q[c])>>}
      PROVE  x \in SlotsOf(r)
  <2>1. PICK d \in Connection, i \in Nat : x = <<d, i>> /\ i \in 1 .. Len(q[d])
    BY SlotIsPair
  <2>2. i \in 1 .. Len(r[d])
    BY <1>1, <1>2, <1>5, <2>1
  <2> QED BY <1>1, <2>1, <2>2, SlotMember
<1> QED BY <1>1, <1>3, <1>4, <1>5

(* remove_connection frees as many slots as its FIFO was long.             *)
LEMMA SlotsClear ==
  ASSUME NEW q \in Queues, NEW c \in Connection, IsFiniteSet(SlotsOf(q)),
         NEW r, r = [q EXCEPT ![c] = <<>>]
  PROVE  /\ r \in Queues
         /\ IsFiniteSet(SlotsOf(r))
         /\ Len(q[c]) \in 0 .. Cardinality(SlotsOf(q))
         /\ Cardinality(SlotsOf(r)) = Cardinality(SlotsOf(q)) - Len(q[c])
<1> DEFINE Row == {c} \X (1 .. Len(q[c]))
<1>1. r \in Queues /\ r[c] = <<>> /\ Len(r[c]) = 0 /\ Len(q[c]) \in Nat
  BY DEF Queues
<1>2. \A d \in Connection : d # c => r[d] = q[d]
  BY DEF Queues
<1>3. Row \subseteq SlotsOf(q)
  BY DEF SlotsOf
<1>4. IsFiniteSet(Row) /\ Cardinality(Row) = Len(q[c])
  <2>1. IsFiniteSet(1 .. Len(q[c])) /\ Cardinality(1 .. Len(q[c])) = Len(q[c])
    <3> DEFINE n == Len(q[c])
    <3>1. n \in Nat
      BY <1>1
    <3> HIDE DEF n
    <3>2. IsFiniteSet(1 .. n) /\ Cardinality(1 .. n) = IF 1 > n THEN 0 ELSE n - 1 + 1
      BY <3>1, FS_Interval
    <3>3. Cardinality(1 .. n) = n
      BY <3>1, <3>2
    <3> QED BY <3>2, <3>3 DEF n
  <2>2. IsFiniteSet({c}) /\ Cardinality({c}) = 1
    BY FS_Singleton
  <2>3. IsFiniteSet(Row) /\ Cardinality(Row) = 1 * Len(q[c])
    <3>1. PICK S, T : S = {c} /\ T = 1 .. Len(q[c])
      OBVIOUS
    <3>2. IsFiniteSet(S) /\ IsFiniteSet(T) /\ Cardinality(S) = 1 /\ Cardinality(T) = Len(q[c])
      BY <2>1, <2>2, <3>1
    <3>3. IsFiniteSet(S \X T) /\ Cardinality(S \X T) = Cardinality(S) * Cardinality(T)
      BY <3>2, FS_Product
    <3> QED BY <3>1, <3>2, <3>3
  <2> QED BY <1>1, <2>3
<1>5. ASSUME NEW x \in SlotsOf(r)
      PROVE  x \in SlotsOf(q) \ Row
  <2>0. r \in Queues
    BY <1>1
  <2>1. PICK d \in Connection, i \in Nat : x = <<d, i>> /\ i \in 1 .. Len(r[d])
    BY <2>0, SlotIsPair
  <2>2. d # c
    BY <1>1, <2>1
  <2> QED BY <1>2, <2>1, <2>2, SlotMember
<1>6. ASSUME NEW x \in SlotsOf(q) \ Row
      PROVE  x \in SlotsOf(r)
  <2>1. PICK d \in Connection, i \in Nat : x = <<d, i>> /\ i \in 1 .. Len(q[d])
    BY SlotIsPair
  <2>2. d # c
    BY <1>6, <2>1
  <2> QED BY <1>1, <1>2, <2>1, <2>2, SlotMember
<1>7. SlotsOf(r) = SlotsOf(q) \ Row
  BY <1>5, <1>6
<1>8. SlotsOf(q) \cap Row = Row
  BY <1>3
<1>9. Cardinality(Row) <= Cardinality(SlotsOf(q)) /\ Cardinality(SlotsOf(q)) \in Nat
  BY <1>3, FS_Subset, FS_CardinalityType
<1>10. /\ IsFiniteSet(SlotsOf(q) \ Row)
       /\ Cardinality(SlotsOf(q) \ Row) = Cardinality(SlotsOf(q)) - Cardinality(SlotsOf(q) \cap Row)
  BY FS_Difference
<1> HIDE DEF Row
<1>11. IsFiniteSet(SlotsOf(r)) /\ Cardinality(SlotsOf(r)) = Cardinality(SlotsOf(q)) - Len(q[c])
  BY <1>4, <1>7, <1>8, <1>10
<1>12. Len(q[c]) \in 0 .. Cardinality(SlotsOf(q))
  BY <1>1, <1>4, <1>9
<1> QED BY <1>1, <1>11, <1>12

-----------------------------------------------------------------------------
(* The counter and the FIFOs it counts, kept together by every operation.  *)
QueueInv == QueueTypeOK /\ IsFiniteSet(Slots) /\ LenIsAccurate

(* push preserves QueueInv.                                                *)
LEMMA PushPreserves ==
  ASSUME QueueInv, NEW c \in Connection, NEW p \in Payload, ~draining, Push(c, p)
  PROVE  QueueInv'
<1> DEFINE e == [connection |-> c, sequence |-> nextSequence[c], payload |-> p]
<1> USE InputQueueAssumption
<1>0. pending \in Queues /\ nextSequence[c] \in Nat
  BY DEF QueueInv, QueueTypeOK, Queues
<1>1. e \in Envelope /\ pending' = [pending EXCEPT ![c] = Append(@, e)]
  BY <1>0 DEF Envelope, Push
<1> HIDE DEF e
<1>2. /\ pending' \in Queues
      /\ SlotsOf(pending') = SlotsOf(pending) \cup {<<c, Len(pending[c]) + 1>>}
      /\ <<c, Len(pending[c]) + 1>> \notin SlotsOf(pending)
  BY <1>0, <1>1, SlotsAppend
<1>3. IsFiniteSet(SlotsOf(pending)) /\ len = Cardinality(SlotsOf(pending))
  BY DEF QueueInv, LenIsAccurate, Slots, SlotsOf
<1>4. IsFiniteSet(SlotsOf(pending')) /\ Cardinality(SlotsOf(pending')) = len + 1
  BY <1>2, <1>3, FS_AddElement
<1>5. len' = len + 1 /\ len' \in 0 .. QueueCapacity
  BY DEF QueueInv, QueueTypeOK, Push, HasRoom
<1>6. QueueTypeOK'
  <2>1. nextSequence \in [Connection -> 0 .. MaxSequence] /\ MaxSequence \in Nat
    BY DEF QueueInv, QueueTypeOK
  <2>2. nextSequence' = [nextSequence EXCEPT ![c] = @ + 1] /\ nextSequence[c] < MaxSequence
    BY DEF Push
  <2>3. nextSequence[c] + 1 \in 0 .. MaxSequence
    BY <2>1, <2>2
  <2>4. nextSequence' \in [Connection -> 0 .. MaxSequence]
    BY <2>1, <2>2, <2>3
  <2>5. UNCHANGED <<drainVars, consumed>>
    BY DEF Push
  <2> QED BY <1>2, <1>5, <2>4, <2>5 DEF QueueInv, QueueTypeOK, Queues, drainVars
<1> QED BY <1>4, <1>5, <1>6 DEF QueueInv, LenIsAccurate, Slots, SlotsOf

(* remove_connection preserves QueueInv, whatever the connection holds.    *)
LEMMA RemovePreserves ==
  ASSUME QueueInv, NEW c \in Connection, ~draining, RemoveConnection(c)
  PROVE  QueueInv'
<1> USE InputQueueAssumption
<1>1. pending \in Queues /\ pending' = [pending EXCEPT ![c] = <<>>]
  BY DEF QueueInv, QueueTypeOK, Queues, RemoveConnection, ForgetConnection
<1>2. IsFiniteSet(SlotsOf(pending)) /\ len = Cardinality(SlotsOf(pending))
  BY DEF QueueInv, LenIsAccurate, Slots, SlotsOf
<1>3. /\ pending' \in Queues
      /\ IsFiniteSet(SlotsOf(pending'))
      /\ Len(pending[c]) \in 0 .. len
      /\ Cardinality(SlotsOf(pending')) = len - Len(pending[c])
  BY <1>1, <1>2, SlotsClear
<1>4. len' = len - Len(pending[c]) /\ len' \in 0 .. QueueCapacity
  BY <1>3 DEF QueueInv, QueueTypeOK, RemoveConnection, ForgetConnection
<1>5. QueueTypeOK'
  <2>1. /\ nextSequence \in [Connection -> 0 .. MaxSequence] /\ 0 \in 0 .. MaxSequence
        /\ consumed \in [Connection -> Nat]
    BY DEF QueueInv, QueueTypeOK
  <2>2. /\ nextSequence' = [nextSequence EXCEPT ![c] = 0] /\ consumed' = [consumed EXCEPT ![c] = 0]
        /\ UNCHANGED drainVars
    BY DEF RemoveConnection, ForgetConnection
  <2>3. nextSequence' \in [Connection -> 0 .. MaxSequence] /\ consumed' \in [Connection -> Nat]
    BY <2>1, <2>2
  <2> QED BY <1>3, <1>4, <2>2, <2>3 DEF QueueInv, QueueTypeOK, Queues, drainVars
<1> QED BY <1>3, <1>4, <1>5 DEF QueueInv, LenIsAccurate, Slots, SlotsOf

(* What a drain knows of itself between two iterations: it starts from     *)
(* nothing, a connection still to be visited in this round has an input,   *)
(* and the inputs left to take are there to be taken.                      *)
RoundInv ==
  /\ ~draining => drained = <<>> /\ round = {} /\ served = [c \in Connection |-> 0]
  /\ round \subseteq Ready
  /\ draining => Len(drained) <= target /\ target - Len(drained) <= len

(* The lowest ConnectionId of a non-empty set is one of its members.        *)
LEMMA LowestIsMember ==
  ASSUME NEW S \in SUBSET Connection, S # {}
  PROVE  Lowest(S) \in S /\ \A d \in S : Lowest(S) <= d
<1>1. S \subseteq Nat
  BY InputQueueAssumption
<1> DEFINE Less == {ss \in Nat \X Nat : ss[1] < ss[2]}
<1>2. IsWellFoundedOn(Less, Nat)
  BY NatLessThanWellFounded DEF OpToRel
<1> HIDE DEF Less
<1>3. PICK m \in S : \A y \in S : ~ (<<y, m>> \in Less)
  BY <1>1, <1>2, WFMin
<1>4. ASSUME NEW y \in S PROVE m <= y
  <2>1. y \in Nat /\ m \in Nat /\ <<y, m>> \notin Less
    BY <1>1, <1>3
  <2>2. ~ (y < m)
    BY <2>1 DEF Less
  <2> QED BY <2>1, <2>2
<1> QED BY <1>4 DEF Lowest

(* Taking one input of the lowest connection preserves both invariants.    *)
LEMMA VisitPreserves ==
  ASSUME QueueInv, RoundInv, Visit
  PROVE  QueueInv' /\ RoundInv'
<1> USE InputQueueAssumption
<1> DEFINE c == Lowest(round)
<1>1. c \in round /\ c \in Connection /\ pending[c] # <<>>
  BY LowestIsMember DEF Visit, QueueInv, QueueTypeOK, RoundInv, Ready
<1>2. /\ draining
      /\ Len(drained) < target
      /\ drained' = Append(drained, Head(pending[c]))
      /\ pending' = [pending EXCEPT ![c] = Tail(@)]
      /\ round' = round \ {c}
      /\ served' = [served EXCEPT ![c] = @ + 1]
      /\ consumed' = [consumed EXCEPT ![c] = @ + 1]
      /\ len' = len - 1
      /\ UNCHANGED <<nextSequence, draining, target>>
  BY DEF Visit, StillToVisit
<1> HIDE DEF c
<1>3. pending \in Queues
  BY DEF QueueInv, QueueTypeOK, Queues
<1>4. /\ pending' \in Queues
      /\ SlotsOf(pending') = SlotsOf(pending) \ {<<c, Len(pending[c])>>}
      /\ <<c, Len(pending[c])>> \in SlotsOf(pending)
  BY <1>1, <1>2, <1>3, SlotsTail
<1>5. IsFiniteSet(SlotsOf(pending)) /\ len = Cardinality(SlotsOf(pending))
  BY DEF QueueInv, LenIsAccurate, Slots, SlotsOf
<1> DEFINE last == <<c, Len(pending[c])>>
<1>6. IsFiniteSet(SlotsOf(pending')) /\ Cardinality(SlotsOf(pending')) = len - 1
  <2> HIDE DEF last
  <2>1. SlotsOf(pending') = SlotsOf(pending) \ {last} /\ last \in SlotsOf(pending)
    BY <1>4 DEF last
  <2> QED BY <1>5, <2>1, FS_RemoveElement
<1>7. len \in 0 .. QueueCapacity /\ len - 1 \in Nat
  BY <1>6, FS_CardinalityType DEF QueueInv, QueueTypeOK
<1>8. Head(pending[c]) \in Envelope /\ drained \in Seq(Envelope)
  BY <1>1, <1>3, HeadTailProperties DEF Queues, QueueInv, QueueTypeOK
<1>9. drained' \in Seq(Envelope) /\ Len(drained') = Len(drained) + 1 /\ Len(drained) \in Nat
  BY <1>2, <1>8
<1>10. QueueTypeOK'
  <2>1. pending' \in [Connection -> Seq(Envelope)] /\ len' \in 0 .. QueueCapacity
    BY <1>2, <1>4, <1>7 DEF Queues
  <2>2. served \in [Connection -> Nat] /\ consumed \in [Connection -> Nat]
    BY DEF QueueInv, QueueTypeOK
  <2>3. served' \in [Connection -> Nat]
    BY <1>1, <1>2, <2>2
  <2>4. consumed' \in [Connection -> Nat]
    BY <1>1, <1>2, <2>2
  <2> QED BY <1>2, <1>9, <2>1, <2>3, <2>4 DEF QueueInv, QueueTypeOK
<1>11. QueueInv'
  BY <1>2, <1>6, <1>10 DEF QueueInv, LenIsAccurate, Slots, SlotsOf
<1>12. round' \subseteq Ready'
  <2>1. \A d \in Connection : d # c => pending'[d] = pending[d]
    BY <1>2, <1>3 DEF Queues
  <2> QED BY <1>2, <2>1 DEF RoundInv, Ready
<1>13. Len(drained') <= target' /\ target' - Len(drained') <= len'
  BY <1>2, <1>7, <1>9 DEF RoundInv, QueueInv, QueueTypeOK
<1> QED BY <1>2, <1>11, <1>12, <1>13 DEF RoundInv

(* The steps of drain_tick that take no input leave the FIFOs alone.       *)
LEMMA DrainControlPreserves ==
  ASSUME QueueInv, RoundInv,
         (\E max \in DrainLimit : BeginDrain(max)) \/ BeginRound \/ EndDrain
  PROVE  QueueInv' /\ RoundInv'
<1> USE InputQueueAssumption
<1>1. pending' = pending /\ nextSequence' = nextSequence /\ len' = len /\ consumed' = consumed
  BY DEF BeginDrain, BeginRound, EndDrain, queueVars
<1>2. Slots' = Slots /\ Ready' = Ready
  BY <1>1 DEF Slots, Ready
<1>3. QueueTypeOK => QueueTypeOK'
  <2> SUFFICES ASSUME QueueTypeOK PROVE QueueTypeOK'
    OBVIOUS
  <2>1. CASE \E max \in DrainLimit : BeginDrain(max)
    <3>1. PICK max \in DrainLimit : BeginDrain(max)
      BY <2>1
    <3>2. target' \in 0 .. QueueCapacity
      BY <3>1 DEF BeginDrain, DrainTarget, QueueTypeOK
    <3> QED BY <1>1, <3>1, <3>2 DEF BeginDrain, QueueTypeOK
  <2>2. CASE BeginRound
    BY <1>1, <2>2 DEF BeginRound, QueueTypeOK, Ready
  <2>3. CASE EndDrain
    <3>1. target' \in 0 .. QueueCapacity /\ served' \in [Connection -> Nat]
      BY <2>3 DEF EndDrain
    <3>2. drained' \in Seq(Envelope)
      BY <2>3, EmptySeq, Zenon DEF EndDrain
    <3> QED BY <1>1, <2>3, <3>1, <3>2 DEF EndDrain, QueueTypeOK
  <2> QED BY <2>1, <2>2, <2>3
<1>4. QueueInv'
  BY <1>1, <1>2, <1>3 DEF QueueInv, LenIsAccurate
<1>5. RoundInv'
  <2>1. CASE \E max \in DrainLimit : BeginDrain(max)
    <3>1. PICK max \in DrainLimit : BeginDrain(max)
      BY <2>1
    <3>2. drained' = <<>> /\ Len(drained') = 0 /\ target' <= len /\ target' \in Nat
      BY <3>1 DEF BeginDrain, DrainTarget, QueueInv, QueueTypeOK, RoundInv
    <3> QED BY <1>1, <1>2, <3>1, <3>2 DEF BeginDrain, RoundInv
  <2>2. CASE BeginRound
    BY <1>1, <1>2, <2>2 DEF BeginRound, RoundInv
  <2>3. CASE EndDrain
    BY <1>1, <1>2, <2>3 DEF EndDrain, RoundInv
  <2> QED BY <2>1, <2>2, <2>3
<1> QED BY <1>4, <1>5

(* The inductive invariant of the queue and of its drain loop.             *)
LEMMA QueueInductive ==
  QueueSpec => [](QueueInv /\ RoundInv)
<1> USE InputQueueAssumption
<1>1. QueueInit => QueueInv /\ RoundInv
  <2> SUFFICES ASSUME QueueInit PROVE QueueInv /\ RoundInv
    OBVIOUS
  <2>1. Slots = {}
    BY DEF QueueInit, Slots
  <2>2. QueueTypeOK
    <3>1. <<>> \in Seq(Envelope)
      BY EmptySeq
    <3>2. pending \in [Connection -> Seq(Envelope)] /\ drained \in Seq(Envelope)
      BY <3>1, Zenon DEF QueueInit
    <3>3. nextSequence \in [Connection -> 0 .. MaxSequence]
      BY DEF QueueInit
    <3>4. served \in [Connection -> Nat] /\ consumed \in [Connection -> Nat]
      BY DEF QueueInit
    <3>5. len \in 0 .. QueueCapacity /\ target \in 0 .. QueueCapacity
      BY DEF QueueInit
    <3> QED BY <3>2, <3>3, <3>4, <3>5 DEF QueueInit, QueueTypeOK
  <2>3. RoundInv
    BY DEF QueueInit, RoundInv
  <2> QED BY <2>1, <2>2, <2>3, FS_EmptySet DEF QueueInv, LenIsAccurate, QueueInit
<1>2. QueueInv /\ RoundInv /\ [QueueNext]_inputVars => QueueInv' /\ RoundInv'
  <2> SUFFICES ASSUME QueueInv, RoundInv, [QueueNext]_inputVars
               PROVE  QueueInv' /\ RoundInv'
    OBVIOUS
  <2>1. ASSUME NEW c \in Connection, ~draining, RemoveConnection(c)
        PROVE  QueueInv' /\ RoundInv'
    BY <2>1, RemovePreserves DEF RoundInv, RemoveConnection, drainVars
  <2>2. ASSUME NEW c \in Connection, NEW p \in Payload, ~draining, Push(c, p)
        PROVE  QueueInv' /\ RoundInv'
    BY <2>2, PushPreserves DEF RoundInv, Push, drainVars
  <2>3. CASE Visit
    BY <2>3, VisitPreserves
  <2>4. CASE (\E max \in DrainLimit : BeginDrain(max)) \/ BeginRound \/ EndDrain
    BY <2>4, DrainControlPreserves
  <2>5. CASE UNCHANGED inputVars
    BY <2>5 DEF inputVars, QueueInv, RoundInv, QueueTypeOK, LenIsAccurate, Slots, Ready
  <2> QED BY <2>1, <2>2, <2>3, <2>4, <2>5 DEF QueueNext, DrainStep
<1> QED BY <1>1, <1>2, PTL DEF QueueSpec

(* Every reachable state of the queue is well typed: the capacity holds    *)
(* and no counter leaves its range, at any capacity.                       *)
THEOREM QueueTypeCorrect == QueueSpec => []QueueTypeOK
<1>1. QueueInv => QueueTypeOK
  BY DEF QueueInv
<1> QED BY <1>1, QueueInductive, PTL

(* len is the number of queued inputs in every reachable state.            *)
THEOREM LenAccounting == QueueSpec => []LenIsAccurate
<1>1. QueueInv => LenIsAccurate
  BY DEF QueueInv
<1> QED BY <1>1, QueueInductive, PTL

(* An input that push accepted is taken once, in order, with no gap in its *)
(* connection's sequence numbers, unless the connection is removed.        *)
THEOREM SequenceNumbering == QueueSpec => []SequencesContiguous
<1> USE InputQueueAssumption
<1>1. QueueInit => SequencesContiguous
  BY DEF QueueInit, SequencesContiguous, Numbered
<1>2. QueueTypeOK /\ RoundInv /\ SequencesContiguous /\ [QueueNext]_inputVars
        => SequencesContiguous'
  <2> SUFFICES ASSUME QueueTypeOK, RoundInv, SequencesContiguous, [QueueNext]_inputVars,
                      NEW c \in Connection
               PROVE  Numbered(c)'
    BY DEF SequencesContiguous
  <2>1. /\ nextSequence[c] = consumed[c] + Len(pending[c])
        /\ \A i \in 1 .. Len(pending[c]) :
             /\ pending[c][i].connection = c
             /\ pending[c][i].sequence = consumed[c] + i - 1
    BY DEF SequencesContiguous, Numbered
  <2>2. /\ pending[c] \in Seq(Envelope) /\ Len(pending[c]) \in Nat
        /\ consumed[c] \in Nat /\ nextSequence[c] \in Nat
    BY DEF QueueTypeOK
  <2>3. ASSUME NEW d \in Connection, RemoveConnection(d)
        PROVE  Numbered(c)'
    <3>1. CASE d = c
      BY <2>3, <3>1 DEF RemoveConnection, ForgetConnection, QueueTypeOK, Numbered
    <3>2. CASE d # c
      BY <2>1, <2>2, <2>3, <3>2 DEF RemoveConnection, ForgetConnection, QueueTypeOK, Numbered
    <3> QED BY <3>1, <3>2
  <2>4. ASSUME NEW d \in Connection, NEW p \in Payload, Push(d, p)
        PROVE  Numbered(c)'
    <3> DEFINE e == [connection |-> d, sequence |-> nextSequence[d], payload |-> p]
    <3>1. CASE d = c
      <4>1. /\ pending'[c] = Append(pending[c], e)
            /\ nextSequence'[c] = nextSequence[c] + 1
            /\ consumed'[c] = consumed[c]
        BY <2>4, <3>1 DEF Push, QueueTypeOK
      <4>2. e.connection = c /\ e.sequence = consumed[c] + Len(pending[c])
        BY <2>1, <3>1
      <4> HIDE DEF e
      <4>3. /\ Len(pending'[c]) = Len(pending[c]) + 1
            /\ pending'[c][Len(pending[c]) + 1] = e
            /\ \A i \in 1 .. Len(pending[c]) : pending'[c][i] = pending[c][i]
        BY <2>2, <4>1
      <4>4. nextSequence'[c] = consumed'[c] + Len(pending'[c])
        BY <2>1, <2>2, <4>1, <4>3
      <4>5. ASSUME NEW i \in 1 .. Len(pending'[c])
            PROVE  pending'[c][i].connection = c /\ pending'[c][i].sequence = consumed'[c] + i - 1
        <5>1. CASE i = Len(pending[c]) + 1
          BY <2>2, <4>1, <4>2, <4>3, <5>1
        <5>2. CASE i # Len(pending[c]) + 1
          <6>1. i \in 1 .. Len(pending[c])
            BY <2>2, <4>3, <5>2
          <6> QED BY <2>1, <4>1, <4>3, <6>1
        <5> QED BY <5>1, <5>2
      <4> QED BY <4>4, <4>5 DEF Numbered
    <3>2. CASE d # c
      BY <2>1, <2>2, <2>4, <3>2 DEF Push, QueueTypeOK, Numbered
    <3> QED BY <3>1, <3>2
  <2>5. CASE Visit
    <3> DEFINE d == Lowest(round)
    <3>1. d \in round /\ d \in Connection /\ pending[d] # <<>>
      BY <2>5, LowestIsMember DEF Visit, QueueTypeOK, RoundInv, Ready
    <3>2. /\ pending' = [pending EXCEPT ![d] = Tail(@)]
          /\ consumed' = [consumed EXCEPT ![d] = @ + 1]
          /\ nextSequence' = nextSequence
      BY <2>5 DEF Visit
    <3> HIDE DEF d
    <3>3. CASE d = c
      <4>1. pending'[c] = Tail(pending[c]) /\ consumed'[c] = consumed[c] + 1
        BY <3>2, <3>3 DEF QueueTypeOK
      <4>2. /\ Len(pending'[c]) = Len(pending[c]) - 1
            /\ \A i \in 1 .. Len(pending'[c]) : pending'[c][i] = pending[c][i + 1]
        BY <2>2, <3>1, <3>3, <4>1, HeadTailProperties
      <4>3. nextSequence'[c] = consumed'[c] + Len(pending'[c])
        BY <2>1, <2>2, <3>2, <4>1, <4>2
      <4>4. ASSUME NEW i \in 1 .. Len(pending'[c])
            PROVE  pending'[c][i].connection = c /\ pending'[c][i].sequence = consumed'[c] + i - 1
        <5>1. i + 1 \in 1 .. Len(pending[c]) /\ i \in Nat
          BY <2>2, <4>2
        <5> QED BY <2>1, <2>2, <4>1, <4>2, <5>1
      <4> QED BY <4>3, <4>4 DEF Numbered
    <3>4. CASE d # c
      BY <2>1, <2>2, <3>2, <3>4 DEF QueueTypeOK, Numbered
    <3> QED BY <3>3, <3>4
  <2>6. CASE (\E max \in DrainLimit : BeginDrain(max)) \/ BeginRound \/ EndDrain
    BY <2>1, <2>6 DEF BeginDrain, BeginRound, EndDrain, queueVars, Numbered
  <2>7. CASE UNCHANGED inputVars
    BY <2>1, <2>7 DEF inputVars, Numbered
  <2> QED BY <2>3, <2>4, <2>5, <2>6, <2>7 DEF QueueNext, DrainStep
<1>3. QueueInv /\ RoundInv => QueueTypeOK /\ RoundInv
  BY DEF QueueInv
<1> QED BY <1>1, <1>2, <1>3, QueueInductive, PTL DEF QueueSpec

(* After k rounds, a connection yet to be visited has been served k - 1    *)
(* times, and one that was passed over k times or until it ran dry.        *)
Level(k) ==
  \A c \in Connection :
    /\ c \in round => served[c] = k - 1
    /\ c \notin round => served[c] = k \/ (served[c] <= k /\ pending[c] = <<>>)

FairInv == draining => \E k \in Nat : Level(k)

(* drain_tick is fair at every moment of every drain, for any number of    *)
(* connections and any budget.                                             *)
THEOREM DrainIsFair == QueueSpec => []FairShare
<1> USE InputQueueAssumption
<1>1. QueueInit => FairInv
  BY DEF QueueInit, FairInv
<1>2. QueueTypeOK /\ RoundInv /\ FairInv /\ [QueueNext]_inputVars => FairInv'
  <2> SUFFICES ASSUME QueueTypeOK, RoundInv, FairInv, [QueueNext]_inputVars, draining'
               PROVE  \E k \in Nat : Level(k)'
    BY DEF FairInv
  <2>0. served \in [Connection -> Nat] /\ pending \in [Connection -> Seq(Envelope)]
    BY DEF QueueTypeOK
  <2>1. ASSUME NEW max \in DrainLimit, BeginDrain(max)
        PROVE  \E k \in Nat : Level(k)'
    <3>1. round' = {} /\ served' = [c \in Connection |-> 0]
      BY <2>1 DEF BeginDrain, RoundInv
    <3>2. Level(0)'
      BY <3>1 DEF Level
    <3> QED BY <3>2
  <2>2. CASE BeginRound
    <3>1. PICK k \in Nat : Level(k)
      BY <2>2 DEF FairInv, BeginRound
    <3>2. /\ round = {} /\ round' = {c \in Connection : pending[c] # <<>>}
          /\ served' = served /\ pending' = pending
      BY <2>2 DEF BeginRound, Ready, queueVars
    <3>3. Level(k + 1)'
      BY <2>0, <3>1, <3>2 DEF Level
    <3> QED BY <3>3
  <2>3. CASE Visit
    <3>1. PICK k \in Nat : Level(k)
      BY <2>3 DEF FairInv, Visit
    <3> DEFINE d == Lowest(round)
    <3>2. d \in round /\ d \in Connection
      BY <2>3, LowestIsMember DEF Visit, QueueTypeOK
    <3>3. /\ pending' = [pending EXCEPT ![d] = Tail(@)]
          /\ served' = [served EXCEPT ![d] = @ + 1]
          /\ round' = round \ {d}
      BY <2>3 DEF Visit, StillToVisit
    <3> HIDE DEF d
    <3>4. ASSUME NEW c \in Connection
          PROVE  /\ c \in round' => served'[c] = k - 1
                 /\ c \notin round' => served'[c] = k \/ (served'[c] <= k /\ pending'[c] = <<>>)
      <4>1. CASE c = d
        <5>1. served[c] = k - 1 /\ served'[c] = served[c] + 1
          BY <2>0, <3>1, <3>2, <3>3, <4>1 DEF Level
        <5> QED BY <3>1, <3>3, <4>1, <5>1
      <4>2. CASE c # d
        <5>1. served'[c] = served[c] /\ pending'[c] = pending[c] /\ (c \in round' <=> c \in round)
          BY <2>0, <3>3, <4>2
        <5> QED BY <3>1, <5>1 DEF Level
      <4> QED BY <4>1, <4>2
    <3>5. Level(k)'
      BY <3>4 DEF Level
    <3> QED BY <3>5
  <2>4. CASE EndDrain \/ UNCHANGED inputVars
    BY <2>4 DEF EndDrain, inputVars, FairInv, Level
  <2>5. ASSUME NEW c \in Connection, ~draining,
               RemoveConnection(c) \/ \E p \in Payload : Push(c, p)
        PROVE  FALSE
    BY <2>5 DEF RemoveConnection, Push, drainVars
  <2> QED BY <2>1, <2>2, <2>3, <2>4, <2>5 DEF QueueNext, DrainStep
<1>3. QueueTypeOK /\ FairInv => FairShare
  <2> SUFFICES ASSUME QueueTypeOK, FairInv, draining,
                      NEW c \in Connection, NEW d \in Connection, pending[d] # <<>>
               PROVE  served[c] <= served[d] + 1
    BY DEF FairShare
  <2>1. PICK k \in Nat : Level(k)
    BY DEF FairInv
  <2>2. served[c] \in Nat /\ served[d] \in Nat
    BY DEF QueueTypeOK
  <2>3. served[c] <= k /\ (served[d] = k - 1 \/ served[d] = k)
    BY <2>1, <2>2 DEF Level
  <2> QED BY <2>1, <2>2, <2>3
<1>4. QueueInv /\ RoundInv => QueueTypeOK /\ RoundInv
  BY DEF QueueInv
<1> QED BY <1>1, <1>2, <1>3, <1>4, QueueInductive, PTL DEF QueueSpec

(* Types, capacity accounting and numbering of the queue hold together.    *)
THEOREM QueueIsCorrect == QueueSpec => []QueueIsSound
<1> QED BY QueueTypeCorrect, LenAccounting, SequenceNumbering, PTL DEF QueueIsSound

(* A drain ends with exactly min(max_events, len) inputs in its vector.    *)
THEOREM DrainDelivers == QueueSpec => DrainMeetsTarget
<1>1. QueueInv /\ RoundInv /\ [QueueNext]_inputVars => [EndDrain => Len(drained) = target]_inputVars
  <2> SUFFICES ASSUME QueueInv, RoundInv, EndDrain
               PROVE  Len(drained) = target
    OBVIOUS
  <2>1. Len(drained) \in Nat /\ target \in Nat /\ len \in Nat
    BY InputQueueAssumption DEF QueueInv, QueueTypeOK
  <2>2. Len(drained) <= target /\ target - Len(drained) <= len
    BY DEF EndDrain, RoundInv
  <2>3. CASE Len(drained) >= target
    BY <2>1, <2>2, <2>3
  <2>4. CASE Ready = {}
    <3>1. \A c \in Connection : pending[c] = <<>>
      BY <2>4 DEF Ready
    <3>2. Slots = {}
      BY <3>1 DEF Slots
    <3>3. len = 0
      BY <3>2, FS_EmptySet DEF QueueInv, LenIsAccurate
    <3> QED BY <2>1, <2>2, <3>3
  <2> QED BY <2>3, <2>4 DEF EndDrain
<1> QED BY <1>1, QueueInductive, PTL DEF QueueSpec, DrainMeetsTarget

(***************************************************************************)
(* The worker hub, for any number of workers and any capacities: the hub   *)
(* refines the queue it owns, its reports balance, and inputs revoked by a *)
(* disconnect or a replacement never come back.                            *)
(***************************************************************************)

(* What the owner relies on when it takes a command out of the channel.    *)
CommandsOK ==
  /\ commands \in Seq(Command)
  /\ submitted \in [Worker -> 0 .. MaxInputs]

(* The parts of a command and of the messages the workers submit.          *)
LEMMA CommandParts ==
  ASSUME NEW m \in Command
  PROVE  /\ m.worker \in Worker
         /\ m.type = "Input" => m.n \in 1 .. MaxInputs
BY DEF Command, Register, Input, Output, Disconnect

(* The command a handler takes comes from a worker of a known connection.  *)
LEMMA TakenCommand ==
  ASSUME CommandsOK, NEW type, Take(type)
  PROVE  /\ Head(commands) \in Command
         /\ commands' \in Seq(Command)
         /\ Sender \in Worker
         /\ Id \in Connection
<1>1. commands \in Seq(Command) /\ commands # <<>> /\ commands' = Tail(commands)
  BY DEF CommandsOK, Take
<1>2. Head(commands) \in Command /\ commands' \in Seq(Command)
  BY <1>1, HeadTailProperties
<1>3. Sender \in Worker
  BY <1>2, CommandParts DEF Sender
<1> QED BY <1>2, <1>3, WorkerHubAssumption DEF Id

(* Every step of a worker and of the owner preserves CommandsOK.           *)
LEMMA CommandsPreserved ==
  ASSUME CommandsOK, [HubNext]_vars
  PROVE  CommandsOK'
<1> USE WorkerHubAssumption
<1>1. ASSUME NEW m \in Command, Submit(m)
      PROVE  commands' \in Seq(Command)
  BY <1>1, AppendProperties DEF CommandsOK, Submit
<1>2. CASE Ingest
  <2>1. commands' \in Seq(Command)
    BY <1>2, TakenCommand DEF Ingest, IngestRegister, IngestInput, IngestOutput, IngestDisconnect
  <2>2. submitted' = submitted
    BY <1>2 DEF Ingest, IngestRegister, IngestInput, IngestOutput, IngestDisconnect
  <2> QED BY <2>1, <2>2 DEF CommandsOK
<1>3. CASE DropRuntime
  <2>1. <<>> \in Seq(Command)
    BY EmptySeq
  <2> QED BY <1>3, <2>1 DEF CommandsOK, DropRuntime
<1>4. CASE Drain \/ Broadcast \/ \E c \in Connection : SendOutput(c)
  BY <1>4 DEF CommandsOK, Drain, Broadcast, SendOutput, workerVars
<1>5. ASSUME NEW w \in Worker, WorkerNext(w)
      PROVE  CommandsOK'
  <2>1. CASE TryConnect(w)
    <3>1. Register(w) \in Command
      BY DEF Command
    <3> QED BY <1>1, <2>1, <3>1 DEF CommandsOK, TryConnect
  <2>2. CASE TrySendInput(w)
    <3>1. submitted[w] + 1 \in 1 .. MaxInputs /\ submitted' \in [Worker -> 0 .. MaxInputs]
      BY <2>2 DEF CommandsOK, TrySendInput
    <3>2. Input(w, submitted[w] + 1) \in Command
      BY <3>1 DEF Command
    <3> QED BY <1>1, <2>2, <3>1, <3>2 DEF CommandsOK, TrySendInput
  <2>3. CASE TrySendOutput(w)
    <3>1. Output(w) \in Command
      BY DEF Command
    <3> QED BY <1>1, <2>3, <3>1 DEF CommandsOK, TrySendOutput
  <2>4. CASE TryDisconnect(w)
    <3>1. Disconnect(w) \in Command
      BY DEF Command
    <3> QED BY <1>1, <2>4, <3>1 DEF CommandsOK, TryDisconnect
  <2>5. CASE TryRecvOutput(w) \/ DropReceiver(w)
    BY <2>5 DEF CommandsOK, TryRecvOutput, DropReceiver
  <2> QED BY <1>5, <2>1, <2>2, <2>3, <2>4, <2>5 DEF WorkerNext
<1>6. CASE UNCHANGED vars
  BY <1>6 DEF vars, hubVars, CommandsOK
<1> QED BY <1>2, <1>3, <1>4, <1>5, <1>6 DEF HubNext, OwnerNext

(* Each step of the hub is a step of the queue or leaves the queue alone.  *)
LEMMA HubStepIsQueueStep ==
  ASSUME CommandsOK, [HubNext]_vars
  PROVE  [QueueNext]_inputVars
<1> USE WorkerHubAssumption
<1>1. ASSUME NEW c \in Connection, RemoveInputs(c), ~draining
      PROVE  QueueNext
  BY <1>1 DEF RemoveInputs, QueueNext
<1>2. CASE IngestRegister
  <2>1. Id \in Connection /\ ~draining
    BY <1>2, TakenCommand DEF IngestRegister, Take
  <2> QED BY <1>1, <1>2, <2>1 DEF IngestRegister
<1>3. CASE IngestInput
  <2>1. Take("Input")
    BY <1>3 DEF IngestInput
  <2>2. Head(commands) \in Command /\ Sender \in Worker /\ Id \in Connection /\ ~draining
    BY <2>1, TakenCommand DEF Take
  <2>3. Head(commands).n \in 1 .. MaxInputs
    BY <2>1, <2>2, CommandParts DEF Take
  <2> DEFINE p == [worker |-> Sender, n |-> Head(commands).n]
  <2>4. p \in Payload
    BY <2>2, <2>3
  <2> HIDE DEF p
  <2>5. Push(Id, p) \/ UNCHANGED inputVars
    BY <1>3 DEF IngestInput, p
  <2> QED BY <2>2, <2>4, <2>5 DEF QueueNext
<1>4. CASE IngestOutput
  BY <1>4 DEF IngestOutput
<1>5. CASE IngestDisconnect
  <2>1. Id \in Connection /\ ~draining /\ RemoveInputs(Id)
    BY <1>5, TakenCommand DEF IngestDisconnect, Take
  <2> QED BY <1>1, <2>1
<1>6. CASE Drain
  BY <1>6 DEF Drain, QueueNext
<1>7. CASE Broadcast \/ DropRuntime \/ \E c \in Connection : SendOutput(c)
  BY <1>7 DEF Broadcast, DropRuntime, SendOutput
<1>8. ASSUME NEW w \in Worker, WorkerNext(w)
      PROVE  UNCHANGED inputVars
  BY <1>8 DEF WorkerNext, TryConnect, TrySendInput, TrySendOutput, TryDisconnect,
              TryRecvOutput, DropReceiver
<1>9. CASE UNCHANGED vars
  BY <1>9 DEF vars
<1> QED BY <1>2, <1>3, <1>4, <1>5, <1>6, <1>7, <1>8, <1>9 DEF HubNext, OwnerNext, Ingest

(* CommandsOK holds in every reachable state.                              *)
LEMMA CommandsInvariant == HubSpec => []CommandsOK
<1>1. HubInit => CommandsOK
  <2> SUFFICES ASSUME HubInit PROVE CommandsOK
    OBVIOUS
  <2>1. <<>> \in Seq(Command)
    BY EmptySeq
  <2>2. submitted \in [Worker -> 0 .. MaxInputs]
    BY WorkerHubAssumption DEF HubInit
  <2> QED BY <2>1, <2>2 DEF HubInit, CommandsOK
<1>2. CommandsOK /\ [HubNext]_vars => CommandsOK'
  BY CommandsPreserved
<1> QED BY <1>1, <1>2, PTL DEF HubSpec

(* The hub implements the specification of its input queue.                *)
THEOREM HubRefinesQueue == HubSpec => UsesQueue
<1>1. HubInit => QueueInit
  BY DEF HubInit
<1>2. CommandsOK /\ [HubNext]_vars => [QueueNext]_inputVars
  BY HubStepIsQueueStep
<1> QED BY <1>1, <1>2, CommandsInvariant, PTL DEF HubSpec, UsesQueue, QueueSpec

(* Inside the hub, too, the queue is well typed and its counter is exact.  *)
LEMMA QueueInHub == HubSpec => [](QueueTypeOK /\ LenIsAccurate)
  BY HubRefinesQueue, QueueTypeCorrect, LenAccounting, PTL DEF UsesQueue

(* Every input reported as accepted is accounted for: handed to a tick,    *)
(* reported as removed, or still queued, for any capacities and workers.   *)
THEOREM IngressBalances == HubSpec => []IngressBalance
<1> USE InputQueueAssumption, WorkerHubAssumption
<1>1. HubInit => IngressBalance
  BY DEF HubInit, QueueInit, IngressBalance
<1>2. CommandsOK /\ QueueTypeOK /\ QueueTypeOK' /\ IngressBalance /\ [HubNext]_vars
        => IngressBalance'
  <2> SUFFICES ASSUME CommandsOK, QueueTypeOK, QueueTypeOK', unsettled = len, [HubNext]_vars
               PROVE  unsettled' = len'
    BY DEF IngressBalance
  <2>1. len \in Nat /\ len' \in Nat
    BY DEF QueueTypeOK
  <2>2. ASSUME NEW c \in Connection, RemoveInputs(c)
        PROVE  unsettled' = len'
    BY <2>2 DEF RemoveInputs, RemoveConnection, ForgetConnection
  <2>3. CASE IngestRegister
    <3>1. Id \in Connection
      BY <2>3, TakenCommand DEF IngestRegister
    <3>2. RemoveInputs(Id) \/ UNCHANGED <<inputVars, unsettled, revoked>>
      BY <2>3 DEF IngestRegister
    <3>3. CASE UNCHANGED <<inputVars, unsettled, revoked>>
      BY <3>3 DEF inputVars
    <3> QED BY <2>2, <3>1, <3>2, <3>3
  <2>4. CASE IngestInput
    <3> DEFINE p == [worker |-> Sender, n |-> Head(commands).n]
    <3>1. \/ Push(Id, p) /\ unsettled' = unsettled + 1
          \/ UNCHANGED <<inputVars, unsettled>>
      BY <2>4 DEF IngestInput
    <3> HIDE DEF p
    <3> QED BY <3>1 DEF Push, inputVars
  <2>5. CASE IngestDisconnect
    <3>1. Id \in Connection
      BY <2>5, TakenCommand DEF IngestDisconnect
    <3> QED BY <2>2, <2>5, <3>1 DEF IngestDisconnect
  <2>6. CASE Drain
    <3>1. unsettled' = unsettled - (len - len')
      BY <2>6, Zenon DEF Drain
    <3>2. unsettled' = len - (len - len')
      BY <3>1, Zenon
    <3>3. \A i, j \in Nat : i - (i - j) = j
      OBVIOUS
    <3> QED BY <2>1, <3>2, <3>3
  <2>7. CASE IngestOutput \/ Broadcast \/ DropRuntime \/ \E c \in Connection : SendOutput(c)
    BY <2>7 DEF IngestOutput, Broadcast, DropRuntime, SendOutput, inputVars, reportVars
  <2>8. ASSUME NEW w \in Worker, WorkerNext(w)
        PROVE  unsettled' = len'
    BY <2>8 DEF WorkerNext, TryConnect, TrySendInput, TrySendOutput, TryDisconnect,
                TryRecvOutput, DropReceiver, inputVars, reportVars
  <2>9. CASE UNCHANGED vars
    BY <2>9 DEF vars, hubVars, inputVars
  <2> QED BY <2>3, <2>4, <2>5, <2>6, <2>7, <2>8, <2>9 DEF HubNext, OwnerNext, Ingest
<1> QED BY <1>1, <1>2, CommandsInvariant, QueueInHub, PTL DEF HubSpec

-----------------------------------------------------------------------------
(* The inputs in the channel are newer than the ones the owner has         *)
(* ingested, and follow each other in the order they were submitted.       *)
ChannelOrder ==
  /\ ingested \in [Worker -> Nat]
  /\ \A w \in Worker : ingested[w] <= submitted[w]
  /\ \A i \in 1 .. Len(commands) :
       commands[i].type = "Input" =>
         /\ ingested[commands[i].worker] < commands[i].n
         /\ commands[i].n <= submitted[commands[i].worker]
  /\ \A i, j \in 1 .. Len(commands) :
       /\ i < j
       /\ commands[i].type = "Input" /\ commands[j].type = "Input"
       /\ commands[i].worker = commands[j].worker
       => commands[i].n < commands[j].n

(* Taking the oldest command out of the channel keeps the order of the     *)
(* others; an input that is taken becomes the last one ingested.           *)
LEMMA TakeKeepsOrder ==
  ASSUME CommandsOK, ChannelOrder, NEW type, Take(type), submitted' = submitted,
         \/ type # "Input" /\ ingested' = ingested
         \/ type = "Input" /\ ingested' = [ingested EXCEPT ![Sender] = Head(commands).n]
  PROVE  ChannelOrder'
<1>1. /\ commands \in Seq(Command) /\ commands # <<>> /\ commands' = Tail(commands)
      /\ Head(commands) = commands[1] /\ commands[1].type = type
  BY HeadTailProperties DEF CommandsOK, Take
<1>2. /\ Len(commands) \in Nat \ {0}
      /\ Len(commands') = Len(commands) - 1
      /\ \A i \in 1 .. Len(commands') :
           commands'[i] = commands[i + 1] /\ i + 1 \in 2 .. Len(commands)
  BY <1>1, HeadTailProperties, EmptySeq
<1>3. \A i \in 1 .. Len(commands) :
        /\ commands[i].worker \in Worker
        /\ commands[i].type = "Input" => commands[i].n \in Nat
  BY <1>1, CommandParts
<1>4. Sender \in Worker /\ Sender = commands[1].worker
  BY <1>1, <1>2, <1>3 DEF Sender
<1>5. submitted \in [Worker -> Nat]
  BY WorkerHubAssumption DEF CommandsOK
<1>6. ingested' \in [Worker -> Nat] /\ \A w \in Worker : ingested'[w] <= submitted'[w]
  <2>1. CASE type # "Input"
    BY <2>1 DEF ChannelOrder
  <2>2. CASE type = "Input"
    <3>1. 1 \in 1 .. Len(commands)
      BY <1>2
    <3>2. commands[1].n \in Nat /\ commands[1].n <= submitted[Sender]
      BY <1>1, <1>3, <1>4, <2>2, <3>1 DEF ChannelOrder
    <3>3. ingested' = [ingested EXCEPT ![Sender] = commands[1].n]
      BY <1>1, <2>2
    <3> QED BY <1>4, <3>2, <3>3 DEF ChannelOrder
  <2> QED BY <2>1, <2>2
<1>7. ASSUME NEW i \in 1 .. Len(commands'), commands'[i].type = "Input"
      PROVE  /\ ingested'[commands'[i].worker] < commands'[i].n
             /\ commands'[i].n <= submitted'[commands'[i].worker]
  <2>1. i + 1 \in 1 .. Len(commands) /\ 1 \in 1 .. Len(commands) /\ 1 < i + 1
    BY <1>2
  <2>2. commands'[i] = commands[i + 1]
    BY <1>2
  <2> DEFINE w == commands[i + 1].worker
  <2>3. w \in Worker /\ commands[i + 1].n <= submitted[w] /\ ingested[w] < commands[i + 1].n
    BY <1>3, <1>7, <2>1, <2>2 DEF ChannelOrder
  <2>4. CASE type = "Input" /\ w = Sender
    <3>1. commands[1].n < commands[i + 1].n
      BY <1>1, <1>4, <1>7, <2>1, <2>2, <2>4 DEF ChannelOrder
    <3>2. ingested'[w] = commands[1].n
      BY <1>1, <1>4, <2>4 DEF ChannelOrder
    <3> QED BY <2>2, <2>3, <3>1, <3>2
  <2>5. CASE ~ (type = "Input" /\ w = Sender)
    <3>1. ingested'[w] = ingested[w]
      BY <1>4, <2>3, <2>5 DEF ChannelOrder
    <3> QED BY <2>2, <2>3, <3>1
  <2> QED BY <2>4, <2>5
<1>8. ASSUME NEW i \in 1 .. Len(commands'), NEW j \in 1 .. Len(commands'), i < j,
             commands'[i].type = "Input", commands'[j].type = "Input",
             commands'[i].worker = commands'[j].worker
      PROVE  commands'[i].n < commands'[j].n
  <2>1. /\ i + 1 \in 1 .. Len(commands) /\ j + 1 \in 1 .. Len(commands) /\ i + 1 < j + 1
        /\ commands'[i] = commands[i + 1] /\ commands'[j] = commands[j + 1]
    BY <1>2, <1>8
  <2> QED BY <1>8, <2>1 DEF ChannelOrder
<1> QED BY <1>6, <1>7, <1>8 DEF ChannelOrder

(* Appending a command that carries no input, or the next input of its     *)
(* worker, keeps the order of the channel.                                 *)
LEMMA SubmitKeepsOrder ==
  ASSUME CommandsOK, ChannelOrder, NEW m \in Command, Submit(m), ingested' = ingested,
         \/ m.type # "Input" /\ submitted' = submitted
         \/ /\ m.n = submitted[m.worker] + 1
            /\ submitted' = [submitted EXCEPT ![m.worker] = @ + 1]
  PROVE  ChannelOrder'
<1>1. commands \in Seq(Command) /\ Len(commands) \in Nat
  BY DEF CommandsOK
<1>2. /\ Len(commands') = Len(commands) + 1
      /\ commands'[Len(commands) + 1] = m
      /\ \A i \in 1 .. Len(commands) : commands'[i] = commands[i]
  BY <1>1, AppendProperties DEF Submit
<1>3. /\ m.worker \in Worker
      /\ \A i \in 1 .. Len(commands) :
           /\ commands[i].worker \in Worker
           /\ commands[i].type = "Input" => commands[i].n \in Nat
  BY <1>1, CommandParts
<1>4. submitted \in [Worker -> Nat]
  BY WorkerHubAssumption DEF CommandsOK
<1>5. \A w \in Worker : submitted'[w] \in Nat /\ submitted[w] <= submitted'[w]
  BY <1>3, <1>4
<1>6. \A w \in Worker : ingested'[w] <= submitted'[w]
  BY <1>4, <1>5 DEF ChannelOrder
<1>7. m.type = "Input" => m.n = submitted[m.worker] + 1 /\ submitted'[m.worker] = m.n
  BY <1>3, <1>4
<1>8. ASSUME NEW i \in 1 .. Len(commands'), commands'[i].type = "Input"
      PROVE  /\ ingested'[commands'[i].worker] < commands'[i].n
             /\ commands'[i].n <= submitted'[commands'[i].worker]
  <2>1. CASE i = Len(commands) + 1
    BY <1>2, <1>3, <1>4, <1>7, <1>8, <2>1 DEF ChannelOrder
  <2>2. CASE i # Len(commands) + 1
    <3>1. i \in 1 .. Len(commands) /\ commands'[i] = commands[i]
      BY <1>1, <1>2, <2>2
    <3>2. commands[i].worker \in Worker /\ commands[i].n \in Nat
      BY <1>3, <1>8, <3>1
    <3>3. /\ ingested[commands[i].worker] < commands[i].n
          /\ commands[i].n <= submitted[commands[i].worker]
      BY <1>8, <3>1 DEF ChannelOrder
    <3>4. /\ submitted[commands[i].worker] \in Nat /\ submitted'[commands[i].worker] \in Nat
          /\ submitted[commands[i].worker] <= submitted'[commands[i].worker]
      BY <1>4, <1>5, <3>2
    <3> QED BY <3>1, <3>2, <3>3, <3>4
  <2> QED BY <2>1, <2>2
<1>9. ASSUME NEW i \in 1 .. Len(commands'), NEW j \in 1 .. Len(commands'), i < j,
             commands'[i].type = "Input", commands'[j].type = "Input",
             commands'[i].worker = commands'[j].worker
      PROVE  commands'[i].n < commands'[j].n
  <2>1. i \in 1 .. Len(commands) /\ commands'[i] = commands[i]
    BY <1>1, <1>2, <1>9
  <2>2. CASE j = Len(commands) + 1
    <3>1. commands[i].worker = m.worker /\ commands'[j] = m /\ m.n = submitted[m.worker] + 1
      BY <1>2, <1>7, <1>9, <2>1, <2>2
    <3>2. commands[i].n <= submitted[m.worker] /\ commands[i].n \in Nat
      BY <1>3, <1>9, <2>1, <3>1 DEF ChannelOrder
    <3> QED BY <1>3, <1>4, <2>1, <3>1, <3>2
  <2>3. CASE j # Len(commands) + 1
    <3>1. j \in 1 .. Len(commands) /\ commands'[j] = commands[j]
      BY <1>1, <1>2, <2>3
    <3> QED BY <1>9, <2>1, <3>1 DEF ChannelOrder
  <2> QED BY <2>2, <2>3
<1> QED BY <1>6, <1>8, <1>9 DEF ChannelOrder

(* Every step of the hub keeps the order of the channel.                   *)
LEMMA OrderPreserved ==
  ASSUME CommandsOK, ChannelOrder, [HubNext]_vars
  PROVE  ChannelOrder'
<1> USE WorkerHubAssumption
<1>1. CASE IngestInput
  <2>1. /\ Take("Input") /\ submitted' = submitted
        /\ ingested' = [ingested EXCEPT ![Sender] = Head(commands).n]
    BY <1>1 DEF IngestInput
  <2> QED BY <2>1, TakeKeepsOrder
<1>2. ASSUME NEW type \in {"Register", "Output", "Disconnect"}, Take(type),
             submitted' = submitted, ingested' = ingested
      PROVE  ChannelOrder'
  BY <1>2, TakeKeepsOrder
<1>3. CASE IngestRegister \/ IngestOutput \/ IngestDisconnect
  BY <1>2, <1>3 DEF IngestRegister, IngestOutput, IngestDisconnect, reportVars
<1>4. ASSUME NEW m \in Command, m.type # "Input", Submit(m),
             submitted' = submitted, ingested' = ingested
      PROVE  ChannelOrder'
  BY <1>4, SubmitKeepsOrder
<1>5. ASSUME NEW w \in Worker, TryConnect(w) \/ TrySendOutput(w) \/ TryDisconnect(w)
      PROVE  ChannelOrder'
  <2>1. /\ {Register(w), Output(w), Disconnect(w)} \subseteq Command
        /\ \A m \in {Register(w), Output(w), Disconnect(w)} : m.type # "Input"
    BY DEF Command, Register, Output, Disconnect
  <2> QED BY <1>4, <1>5, <2>1 DEF TryConnect, TrySendOutput, TryDisconnect, reportVars
<1>6. ASSUME NEW w \in Worker, TrySendInput(w)
      PROVE  ChannelOrder'
  <2> DEFINE m == Input(w, submitted[w] + 1)
  <2>1. /\ submitted' = [submitted EXCEPT ![w] = @ + 1] /\ ingested' = ingested
        /\ Submit(m) \/ UNCHANGED commands
    BY <1>6 DEF TrySendInput, reportVars
  <2>2. submitted \in [Worker -> Nat] /\ submitted[w] + 1 \in 1 .. MaxInputs
    BY <1>6 DEF CommandsOK, TrySendInput
  <2>3. CASE Submit(m)
    <3>1. m \in Command /\ m.worker = w /\ m.type = "Input" /\ m.n = submitted[w] + 1
      BY <2>2 DEF Command, Input
    <3> HIDE DEF m
    <3> QED BY <2>1, <2>3, <3>1, SubmitKeepsOrder
  <2>4. CASE UNCHANGED commands
    <3>1. \A v \in Worker : submitted[v] \in Nat /\ submitted[v] <= submitted'[v]
                              /\ submitted'[v] \in Nat
      BY <2>1, <2>2
    <3>2. \A i \in 1 .. Len(commands) :
            /\ commands[i].worker \in Worker
            /\ commands[i].type = "Input" => commands[i].n \in Nat
      BY CommandParts DEF CommandsOK
    <3>3. \A v \in Worker : ingested'[v] <= submitted'[v]
      BY <2>1, <3>1 DEF ChannelOrder
    <3>4. \A i \in 1 .. Len(commands) :
            commands[i].type = "Input" => commands[i].n <= submitted'[commands[i].worker]
      <4> SUFFICES ASSUME NEW i \in 1 .. Len(commands), commands[i].type = "Input"
                   PROVE  commands[i].n <= submitted'[commands[i].worker]
        OBVIOUS
      <4>1. commands[i].n <= submitted[commands[i].worker]
        BY DEF ChannelOrder
      <4> HIDE DEF m
      <4>2. PICK v \in Worker : v = commands[i].worker
        BY <3>2
      <4>3. PICK n \in Nat : n = commands[i].n
        BY <3>2
      <4>4. n <= submitted[v] /\ submitted[v] <= submitted'[v]
        BY <3>1, <4>1, <4>2, <4>3
      <4>5. n <= submitted'[v]
        BY <3>1, <4>4
      <4> QED BY <4>2, <4>3, <4>5
    <3> QED BY <2>1, <2>4, <3>3, <3>4 DEF ChannelOrder
  <2> QED BY <2>1, <2>3, <2>4
<1>7. CASE DropRuntime
  BY <1>7 DEF ChannelOrder, DropRuntime, reportVars
<1>8. CASE Drain \/ Broadcast \/ (\E c \in Connection : SendOutput(c)) \/ UNCHANGED vars
           \/ \E w \in Worker : TryRecvOutput(w) \/ DropReceiver(w)
  <2>1. UNCHANGED <<commands, submitted, ingested>>
    BY <1>8 DEF Drain, Broadcast, SendOutput, TryRecvOutput, DropReceiver,
                vars, hubVars, workerVars, reportVars
  <2> QED BY <2>1 DEF ChannelOrder
<1> QED BY <1>1, <1>3, <1>5, <1>6, <1>7, <1>8 DEF HubNext, OwnerNext, Ingest, WorkerNext

(* ChannelOrder holds in every reachable state.                            *)
LEMMA ChannelOrderInvariant == HubSpec => []ChannelOrder
<1>1. HubInit => ChannelOrder
  BY WorkerHubAssumption DEF HubInit, ChannelOrder
<1>2. CommandsOK /\ ChannelOrder /\ [HubNext]_vars => ChannelOrder'
  BY OrderPreserved
<1> QED BY <1>1, <1>2, CommandsInvariant, PTL DEF HubSpec

(* The queue holds inputs only under their own connection's id, none of    *)
(* them revoked, and revocation never runs ahead of ingestion.             *)
QueuedInputsOwned ==
  \A c \in Connection : \A i \in 1 .. Len(pending[c]) :
    pending[c][i].payload.worker \in WorkersOf(c)

RevocationInv ==
  /\ revoked \in [Worker -> Nat]
  /\ \A w \in Worker : revoked[w] <= ingested[w]
  /\ QueuedInputsOwned
  /\ RevokedInputsGone

(* What a worker sent before its connection was disconnected or replaced   *)
(* is never queued for a tick again, whatever was still in the channel.    *)
THEOREM RevocationHolds == HubSpec => []RevokedInputsGone
<1> USE WorkerHubAssumption
<1>1. HubInit => RevocationInv
  BY DEF HubInit, QueueInit, RevocationInv, QueuedInputsOwned, RevokedInputsGone
<1>2. /\ QueueTypeOK /\ RoundInv /\ CommandsOK /\ ChannelOrder /\ RevocationInv
      /\ [HubNext]_vars
      => RevocationInv'
  <2> SUFFICES ASSUME QueueTypeOK, RoundInv, CommandsOK, ChannelOrder, RevocationInv,
                      [HubNext]_vars
               PROVE  RevocationInv'
    OBVIOUS
  <2>0. /\ pending \in [Connection -> Seq(Envelope)]
        /\ revoked \in [Worker -> Nat] /\ ingested \in [Worker -> Nat]
    BY DEF QueueTypeOK, RevocationInv, ChannelOrder
  <2>1. ASSUME NEW c \in Connection, RemoveInputs(c), ingested' = ingested
        PROVE  RevocationInv'
    <3>1. /\ pending' = [pending EXCEPT ![c] = <<>>]
          /\ revoked' = [w \in Worker |-> IF w \in WorkersOf(c) THEN ingested[w] ELSE revoked[w]]
      BY <2>1 DEF RemoveInputs, RemoveConnection, ForgetConnection, Revoke
    <3>2. revoked' \in [Worker -> Nat] /\ \A w \in Worker : revoked'[w] <= ingested'[w]
      BY <2>0, <2>1, <3>1 DEF RevocationInv
    <3>3. ASSUME NEW d \in Connection, NEW i \in 1 .. Len(pending'[d])
          PROVE  /\ pending'[d][i].payload.worker \in WorkersOf(d)
                 /\ pending'[d][i].payload.n > revoked'[pending'[d][i].payload.worker]
      <4>1. d # c /\ pending'[d] = pending[d]
        BY <2>0, <3>1, <3>3
      <4> DEFINE w == pending[d][i].payload.worker
      <4>2. w \in WorkersOf(d) /\ pending[d][i].payload.n > revoked[w]
        BY <3>3, <4>1 DEF RevocationInv, QueuedInputsOwned, RevokedInputsGone
      <4>3. w \in Worker /\ w \notin WorkersOf(c)
        BY <4>1, <4>2 DEF WorkersOf
      <4>4. revoked'[w] = revoked[w]
        BY <3>1, <4>3
      <4> QED BY <4>1, <4>2, <4>4
    <3> QED BY <3>2, <3>3 DEF RevocationInv, QueuedInputsOwned, RevokedInputsGone
  <2>2. ASSUME UNCHANGED <<pending, revoked>>,
               ingested' \in [Worker -> Nat],
               \A w \in Worker : ingested[w] <= ingested'[w]
        PROVE  RevocationInv'
    <3>1. \A w \in Worker : revoked'[w] <= ingested'[w]
      BY <2>0, <2>2 DEF RevocationInv
    <3> QED BY <2>2, <3>1 DEF RevocationInv, QueuedInputsOwned, RevokedInputsGone
  <2>3. CASE IngestRegister
    <3>1. Id \in Connection /\ ingested' = ingested
      BY <2>3, TakenCommand DEF IngestRegister
    <3>2. CASE RemoveInputs(Id)
      BY <2>1, <3>1, <3>2
    <3>3. CASE UNCHANGED <<inputVars, unsettled, revoked>>
      <4>1. UNCHANGED <<pending, revoked>>
        BY <3>3 DEF inputVars
      <4> QED BY <2>0, <2>2, <3>1, <4>1
    <3> QED BY <2>3, <3>2, <3>3 DEF IngestRegister
  <2>4. CASE IngestDisconnect
    <3>1. Id \in Connection /\ ingested' = ingested /\ RemoveInputs(Id)
      BY <2>4, TakenCommand DEF IngestDisconnect
    <3> QED BY <2>1, <3>1
  <2>5. CASE IngestInput
    <3> DEFINE n == Head(commands).n
               p == [worker |-> Sender, n |-> n]
    <3>1. /\ Take("Input") /\ revoked' = revoked
          /\ ingested' = [ingested EXCEPT ![Sender] = n]
          /\ Push(Id, p) \/ UNCHANGED inputVars
      BY <2>5 DEF IngestInput
    <3>2. /\ Head(commands) \in Command /\ Sender \in Worker /\ Id \in Connection
          /\ Id = ConnectionOf[Sender]
      BY <3>1, TakenCommand DEF Id
    <3>3. n \in Nat /\ ingested[Sender] < n
      <4>1. n \in 1 .. MaxInputs
        BY <3>1, <3>2, CommandParts DEF Take
      <4>2. commands \in Seq(Command) /\ commands # <<>> /\ Head(commands).type = "Input"
        BY <3>1 DEF Take, CommandsOK
      <4>3. 1 \in 1 .. Len(commands) /\ Head(commands) = commands[1]
        BY <4>2, EmptySeq, HeadTailProperties
      <4>4. commands[1].type = "Input" => ingested[commands[1].worker] < commands[1].n
        BY <4>3 DEF ChannelOrder
      <4>5. n \in Nat
        BY <4>1
      <4> QED BY <4>2, <4>3, <4>4, <4>5 DEF Sender
    <3> HIDE DEF n
    <3>4. ingested' \in [Worker -> Nat] /\ \A w \in Worker : ingested[w] <= ingested'[w]
      BY <2>0, <3>1, <3>2, <3>3
    <3>5. CASE UNCHANGED inputVars
      <4>1. UNCHANGED <<pending, revoked>>
        BY <3>1, <3>5 DEF inputVars
      <4> QED BY <2>2, <3>4, <4>1
    <3>6. CASE Push(Id, p)
      <4> DEFINE e == [connection |-> Id, sequence |-> nextSequence[Id], payload |-> p]
                 c == Id
      <4>1. pending' = [pending EXCEPT ![c] = Append(@, e)] /\ e.payload = p
        BY <3>6 DEF Push
      <4>2. p.worker = Sender /\ p.n = n /\ Sender \in WorkersOf(c)
        BY <3>2 DEF WorkersOf
      <4>3. revoked[Sender] < n
        BY <2>0, <3>2, <3>3 DEF RevocationInv
      <4>c. c \in Connection
        BY <3>2
      <4> HIDE DEF e, p, c
      <4>4. ASSUME NEW d \in Connection, NEW i \in 1 .. Len(pending'[d])
            PROVE  /\ pending'[d][i].payload.worker \in WorkersOf(d)
                   /\ pending'[d][i].payload.n > revoked'[pending'[d][i].payload.worker]
        <5>1. CASE d = c
          <6>1. /\ pending[c] \in Seq(Envelope) /\ pending'[c] = Append(pending[c], e)
                /\ Len(pending[c]) \in Nat
            BY <2>0, <4>1, <4>c
          <6>2. /\ Len(pending'[c]) = Len(pending[c]) + 1
                /\ pending'[c][Len(pending[c]) + 1] = e
                /\ \A k \in 1 .. Len(pending[c]) : pending'[c][k] = pending[c][k]
            BY <6>1
          <6>3. CASE i = Len(pending[c]) + 1
            BY <3>1, <4>1, <4>2, <4>3, <5>1, <6>2, <6>3
          <6>4. CASE i # Len(pending[c]) + 1
            <7>1. i \in 1 .. Len(pending[c]) /\ pending'[c][i] = pending[c][i]
              BY <4>4, <5>1, <6>1, <6>2, <6>4
            <7> QED BY <3>1, <4>c, <5>1, <7>1
                DEF RevocationInv, QueuedInputsOwned, RevokedInputsGone
          <6> QED BY <6>3, <6>4
        <5>2. CASE d # c
          <6>1. pending'[d] = pending[d]
            BY <2>0, <4>1, <5>2
          <6> QED BY <3>1, <4>4, <6>1 DEF RevocationInv, QueuedInputsOwned, RevokedInputsGone
        <5> QED BY <5>1, <5>2
      <4>5. \A w \in Worker : revoked'[w] <= ingested'[w]
        BY <2>0, <3>1, <3>4 DEF RevocationInv
      <4> QED BY <2>0, <3>1, <4>4, <4>5 DEF RevocationInv, QueuedInputsOwned, RevokedInputsGone
    <3> QED BY <3>1, <3>5, <3>6
  <2>6. CASE Drain
    <3>1. UNCHANGED <<revoked, ingested>>
      BY <2>6 DEF Drain
    <3>2. CASE Visit
      <4> DEFINE c == Lowest(round)
      <4>1. c \in Connection /\ pending[c] # <<>> /\ pending' = [pending EXCEPT ![c] = Tail(@)]
        BY <3>2, LowestIsMember DEF Visit, QueueTypeOK, RoundInv, Ready
      <4> HIDE DEF c
      <4>2. ASSUME NEW d \in Connection, NEW i \in 1 .. Len(pending'[d])
            PROVE  \E k \in 1 .. Len(pending[d]) : pending'[d][i] = pending[d][k]
        <5>1. CASE d = c
          <6>1. /\ pending'[d] = Tail(pending[d]) /\ pending[d] \in Seq(Envelope)
                /\ pending[d] # <<>>
            BY <2>0, <4>1, <5>1
          <6>2. /\ Len(pending[d]) \in Nat
                /\ i + 1 \in 1 .. Len(pending[d])
                /\ pending'[d][i] = pending[d][i + 1]
            BY <4>2, <6>1, HeadTailProperties
          <6> QED BY <6>2
        <5>2. CASE d # c
          BY <2>0, <4>1, <4>2, <5>2
        <5> QED BY <5>1, <5>2
      <4>3. ASSUME NEW d \in Connection, NEW i \in 1 .. Len(pending'[d])
            PROVE  /\ pending'[d][i].payload.worker \in WorkersOf(d)
                   /\ pending'[d][i].payload.n > revoked'[pending'[d][i].payload.worker]
        <5>1. PICK k \in 1 .. Len(pending[d]) : pending'[d][i] = pending[d][k]
          BY <4>2
        <5> QED BY <3>1, <5>1 DEF RevocationInv, QueuedInputsOwned, RevokedInputsGone
      <4>4. revoked' \in [Worker -> Nat] /\ \A w \in Worker : revoked'[w] <= ingested'[w]
        BY <2>0, <3>1 DEF RevocationInv
      <4> QED BY <4>3, <4>4 DEF RevocationInv, QueuedInputsOwned, RevokedInputsGone
    <3>3. CASE ~ Visit
      <4>1. UNCHANGED pending
        BY <2>6, <3>3 DEF Drain, DrainStep, BeginDrain, BeginRound, EndDrain, queueVars
      <4> QED BY <2>0, <2>2, <3>1, <4>1
    <3> QED BY <3>2, <3>3
  <2>7. CASE \/ IngestOutput \/ Broadcast \/ DropRuntime \/ UNCHANGED vars
             \/ \E c \in Connection : SendOutput(c)
             \/ \E w \in Worker : WorkerNext(w)
    <3>1. UNCHANGED <<pending, revoked, ingested>>
      BY <2>7 DEF IngestOutput, Broadcast, DropRuntime, SendOutput, WorkerNext, TryConnect,
                  TrySendInput, TrySendOutput, TryDisconnect, TryRecvOutput, DropReceiver,
                  vars, hubVars, inputVars, reportVars
    <3> QED BY <2>0, <2>2, <3>1
  <2> QED BY <2>3, <2>4, <2>5, <2>6, <2>7 DEF HubNext, OwnerNext, Ingest
<1>3. QueueSpec => [](QueueTypeOK /\ RoundInv)
  <2>1. QueueInv /\ RoundInv => QueueTypeOK /\ RoundInv
    BY DEF QueueInv
  <2> QED BY <2>1, QueueInductive, PTL
<1>4. RevocationInv => RevokedInputsGone
  BY DEF RevocationInv
<1> QED
  BY <1>1, <1>2, <1>3, <1>4, HubRefinesQueue, CommandsInvariant, ChannelOrderInvariant, PTL
  DEF HubSpec, UsesQueue

(***************************************************************************)
(* A player has one session at most, for any number of connections and of  *)
(* players: the tables of the server agree with where the connections'     *)
(* threads are, and a thread takes back only what is its own.  And what is *)
(* saved when the process exits: every change, in every service.           *)
(***************************************************************************)

States == {"away", "greeting", "registered", "joined", "rollback", "playing",
           "unregister", "disconnect", "uncount", "gone"}
InSession == {"joined", "playing", "unregister", "disconnect"}
Counted == {"playing", "unregister", "disconnect", "uncount"}
MayBeRegistered == {"registered", "joined", "rollback", "playing", "unregister"}

TablesTypeOK == client \in [Clients -> States] /\ online \in Int

\* connected holds the players of the sessions, no two of which are of one.
ConnectedAreInSession ==
  /\ connected = {PlayerOf[c] : c \in {d \in Clients : client[d] \in InSession}}
  /\ \A c, d \in Clients :
       /\ client[c] \in InSession /\ client[d] \in InSession
       /\ PlayerOf[c] = PlayerOf[d]
       => c = d

\* A registration has a thread that will take it back.
RegistrationsHaveOwners ==
  \A p \in DOMAIN registered :
    \E c \in Clients : PlayerOf[c] = p /\ client[c] \in MayBeRegistered

CountedClients == {c \in Clients : client[c] \in Counted}
OnlineIsCounted == online = Cardinality(CountedClients)

SessionInvariant ==
  /\ TablesTypeOK
  /\ ConnectedAreInSession
  /\ RegistrationsHaveOwners
  /\ OnlineIsCounted

---------------------------------------------------------------------------
\* What the steps of the connections' threads do to the set that is counted.

LEMMA CountedIsFinite ==
  ASSUME NEW S \in SUBSET Clients
  PROVE  IsFiniteSet(S) /\ Cardinality(S) \in Nat
  BY ServerAssumption, FS_Subset, FS_CardinalityType

LEMMA OneMore ==
  ASSUME NEW S \in SUBSET Clients, NEW c \in Clients \ S
  PROVE  Cardinality(S \cup {c}) = Cardinality(S) + 1
  BY CountedIsFinite, FS_AddElement

LEMMA OneLess ==
  ASSUME NEW S \in SUBSET Clients, NEW c \in S
  PROVE  Cardinality(S \ {c}) = Cardinality(S) - 1
  BY CountedIsFinite, FS_RemoveElement

\* A step of a thread that neither enters nor leaves the game.
LEMMA NoSessionChanges ==
  ASSUME SessionInvariant, NEW c \in Clients, NEW from, NEW to \in States,
         Goes(c, from, to), from \in InSession <=> to \in InSession,
         connected' = connected
  PROVE  ConnectedAreInSession'
  <1>1. client' = [client EXCEPT ![c] = to] /\ client[c] = from
    BY DEF Goes
  <1>2. \A d \in Clients : client'[d] \in InSession <=> client[d] \in InSession
    BY <1>1 DEF SessionInvariant, TablesTypeOK
  <1> QED
    BY <1>2 DEF SessionInvariant, ConnectedAreInSession

LEMMA CountStays ==
  ASSUME SessionInvariant, NEW c \in Clients, NEW from, NEW to \in States,
         Goes(c, from, to), from \in Counted <=> to \in Counted,
         online' = online
  PROVE  OnlineIsCounted'
  <1>1. client' = [client EXCEPT ![c] = to] /\ client[c] = from
    BY DEF Goes
  <1>2. CountedClients' = CountedClients
    BY <1>1 DEF SessionInvariant, TablesTypeOK, CountedClients
  <1> QED
    BY <1>2 DEF SessionInvariant, OnlineIsCounted

LEMMA OwnersStay ==
  ASSUME SessionInvariant, NEW c \in Clients, NEW from, NEW to \in States,
         Goes(c, from, to), from \in MayBeRegistered => to \in MayBeRegistered,
         registered' = registered
  PROVE  RegistrationsHaveOwners'
  BY DEF Goes, SessionInvariant, TablesTypeOK, RegistrationsHaveOwners

\* A registration that is forgotten needs no owner any more.
LEMMA ForgottenHasNoOwner ==
  ASSUME SessionInvariant, NEW c \in Clients, NEW from, NEW to \in States,
         Goes(c, from, to), registered' = Without(registered, PlayerOf[c])
  PROVE  RegistrationsHaveOwners'
  <1>1. DOMAIN registered' = DOMAIN registered \ {PlayerOf[c]}
    BY DEF Without, Restrict
  <1> QED
    BY <1>1 DEF Goes, SessionInvariant, TablesTypeOK, RegistrationsHaveOwners

LEMMA TypeStays ==
  ASSUME SessionInvariant, NEW c \in Clients, NEW from, NEW to \in States,
         Goes(c, from, to), online' \in Int
  PROVE  TablesTypeOK'
  BY DEF Goes, SessionInvariant, TablesTypeOK

---------------------------------------------------------------------------
LEMMA SessionInit ==
  ASSUME Init
  PROVE  SessionInvariant
  <1>1. CountedClients = {}
    BY DEF Init, CountedClients, Counted
  <1>2. DOMAIN registered = {}
    BY DEF Init
  <1> QED
    BY <1>1, <1>2, FS_EmptySet
    DEF Init, SessionInvariant, TablesTypeOK, ConnectedAreInSession, InSession,
        RegistrationsHaveOwners, OnlineIsCounted, States

LEMMA SessionUntouched ==
  ASSUME SessionInvariant, UNCHANGED <<client, connected, online>>,
         DOMAIN registered' \subseteq DOMAIN registered
  PROVE  SessionInvariant'
  BY DEF SessionInvariant, TablesTypeOK, ConnectedAreInSession,
         RegistrationsHaveOwners, OnlineIsCounted, CountedClients

\* The main thread moves a client from away to greeting, and nothing else.
LEMMA SessionMain ==
  ASSUME SessionInvariant, MainStep
  PROVE  SessionInvariant'
  <1>1. UNCHANGED <<registered, connected, online>>
    BY DEF MainStep, LoopHead, Accept, JoinClients, JoinGui, StopReplication,
           StopWorld, StopGame, DropServices, MainRest
  <1>2. CASE UNCHANGED client
    BY <1>1, <1>2, SessionUntouched
  <1>3. CASE \E c \in Clients :
               client[c] = "away" /\ client' = [client EXCEPT ![c] = "greeting"]
    <2>1. PICK c \in Clients :
            client[c] = "away" /\ client' = [client EXCEPT ![c] = "greeting"]
      BY <1>3
    <2>2. TablesTypeOK'
      BY <1>1, <2>1 DEF SessionInvariant, TablesTypeOK, States
    <2>3. ConnectedAreInSession'
      <3>1. \A d \in Clients : client'[d] \in InSession <=> client[d] \in InSession
        BY <2>1 DEF SessionInvariant, TablesTypeOK, InSession
      <3> QED
        BY <1>1, <3>1 DEF SessionInvariant, ConnectedAreInSession
    <2>4. RegistrationsHaveOwners'
      BY <1>1, <2>1
      DEF SessionInvariant, TablesTypeOK, RegistrationsHaveOwners, MayBeRegistered
    <2>5. OnlineIsCounted'
      <3>1. CountedClients' = CountedClients
        BY <2>1 DEF SessionInvariant, TablesTypeOK, CountedClients, Counted
      <3> QED
        BY <1>1, <3>1 DEF SessionInvariant, OnlineIsCounted
    <2> QED
      BY <2>2, <2>3, <2>4, <2>5 DEF SessionInvariant
  <1> QED
    BY <1>2, <1>3
    DEF MainStep, LoopHead, Accept, JoinClients, JoinGui, StopReplication,
        StopWorld, StopGame, DropServices

LEMMA SessionThread ==
  ASSUME SessionInvariant, NEW c \in Clients, ThreadStep(c)
  PROVE  SessionInvariant'
  <1>1. CASE RegisterPlayer(c)
    <2>1. CASE Goes(c, "greeting", "registered")
               /\ registered' = [q \in DOMAIN registered \cup {PlayerOf[c]} |->
                                   IF q = PlayerOf[c] THEN c ELSE registered[q]]
      <3>1. RegistrationsHaveOwners'
        BY <2>1 DEF Goes, SessionInvariant, TablesTypeOK, RegistrationsHaveOwners,
                    MayBeRegistered
      <3> QED
        BY <1>1, <2>1, <3>1, NoSessionChanges, CountStays, TypeStays
        DEF RegisterPlayer, SessionInvariant, States, InSession, Counted, TablesTypeOK
    <2>2. CASE Goes(c, "greeting", "gone") /\ UNCHANGED registered
      BY <1>1, <2>2, NoSessionChanges, CountStays, OwnersStay, TypeStays
      DEF RegisterPlayer, SessionInvariant, States, InSession, Counted, MayBeRegistered,
          TablesTypeOK
    <2> QED
      BY <1>1, <2>1, <2>2 DEF RegisterPlayer
  <1>2. CASE ConnectPlayer(c)
    <2>1. CASE PlayerOf[c] \notin connected
      <3>1. /\ client[c] = "registered" /\ client' = [client EXCEPT ![c] = "joined"]
            /\ connected' = connected \cup {PlayerOf[c]}
        BY <1>2, <2>1 DEF ConnectPlayer, Goes
      <3>2. /\ client'[c] \in InSession
            /\ \A d \in Clients \ {c} : client'[d] = client[d]
        BY <3>1 DEF SessionInvariant, TablesTypeOK, InSession
      <3>3. {d \in Clients : client'[d] \in InSession}
              = {d \in Clients : client[d] \in InSession} \cup {c}
        BY <3>1, <3>2
      <3>4. connected' = {PlayerOf[d] : d \in {e \in Clients : client'[e] \in InSession}}
        BY <3>1, <3>3 DEF SessionInvariant, ConnectedAreInSession
      <3>5. \A d \in Clients : client[d] \in InSession => PlayerOf[d] # PlayerOf[c]
        BY <2>1 DEF SessionInvariant, ConnectedAreInSession
      <3>6. ConnectedAreInSession'
        BY <3>2, <3>4, <3>5 DEF SessionInvariant, ConnectedAreInSession
      <3> QED
        BY <1>2, <2>1, <3>6, CountStays, OwnersStay, TypeStays
        DEF ConnectPlayer, SessionInvariant, States, Counted, MayBeRegistered,
            TablesTypeOK
    <2>2. CASE PlayerOf[c] \in connected
      BY <1>2, <2>2, NoSessionChanges, CountStays, OwnersStay, TypeStays
      DEF ConnectPlayer, SessionInvariant, States, InSession, Counted,
          MayBeRegistered, TablesTypeOK
    <2> QED
      BY <2>1, <2>2
  <1>3. CASE Rollback(c)
    BY <1>3, NoSessionChanges, CountStays, ForgottenHasNoOwner, TypeStays
    DEF Rollback, SessionInvariant, States, InSession, Counted, TablesTypeOK
  <1>4. CASE Count(c)
    <2>1. /\ client[c] = "joined" /\ client' = [client EXCEPT ![c] = "playing"]
          /\ online' = online + 1
      BY <1>4 DEF Count, Goes
    <2>2. CountedClients' = CountedClients \cup {c} /\ c \notin CountedClients
      BY <2>1 DEF SessionInvariant, TablesTypeOK, CountedClients, Counted
    <2>3. OnlineIsCounted'
      BY <2>1, <2>2, OneMore
      DEF SessionInvariant, OnlineIsCounted, CountedClients
    <2> QED
      BY <1>4, <2>1, <2>3, NoSessionChanges, OwnersStay, TypeStays
      DEF Count, SessionInvariant, States, InSession, MayBeRegistered, TablesTypeOK
  <1>5. CASE Unregister(c)
    BY <1>5, NoSessionChanges, CountStays, ForgottenHasNoOwner, TypeStays
    DEF Unregister, SessionInvariant, States, InSession, Counted, TablesTypeOK
  <1>6. CASE DisconnectPlayer(c)
    <2>1. /\ client[c] = "disconnect" /\ client' = [client EXCEPT ![c] = "uncount"]
          /\ connected' = connected \ {PlayerOf[c]}
      BY <1>6 DEF DisconnectPlayer, Goes
    <2>2. /\ client'[c] \notin InSession
          /\ \A d \in Clients \ {c} : client'[d] = client[d]
      BY <2>1 DEF SessionInvariant, TablesTypeOK, InSession
    <2>3. {d \in Clients : client'[d] \in InSession}
            = {d \in Clients : client[d] \in InSession} \ {c}
      BY <2>2
    <2>4. \A d \in Clients \ {c} :
            client[d] \in InSession => PlayerOf[d] # PlayerOf[c]
      BY <2>1 DEF SessionInvariant, ConnectedAreInSession, InSession
    <2>5. connected' = {PlayerOf[d] : d \in {e \in Clients : client'[e] \in InSession}}
      BY <2>1, <2>3, <2>4 DEF SessionInvariant, ConnectedAreInSession
    <2>6. ConnectedAreInSession'
      BY <2>2, <2>5 DEF SessionInvariant, ConnectedAreInSession
    <2> QED
      BY <1>6, <2>6, CountStays, OwnersStay, TypeStays
      DEF DisconnectPlayer, SessionInvariant, States, Counted, MayBeRegistered,
          TablesTypeOK
  <1>7. CASE Uncount(c)
    <2>1. /\ client[c] = "uncount" /\ client' = [client EXCEPT ![c] = "gone"]
          /\ online' = online - 1
      BY <1>7 DEF Uncount, Goes
    <2>2. CountedClients' = CountedClients \ {c} /\ c \in CountedClients
      BY <2>1 DEF SessionInvariant, TablesTypeOK, CountedClients, Counted
    <2>3. OnlineIsCounted'
      BY <2>1, <2>2, OneLess
      DEF SessionInvariant, OnlineIsCounted, CountedClients
    <2> QED
      BY <1>7, <2>1, <2>3, NoSessionChanges, OwnersStay, TypeStays
      DEF Uncount, SessionInvariant, States, InSession, MayBeRegistered, TablesTypeOK
  <1> QED
    BY <1>1, <1>2, <1>3, <1>4, <1>5, <1>6, <1>7 DEF ThreadStep

LEMMA SessionLeave ==
  ASSUME SessionInvariant, NEW c \in Clients, Leave(c)
  PROVE  SessionInvariant'
  BY NoSessionChanges, CountStays, OwnersStay, TypeStays
  DEF Leave, SessionInvariant, States, InSession, Counted, MayBeRegistered, TablesTypeOK

LEMMA SessionStep ==
  ASSUME SessionInvariant, [Next]_serverVars
  PROVE  SessionInvariant'
  <1>1. CASE MainStep
    BY <1>1, SessionMain
  <1>2. ASSUME NEW c \in Clients, ThreadStep(c) PROVE SessionInvariant'
    BY <1>2, SessionThread
  <1>3. ASSUME NEW c \in Clients, Play(c) PROVE SessionInvariant'
    BY <1>3, SessionUntouched DEF Play
  <1>4. ASSUME NEW c \in Clients, Leave(c) PROVE SessionInvariant'
    BY <1>4, SessionLeave
  <1>5. ASSUME NEW s \in Services, ServiceFails(s) PROVE SessionInvariant'
    <2>1. DOMAIN registered' \subseteq DOMAIN registered
      BY <1>5 DEF ServiceFails
    <2> QED
      BY <1>5, <2>1, SessionUntouched DEF ServiceFails
  <1>6. CASE Overflow
    <2>1. PICK p \in DOMAIN registered : registered' = Without(registered, p)
      BY <1>6 DEF Overflow
    <2>2. DOMAIN registered' \subseteq DOMAIN registered
      BY <2>1 DEF Without, Restrict
    <2> QED
      BY <1>6, <2>2, SessionUntouched DEF Overflow
  <1>7. ASSUME NEW o \in Operators, OperatorStep(o) \/ Order(o)
        PROVE  SessionInvariant'
    BY <1>7, SessionUntouched DEF OperatorStep, Save, Stop, Order, OperatorRest
  <1>8. CASE GuiEnds
    BY <1>8, SessionUntouched DEF GuiEnds, OperatorRest
  <1>9. CASE UNCHANGED serverVars
    BY <1>9, SessionUntouched DEF serverVars
  <1> QED
    BY <1>1, <1>2, <1>3, <1>4, <1>5, <1>6, <1>7, <1>8, <1>9 DEF Next

LEMMA OneSessionFollows ==
  ASSUME SessionInvariant
  PROVE  PlayersHaveOneSession
  <1>1. ASSUME NEW p \in {PlayerOf[c] : c \in Clients}
        PROVE  Cardinality(SessionOf(p)) = IF p \in connected THEN 1 ELSE 0
    <2>1. SessionOf(p) = {c \in Clients : PlayerOf[c] = p /\ client[c] \in InSession}
      BY DEF SessionOf, InSession
    <2>2. CASE p \in connected
      <3>1. PICK c \in Clients : client[c] \in InSession /\ PlayerOf[c] = p
        BY <2>2 DEF SessionInvariant, ConnectedAreInSession
      <3>2. SessionOf(p) = {c}
        BY <2>1, <3>1 DEF SessionInvariant, ConnectedAreInSession
      <3> QED
        BY <2>2, <3>2, FS_Singleton
    <2>3. CASE p \notin connected
      <3>1. SessionOf(p) = {}
        BY <2>1, <2>3 DEF SessionInvariant, ConnectedAreInSession
      <3> QED
        BY <2>3, <3>1, FS_EmptySet
    <2> QED
      BY <2>2, <2>3
  <1>2. ASSUME \A c \in Clients : client[c] \in {"away", "gone"}
        PROVE  DOMAIN registered = {} /\ connected = {} /\ online = 0
    <2>1. DOMAIN registered = {}
      BY <1>2 DEF SessionInvariant, RegistrationsHaveOwners, MayBeRegistered
    <2>2. connected = {}
      BY <1>2 DEF SessionInvariant, ConnectedAreInSession, InSession
    <2>3. CountedClients = {}
      BY <1>2 DEF CountedClients, Counted
    <2> QED
      BY <2>1, <2>2, <2>3, FS_EmptySet DEF SessionInvariant, OnlineIsCounted
  <1> QED
    BY <1>1, <1>2 DEF PlayersHaveOneSession

\* Whatever connections come, are refused, overflow, lose their replication or
\* leave, a player is connected in the game state exactly while one session
\* stands for it, and nothing is left when all have gone (OnlinePlayerGuard,
\* try_enter_play).
THEOREM OneSessionPerPlayer == Spec => []PlayersHaveOneSession
  <1>1. Init => SessionInvariant
    BY SessionInit
  <1>2. SessionInvariant /\ [Next]_serverVars => SessionInvariant'
    BY SessionStep
  <1>3. SessionInvariant => PlayersHaveOneSession
    BY OneSessionFollows
  <1> QED
    BY <1>1, <1>2, <1>3, PTL DEF Spec

---------------------------------------------------------------------------
(* What the process leaves behind.  Once the clients' threads are joined   *)
(* no player changes anything, so that a last save stays complete.         *)

Saving == {"game", "world"}
Joined == {"joinGui", "replication", "world", "game", "drop", "dropWorld", "exited"}

ExitTypeOK ==
  /\ main \in {"head", "accept", "join"} \cup Joined
  /\ client \in [Clients -> States]
  /\ service \in [Services -> {"up", "failed", "down"}]
  /\ DOMAIN file = Saving /\ DOMAIN state = Saving
  /\ file = [s \in Saving |-> file[s]] /\ state = [s \in Saving |-> state[s]]

\* No client is left when the main thread has joined them, and only then is a
\* service down.
ClientsAreJoined ==
  /\ main \in Joined => \A c \in Clients : client[c] \in {"away", "gone"}
  /\ \A s \in Saving : service[s] = "down" => main \in Joined

LastSavesAreComplete == \A s \in Saving : service[s] = "down" => file[s] = state[s]

\* The services that the main thread has already stopped.
ServicesAreStopped ==
  /\ main \in {"game", "exited"} => service["world"] # "up"
  /\ main \in {"dropWorld", "exited"} => service["game"] # "up"

ExitInvariant ==
  ExitTypeOK /\ ClientsAreJoined /\ LastSavesAreComplete /\ ServicesAreStopped

\* Steps of the main thread.
LEMMA MainKeepsExit ==
  ASSUME ExitInvariant, MainStep
  PROVE  ExitInvariant'
  <1> USE DEF ExitInvariant, ExitTypeOK, ClientsAreJoined, LastSavesAreComplete,
              ServicesAreStopped, Joined, Saving, Services, States, MainRest
  <1>1. CASE LoopHead \/ JoinClients \/ JoinGui
    BY <1>1 DEF LoopHead, JoinClients, JoinGui
  <1>2. CASE Accept
    BY <1>2 DEF Accept
  <1>3. CASE StopReplication
    BY <1>3 DEF StopReplication
  <1>4. CASE StopWorld
    BY <1>4 DEF StopWorld, LastSave
  <1>5. CASE StopGame
    BY <1>5 DEF StopGame, LastSave
  <1>6. CASE DropServices
    BY <1>6 DEF DropServices, LastSave
  <1> QED
    BY <1>1, <1>2, <1>3, <1>4, <1>5, <1>6 DEF MainStep

\* Steps of a connection's thread: there is one only before the join.
LEMMA ThreadKeepsExit ==
  ASSUME ExitInvariant, NEW c \in Clients, ThreadStep(c) \/ Leave(c) \/ Play(c)
  PROVE  ExitInvariant'
  <1> USE DEF ExitInvariant, ExitTypeOK, ClientsAreJoined, LastSavesAreComplete,
              ServicesAreStopped, ClientRest
  <1>1. CASE ThreadStep(c) \/ Leave(c)
    <2>1. /\ UNCHANGED <<main, service, file, state>>
          /\ client[c] \notin {"away", "gone"}
          /\ \E to \in States : client' = [client EXCEPT ![c] = to]
      BY <1>1 DEF ThreadStep, RegisterPlayer, ConnectPlayer, Rollback, Count, Leave, Unregister,
                  DisconnectPlayer, Uncount, Goes, States
    <2>2. client' \in [Clients -> States] /\ main \notin Joined
      BY <2>1
    <2> QED
      BY <2>1, <2>2
  <1>2. CASE Play(c)
    <2>1. /\ UNCHANGED <<main, client, service, file>> /\ main \notin Joined
          /\ \E s \in Saving : state' = [state EXCEPT ![s] = @ + 1]
      BY <1>2 DEF Play, Saving
    <2>2. DOMAIN state' = Saving /\ state' = [s \in Saving |-> state'[s]]
      BY <2>1
    <2> QED
      BY <2>1, <2>2
  <1> QED
    BY <1>1, <1>2

\* A service that fails, and an operator's commands: a save writes what the
\* state is.
LEMMA OthersKeepExit ==
  ASSUME ExitInvariant,
         \/ \E s \in Services : ServiceFails(s)
         \/ Overflow
         \/ \E o \in Operators : OperatorStep(o) \/ Order(o)
         \/ GuiEnds
  PROVE  ExitInvariant'
  <1> USE DEF ExitInvariant, ExitTypeOK, ClientsAreJoined, LastSavesAreComplete,
              ServicesAreStopped
  <1>1. ASSUME NEW s \in Services, ServiceFails(s) PROVE ExitInvariant'
    BY <1>1 DEF ServiceFails, Services, Saving
  <1>2. ASSUME NEW o \in Operators, NEW s \in Saving, Save(o, s) PROVE ExitInvariant'
    <2>1. /\ UNCHANGED <<main, client, service, state>>
          /\ file' = file \/ file' = [file EXCEPT ![s] = state[s]]
      BY <1>2 DEF Save, OperatorRest
    <2>2. DOMAIN file' = Saving /\ file' = [t \in Saving |-> file'[t]]
      BY <2>1
    <2> QED
      BY <2>1, <2>2
  <1>3. ASSUME UNCHANGED <<main, client, service, state, file>> PROVE ExitInvariant'
    BY <1>3
  <1>4. \/ UNCHANGED <<main, client, service, state, file>>
        \/ \E s \in Services : ServiceFails(s)
        \/ \E o \in Operators, s \in Saving : Save(o, s)
    BY DEF Overflow, OperatorStep, Stop, Order, GuiEnds, OperatorRest, Saving
  <1> QED
    BY <1>1, <1>2, <1>3, <1>4

\* When the process has ended, no service is left running, and a snapshot file
\* whose service did not fail holds every change the players have made.
THEOREM ExitSavesEverything == Spec => []ExitIsComplete
  <1>1. Init => ExitInvariant
    BY DEF Init, ExitInvariant, ExitTypeOK, ClientsAreJoined, LastSavesAreComplete,
           ServicesAreStopped, Joined, Saving, Services, States
  <1>2. ExitInvariant /\ [Next]_serverVars => ExitInvariant'
    <2> SUFFICES ASSUME ExitInvariant, [Next]_serverVars PROVE ExitInvariant'
      OBVIOUS
    <2>1. CASE UNCHANGED serverVars
      BY <2>1 DEF serverVars, ExitInvariant, ExitTypeOK, ClientsAreJoined, LastSavesAreComplete,
                  ServicesAreStopped
    <2> QED
      BY <2>1, MainKeepsExit, ThreadKeepsExit, OthersKeepExit DEF Next
  <1>3. ExitInvariant => ExitIsComplete
    BY DEF ExitInvariant, LastSavesAreComplete, ServicesAreStopped, ExitIsComplete, Saving
  <1> QED
    BY <1>1, <1>2, <1>3, PTL DEF Spec
============================================================================
