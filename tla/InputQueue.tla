------------------------------ MODULE InputQueue ------------------------------
(***************************************************************************)
(* BoundedInputQueue of crates/ferrum-runtime/src/lib.rs: the queue that   *)
(* the authoritative thread owns, one FIFO per connection under one shared *)
(* capacity, drained once per tick in round-robin order.                   *)
(*                                                                         *)
(* drain_tick is modelled loop iteration by loop iteration, so that its    *)
(* fairness is an invariant of the loop and not part of its definition.    *)
(* A connection that the code's BTreeMaps do not hold is one whose FIFO is *)
(* empty and whose next sequence is 0: no operation tells the two apart.   *)
(***************************************************************************)
EXTENDS Integers, Sequences, FiniteSets

CONSTANTS
  Connection,     \* the ConnectionIds in use: naturals, visited in ascending order
  Payload,        \* what an input carries
  QueueCapacity,  \* BoundedInputQueue::capacity, a NonZeroUsize
  MaxSequence,    \* u64::MAX, the last value next_sequence can hold
  DrainLimit      \* the values callers pass as drain_tick's max_events

ASSUME InputQueueAssumption ==
  /\ Connection \subseteq Nat
  /\ IsFiniteSet(Connection)
  /\ QueueCapacity \in Nat \ {0}
  /\ MaxSequence \in Nat
  /\ DrainLimit \subseteq Nat

VARIABLES
  pending,        \* the FIFO of each connection
  nextSequence,   \* the sequence number its next accepted input gets
  len,            \* the counter the capacity check reads
  draining,       \* TRUE inside drain_tick
  target,         \* how many inputs this drain_tick may take
  drained,        \* what it has taken so far, in order
  round,          \* the connections it has yet to visit in this round
  served,         \* history: inputs taken from each connection by this drain
  consumed        \* history: inputs taken from each connection since its
                  \* sequence numbers last started from 0

queueVars == <<pending, nextSequence, len>>
drainVars == <<draining, target, drained, round, served>>
inputVars == <<pending, nextSequence, len, draining, target, drained, round, served, consumed>>

Envelope == [connection : Connection, sequence : Nat, payload : Payload]

(* The slots in use: their number is what len has to be.                   *)
Slots == UNION {{c} \X (1 .. Len(pending[c])) : c \in Connection}

(* The keys of the pending map after its retain of non-empty FIFOs.        *)
Ready == {c \in Connection : pending[c] # <<>>}

(* Defects the runs must reject: a drain that empties one FIFO before it   *)
(* turns to the next, and a removal that keeps the inputs of a connection. *)
ExhaustFirst(c) == IF Len(pending[c]) > 1 THEN round ELSE round \ {c}
ForgetOnlySequence(c) ==
  /\ nextSequence' = [nextSequence EXCEPT ![c] = 0]
  /\ consumed' = [consumed EXCEPT ![c] = 0]
  /\ UNCHANGED <<pending, len>>

(* BTreeMap keys come in ascending order.                                  *)
Lowest(S) == CHOOSE c \in S : \A d \in S : c <= d

HasRoom == len < QueueCapacity

QueueInit ==
  /\ pending = [c \in Connection |-> <<>>]
  /\ nextSequence = [c \in Connection |-> 0]
  /\ len = 0
  /\ draining = FALSE
  /\ target = 0
  /\ drained = <<>>
  /\ round = {}
  /\ served = [c \in Connection |-> 0]
  /\ consumed = [c \in Connection |-> 0]

(* push when it succeeds: the other two outcomes, Full and                 *)
(* SequenceOverflow, leave the queue as it is.                             *)
Push(c, p) ==
  /\ HasRoom
  /\ nextSequence[c] < MaxSequence
  /\ pending' = [pending EXCEPT ![c] =
       Append(@, [connection |-> c, sequence |-> nextSequence[c], payload |-> p])]
  /\ nextSequence' = [nextSequence EXCEPT ![c] = @ + 1]
  /\ len' = len + 1
  /\ UNCHANGED <<drainVars, consumed>>

SequenceOverflow(c) == HasRoom /\ nextSequence[c] = MaxSequence

(* The effect of remove_connection on the queue itself.                    *)
ForgetConnection(c) ==
  /\ pending' = [pending EXCEPT ![c] = <<>>]
  /\ nextSequence' = [nextSequence EXCEPT ![c] = 0]
  /\ len' = len - Len(pending[c])
  /\ consumed' = [consumed EXCEPT ![c] = 0]

RemoveConnection(c) == ForgetConnection(c) /\ UNCHANGED drainVars

(* drain_tick: entry, one round's snapshot of the keys, one visit, exit.   *)
DrainTarget(max) == IF max < len THEN max ELSE len

BeginDrain(max) ==
  /\ ~draining
  /\ draining' = TRUE
  /\ target' = DrainTarget(max)
  /\ UNCHANGED <<queueVars, drained, round, served, consumed>>

(* The rest of the round once c has been visited.                          *)
StillToVisit(c) == round \ {c}

BeginRound ==
  /\ draining
  /\ Len(drained) < target
  /\ round = {}
  /\ Ready # {}
  /\ round' = Ready
  /\ UNCHANGED <<queueVars, draining, target, drained, served, consumed>>

Visit ==
  /\ draining
  /\ Len(drained) < target
  /\ round # {}
  /\ LET c == Lowest(round) IN
       /\ drained' = Append(drained, Head(pending[c]))
       /\ pending' = [pending EXCEPT ![c] = Tail(@)]
       /\ round' = StillToVisit(c)
       /\ served' = [served EXCEPT ![c] = @ + 1]
       /\ consumed' = [consumed EXCEPT ![c] = @ + 1]
  /\ len' = len - 1
  /\ UNCHANGED <<nextSequence, draining, target>>

(* The loop ends at the target, or when a round finds nothing to take; the *)
(* vector goes to the caller.                                              *)
EndDrain ==
  /\ draining
  /\ Len(drained) >= target \/ (round = {} /\ Ready = {})
  /\ draining' = FALSE
  /\ target' = 0
  /\ drained' = <<>>
  /\ round' = {}
  /\ served' = [c \in Connection |-> 0]
  /\ UNCHANGED <<queueVars, consumed>>

DrainStep == BeginRound \/ Visit \/ EndDrain

QueueNext ==
  \/ \E c \in Connection : ~draining /\ RemoveConnection(c)
  \/ \E c \in Connection, p \in Payload : ~draining /\ Push(c, p)
  \/ \E max \in DrainLimit : BeginDrain(max)
  \/ DrainStep

QueueSpec == QueueInit /\ [][QueueNext]_inputVars

-----------------------------------------------------------------------------
(* Every variable keeps its type.  The bound on nextSequence is what       *)
(* checked_add at lib.rs:112 guards; len never leaves the usize range at   *)
(* lib.rs:152 and 171.                                                     *)
QueueTypeOK ==
  /\ pending \in [Connection -> Seq(Envelope)]
  /\ nextSequence \in [Connection -> 0 .. MaxSequence]
  /\ len \in 0 .. QueueCapacity
  /\ draining \in BOOLEAN
  /\ target \in 0 .. QueueCapacity
  /\ drained \in Seq(Envelope)
  /\ round \subseteq Connection
  /\ served \in [Connection -> Nat]
  /\ consumed \in [Connection -> Nat]

(* The counter kept by hand in push, drain_tick and remove_connection is   *)
(* the number of queued inputs, so the capacity is never exceeded and      *)
(* never leaks away, whatever removals fall between drains.                *)
LenIsAccurate == len = Cardinality(Slots)

Numbered(c) ==
  /\ nextSequence[c] = consumed[c] + Len(pending[c])
  /\ \A i \in 1 .. Len(pending[c]) :
       /\ pending[c][i].connection = c
       /\ pending[c][i].sequence = consumed[c] + i - 1

(* What a connection has queued is numbered without a gap or a repeat from *)
(* the last input the tick loop took of it up to next_sequence: an input   *)
(* accepted by push is taken exactly once, in the order of acceptance,     *)
(* unless remove_connection forgets the connection.                        *)
SequencesContiguous == \A c \in Connection : Numbered(c)

(* The three together, whatever removals fall between two drains.          *)
QueueIsSound == QueueTypeOK /\ LenIsAccurate /\ SequencesContiguous

(* "A noisy connection cannot consume the complete per-tick budget while   *)
(* another connection is ready" (lib.rs:130): within one drain nobody is   *)
(* more than one input ahead of a connection that still has inputs queued. *)
FairShare ==
  draining => \A c, d \in Connection : pending[d] # <<>> => served[c] <= served[d] + 1

(* A drain never stops short of min(max_events, len), the size of the      *)
(* vector it reserved at lib.rs:134: the defensive break at lib.rs:157     *)
(* does not cost an input its tick.                                        *)
DrainMeetsTarget == [][EndDrain => Len(drained) = target]_inputVars
=============================================================================
