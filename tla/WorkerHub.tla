------------------------------- MODULE WorkerHub -------------------------------
(***************************************************************************)
(* The worker hub of crates/ferrum-runtime/src/worker.rs around the input  *)
(* queue: connection workers hand commands to the runtime owner through    *)
(* one bounded channel, the owner ingests them one by one between drains,  *)
(* and sends to each worker through that worker's own bounded channel.     *)
(* Every send is a try_send: a full or closed channel loses what was sent. *)
(*                                                                         *)
(* Two workers may register under the same ConnectionId; the later         *)
(* registration then replaces the earlier one.                             *)
(***************************************************************************)
EXTENDS InputQueue

CONSTANTS
  Worker,           \* the ConnectionWorkers that may register
  ConnectionOf,     \* the ConnectionId each of them registers under
  NoWorker,         \* no registration for a ConnectionId
  CommandCapacity,  \* capacity of the command channel
  OutputCapacity,   \* capacity of each output channel
  MaxInputs,        \* bound: the largest InputBudget
  InputBudget       \* bound: how many inputs each worker submits

ASSUME WorkerHubAssumption ==
  /\ IsFiniteSet(Worker)
  /\ NoWorker \notin Worker
  /\ ConnectionOf \in [Worker -> Connection]
  /\ Payload = [worker : Worker, n : 1 .. MaxInputs]
  /\ {CommandCapacity, OutputCapacity} \subseteq Nat \ {0}
  /\ MaxInputs \in Nat
  /\ InputBudget \in [Worker -> 0 .. MaxInputs]

VARIABLES
  commands,    \* the command channel
  outputs,     \* WorkerRuntime::outputs, the registered worker of each id
  outQueue,    \* what waits in each worker's output channel
  receiver,    \* the receiving half of that channel
  submitted,   \* how many inputs each worker has submitted
  alive,       \* the runtime owner still holds the WorkerRuntime
  unsettled,   \* the sum over the polls of the report counters accepted_inputs
               \* less removed_inputs, less the inputs the ticks were handed
  ingested,    \* history: the last input of each worker the owner has ingested
  revoked      \* history: the last of them ingested before the worker's
               \* connection was disconnected or replaced

workerVars == <<commands, receiver, submitted>>
reportVars == <<unsettled, ingested, revoked>>
hubVars == <<commands, outputs, outQueue, receiver, submitted, alive,
             unsettled, ingested, revoked>>
vars == <<inputVars, hubVars>>

Register(w) == [type |-> "Register", worker |-> w]
Input(w, n) == [type |-> "Input", worker |-> w, n |-> n]
Output(w) == [type |-> "Output", worker |-> w]
Disconnect(w) == [type |-> "Disconnect", worker |-> w]
Command ==
  {Register(w) : w \in Worker} \cup {Output(w) : w \in Worker}
    \cup {Disconnect(w) : w \in Worker} \cup {Input(w, n) : w \in Worker, n \in 1 .. MaxInputs}

WorkersOf(c) == {w \in Worker : ConnectionOf[w] = c}

HubInit ==
  /\ QueueInit
  /\ commands = <<>>
  /\ outputs = [c \in Connection |-> NoWorker]
  /\ outQueue = [w \in Worker |-> <<>>]
  /\ receiver = [w \in Worker |-> "unborn"]
  /\ submitted = [w \in Worker |-> 0]
  /\ alive = TRUE
  /\ unsettled = 0
  /\ ingested = [w \in Worker |-> 0]
  /\ revoked = [w \in Worker |-> 0]

-----------------------------------------------------------------------------
(* Defects the runs must reject: a command that overtakes those before it, *)
(* a removal that keeps the inputs and one that keeps their numbers.       *)
Overtaking(command) ==
  /\ alive
  /\ Len(commands) < CommandCapacity
  /\ commands' = <<command>> \o commands

Revoke(c) ==
  revoked' = [w \in Worker |-> IF w \in WorkersOf(c) THEN ingested[w] ELSE revoked[w]]
KeepInputs(c) == Revoke(c) /\ UNCHANGED <<inputVars, unsettled>>
KeepNumbering(c) ==
  /\ pending' = [pending EXCEPT ![c] = <<>>]
  /\ len' = len - Len(pending[c])
  /\ unsettled' = unsettled - Len(pending[c])
  /\ Revoke(c)
  /\ UNCHANGED <<nextSequence, drainVars, consumed>>

(* Worker side.  try_send on the command channel, when it succeeds.        *)
Submit(command) ==
  /\ alive
  /\ Len(commands) < CommandCapacity
  /\ commands' = Append(commands, command)

TryConnect(w) ==
  /\ receiver[w] = "unborn"
  /\ Submit(Register(w))
  /\ receiver' = [receiver EXCEPT ![w] = "open"]
  /\ UNCHANGED <<inputVars, outputs, outQueue, submitted, alive, reportVars>>

(* An input that finds the channel full goes back to the caller, lost.     *)
TrySendInput(w) ==
  /\ receiver[w] # "unborn"
  /\ submitted[w] < InputBudget[w]
  /\ submitted' = [submitted EXCEPT ![w] = @ + 1]
  /\ \/ Submit(Input(w, submitted[w] + 1))
     \/ Len(commands) = CommandCapacity /\ UNCHANGED commands
  /\ UNCHANGED <<inputVars, outputs, outQueue, receiver, alive, reportVars>>

TrySendOutput(w) ==
  /\ receiver[w] # "unborn"
  /\ Submit(Output(w))
  /\ UNCHANGED <<inputVars, outputs, outQueue, receiver, submitted, alive, reportVars>>

TryDisconnect(w) ==
  /\ receiver[w] # "unborn"
  /\ Submit(Disconnect(w))
  /\ UNCHANGED <<inputVars, outputs, outQueue, receiver, submitted, alive, reportVars>>

TryRecvOutput(w) ==
  /\ receiver[w] = "open"
  /\ outQueue[w] # <<>>
  /\ outQueue' = [outQueue EXCEPT ![w] = Tail(@)]
  /\ UNCHANGED <<inputVars, commands, outputs, receiver, submitted, alive, reportVars>>

(* The writer that owns the receiver exits and drops it.                   *)
DropReceiver(w) ==
  /\ receiver[w] = "open"
  /\ receiver' = [receiver EXCEPT ![w] = "dropped"]
  /\ outQueue' = [outQueue EXCEPT ![w] = <<>>]
  /\ UNCHANGED <<inputVars, commands, outputs, submitted, alive, reportVars>>

-----------------------------------------------------------------------------
(* Owner side: sending to the worker registered for c.                     *)
Deliver(c) ==
  LET w == outputs[c] IN
  IF receiver[w] = "open"
  THEN /\ outQueue' = [outQueue EXCEPT ![w] =
            IF Len(@) < OutputCapacity THEN Append(@, "output") ELSE @]
       /\ UNCHANGED outputs
  ELSE /\ outputs' = [outputs EXCEPT ![c] = NoWorker]
       /\ UNCHANGED outQueue

(* inputs.remove_connection and its report.                                *)
RemoveInputs(c) ==
  /\ RemoveConnection(c)
  /\ unsettled' = unsettled - Len(pending[c])
  /\ Revoke(c)

(* One iteration of ingest_available: the oldest command is taken and      *)
(* handled.  The four handlers follow.                                     *)
Take(type) ==
  /\ alive /\ ~draining
  /\ commands # <<>>
  /\ Head(commands).type = type
  /\ commands' = Tail(commands)

Sender == Head(commands).worker
Id == ConnectionOf[Sender]

IngestRegister ==
  /\ Take("Register")
  /\ outputs' = [outputs EXCEPT ![Id] = Sender]
  /\ IF outputs[Id] # NoWorker
     THEN RemoveInputs(Id)
     ELSE UNCHANGED <<inputVars, unsettled, revoked>>
  /\ UNCHANGED <<outQueue, receiver, submitted, alive, ingested>>

(* An input of an unregistered id is orphaned; one that finds the queue    *)
(* full is dropped; one that overflows its sequence ends the poll with an  *)
(* error.  None of the three changes the queue.                            *)
IngestInput ==
  /\ Take("Input")
  /\ ingested' = [ingested EXCEPT ![Sender] = Head(commands).n]
  /\ IF outputs[Id] # NoWorker /\ HasRoom /\ ~SequenceOverflow(Id)
     THEN /\ Push(Id, [worker |-> Sender, n |-> Head(commands).n])
          /\ unsettled' = unsettled + 1
     ELSE UNCHANGED <<inputVars, unsettled>>
  /\ UNCHANGED <<outputs, outQueue, receiver, submitted, alive, revoked>>

IngestOutput ==
  /\ Take("Output")
  /\ IF outputs[Id] # NoWorker THEN Deliver(Id) ELSE UNCHANGED <<outputs, outQueue>>
  /\ UNCHANGED <<inputVars, receiver, submitted, alive, reportVars>>

IngestDisconnect ==
  /\ Take("Disconnect")
  /\ outputs' = [outputs EXCEPT ![Id] = NoWorker]
  /\ RemoveInputs(Id)
  /\ UNCHANGED <<outQueue, receiver, submitted, alive, ingested>>

Ingest == IngestRegister \/ IngestInput \/ IngestOutput \/ IngestDisconnect

SendOutput(c) ==
  /\ alive /\ ~draining
  /\ outputs[c] # NoWorker
  /\ Deliver(c)
  /\ UNCHANGED <<inputVars, workerVars, alive, reportVars>>

(* One pass over every registered worker: a full queue is skipped, and a   *)
(* worker whose receiver is gone is removed.                               *)
Broadcast ==
  LET open == {c \in Connection : outputs[c] # NoWorker /\ receiver[outputs[c]] = "open"} IN
  /\ alive /\ ~draining
  /\ outputs' = [c \in Connection |-> IF c \in open THEN outputs[c] ELSE NoWorker]
  /\ outQueue' = [w \in Worker |->
       IF \E c \in open : outputs[c] = w /\ Len(outQueue[w]) < OutputCapacity
       THEN Append(outQueue[w], "output") ELSE outQueue[w]]
  /\ UNCHANGED <<inputVars, workerVars, alive, reportVars>>

(* The tick loop drains its budget of inputs.                              *)
Drain ==
  /\ alive
  /\ (\E max \in DrainLimit : BeginDrain(max)) \/ DrainStep
  /\ unsettled' = unsettled - (len - len')
  /\ UNCHANGED <<commands, outputs, outQueue, receiver, submitted, alive,
                 ingested, revoked>>

(* The owner is dropped with the queue and the registrations, which nobody *)
(* reads again: every later send finds the channel closed.                 *)
DropRuntime ==
  /\ alive /\ ~draining
  /\ alive' = FALSE
  /\ commands' = <<>>
  /\ UNCHANGED <<inputVars, outputs, outQueue, receiver, submitted, reportVars>>

OwnerNext == Ingest \/ Drain \/ Broadcast \/ DropRuntime \/ \E c \in Connection : SendOutput(c)

WorkerNext(w) ==
  \/ TryConnect(w) \/ TrySendInput(w) \/ TrySendOutput(w) \/ TryDisconnect(w)
  \/ TryRecvOutput(w) \/ DropReceiver(w)

HubNext == OwnerNext \/ \E w \in Worker : WorkerNext(w)

(* The owner polls for ever: a poll first ingests, then runs the due ticks *)
(* to their end, so draining cannot keep it from ingesting.                *)
HubFairness == SF_vars(Ingest) /\ WF_vars(Drain /\ draining)

HubSpec == HubInit /\ [][HubNext]_vars /\ HubFairness

-----------------------------------------------------------------------------
(* Every variable keeps its type; neither channel exceeds its capacity.    *)
HubTypeOK ==
  /\ QueueTypeOK
  /\ commands \in Seq(Command) /\ Len(commands) <= CommandCapacity
  /\ outputs \in [Connection -> Worker \cup {NoWorker}]
  /\ outQueue \in [Worker -> Seq({"output"})]
  /\ \A w \in Worker : Len(outQueue[w]) <= OutputCapacity
  /\ receiver \in [Worker -> {"unborn", "open", "dropped"}]
  /\ submitted \in [Worker -> 0 .. MaxInputs]
  /\ alive \in BOOLEAN
  /\ unsettled \in Nat
  /\ ingested \in [Worker -> 0 .. MaxInputs]
  /\ revoked \in [Worker -> 0 .. MaxInputs]

(* The report counters balance: every input the hub reported as accepted   *)
(* was processed by a tick, reported as removed, or is still queued.       *)
IngressBalance == unsettled = len

(* "Remove pending authoritative input ... when a connection disconnects   *)
(* or is replaced" (docs/SERVER_ROADMAP.md:195): what a worker sent before *)
(* the disconnect or the replacement never reaches a tick afterwards.      *)
RevokedInputsGone ==
  \A c \in Connection : \A i \in 1 .. Len(pending[c]) :
    pending[c][i].payload.n > revoked[pending[c][i].payload.worker]

(* A Disconnect that entered the channel removes the registration of its   *)
(* connection, however many workers keep the channel full and however busy *)
(* the ticks are.                                                          *)
DisconnectTakesEffect ==
  \A w \in Worker :
    (\E i \in 1 .. Len(commands) : commands[i] = Disconnect(w))
      ~> outputs[ConnectionOf[w]] = NoWorker \/ ~alive

(* The hub only ever uses its queue as the queue's own specification       *)
(* allows: no step of a worker or of the owner changes it in the middle of *)
(* a drain or behind push and remove_connection, so everything said of     *)
(* QueueSpec holds inside the hub.                                         *)
UsesQueue == QueueSpec
=============================================================================
