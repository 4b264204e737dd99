-------------------------- MODULE AuthoritativeRuntime --------------------------
(***************************************************************************)
(* AuthoritativePlayRuntime of crates/ferrum-server/src/                   *)
(* authoritative_runtime.rs, the single owner of the Play inputs: it polls *)
(* the worker hub, forgets the connections the hub no longer knows, runs   *)
(* the due ticks, and keeps every connection alive by numbered requests.   *)
(*                                                                         *)
(* The hub is abstracted to what module WorkerHub says of it: a bounded    *)
(* command channel and per-connection FIFOs of inputs; the order in which  *)
(* a tick takes the inputs of different connections is left open.  The     *)
(* connections' threads and clients are the environment: a client answers  *)
(* each request it receives once.  Of the connections not followed only    *)
(* the ids they use up matter.                                             *)
(***************************************************************************)
EXTENDS Integers, Sequences, Functions

CONSTANTS
  Connection,        \* the ConnectionIds followed; main.rs never uses one twice
  NoState,           \* no entry in the connections map
  KeepAliveInterval, \* keep_alive_interval_ticks
  MaxKeepAliveId,    \* i64::MAX, where next_keep_alive_id saturates
  CommandCapacity,   \* capacity of the command channel
  InputCapacity,     \* capacity of the input queue
  OutputCapacity     \* capacity of each output channel

ASSUME AuthoritativeRuntimeAssumption ==
  {KeepAliveInterval, MaxKeepAliveId, CommandCapacity, InputCapacity, OutputCapacity}
    \subseteq Nat \ {0}

VARIABLES
  commands,         \* the command channel
  registered,       \* connections with an entry in WorkerRuntime::outputs
  inputs,           \* the queued inputs of each connection
  connections,      \* the ConnectionRuntimeState of each connection
  nextKeepAliveId,
  ticking,          \* the owner is inside the ticks of a poll
  outbox,           \* the output channel of each connection
  session,          \* the connection's threads: not there yet, open, closing
                    \* (the writer is gone), or over
  asked,            \* requests the client has received and not answered
  lost              \* history: the hub dropped a request to this connection
                    \* or an input from it

vars == <<commands, registered, inputs, connections, nextKeepAliveId, ticking,
          outbox, session, asked, lost>>

TickEnd == [type |-> "ClientTickEnd"]
Movement == [type |-> "Movement"]
Response(id) == [type |-> "KeepAliveResponse", id |-> id]
Request(id) == [type |-> "KeepAliveRequest", id |-> id]
Disconnect == [type |-> "Disconnect"]
Register == [type |-> "Register"]
Packet == [type |-> "Packet"]

KeepAliveId == 1 .. MaxKeepAliveId
PlayInput == {TickEnd, Movement} \cup {Response(id) : id \in KeepAliveId}
PlayOutput == {Disconnect, Packet} \cup {Request(id) : id \in KeepAliveId}

(* request is last_keep_alive_request, 0 for None.  ticks counts up to the *)
(* interval and no further: only the comparison with it reads the counter. *)
(* The remaining fields are written and never read.                        *)
State == [pending : BOOLEAN, request : 0 .. MaxKeepAliveId, ticks : 0 .. KeepAliveInterval]
DefaultState == [pending |-> FALSE, request |-> 0, ticks |-> 0]

ASSUME NoStateAssumption == NoState \notin State

(* connections.entry(c).or_default()                                       *)
StateOf(c) == IF connections[c] = NoState THEN DefaultState ELSE connections[c]

QueuedInputs == SumFunction([c \in Connection |-> Len(inputs[c])])

RuntimeInit ==
  /\ commands = <<>>
  /\ registered = {}
  /\ inputs = [c \in Connection |-> <<>>]
  /\ connections = [c \in Connection |-> NoState]
  /\ nextKeepAliveId = 1
  /\ ticking = FALSE
  /\ outbox = [c \in Connection |-> <<>>]
  /\ session = [c \in Connection |-> "none"]
  /\ asked = [c \in Connection |-> <<>>]
  /\ lost = [c \in Connection |-> FALSE]

-----------------------------------------------------------------------------
(* Defects the runs must reject: a request sent although one is pending,   *)
(* an answer that does not clear the pending mark, and a poll that keeps   *)
(* the state of unregistered ones.                                         *)
DueThoughPending(s) == s.ticks >= KeepAliveInterval
AnswerKeepsPending(s, id) == s
ForgetNobody == UNCHANGED connections

(* The hub.  try_send on the command channel when it has room.             *)
Submit(c, body) ==
  /\ Len(commands) < CommandCapacity
  /\ commands' = Append(commands, [connection |-> c, body |-> body])

Take(type) ==
  /\ ~ticking
  /\ commands # <<>>
  /\ Head(commands).body.type \in type
  /\ commands' = Tail(commands)

Sender == Head(commands).connection
Body == Head(commands).body

IngestRegister ==
  /\ Take({"Register"})
  /\ registered' = registered \cup {Sender}
  /\ UNCHANGED <<inputs, connections, nextKeepAliveId, ticking, outbox, session, asked, lost>>

IngestDisconnect ==
  /\ Take({"Disconnect"})
  /\ registered' = registered \ {Sender}
  /\ inputs' = [inputs EXCEPT ![Sender] = <<>>]
  /\ UNCHANGED <<connections, nextKeepAliveId, ticking, outbox, session, asked, lost>>

IngestInput ==
  /\ Take({"ClientTickEnd", "Movement", "KeepAliveResponse"})
  /\ IF Sender \in registered /\ QueuedInputs < InputCapacity
     THEN inputs' = [inputs EXCEPT ![Sender] = Append(@, Body)] /\ UNCHANGED lost
     ELSE lost' = [lost EXCEPT ![Sender] = TRUE] /\ UNCHANGED inputs
  /\ UNCHANGED <<registered, connections, nextKeepAliveId, ticking, outbox, session, asked>>

(* try_send_output: unknown, delivered, receiver gone, or full.            *)
SendOutput(c, output) ==
  CASE c \notin registered -> UNCHANGED <<registered, outbox>>
    [] c \in registered /\ session[c] # "open" ->
         registered' = registered \ {c} /\ UNCHANGED outbox
    [] c \in registered /\ session[c] = "open" ->
         /\ outbox' = [outbox EXCEPT ![c] =
                           IF Len(@) < OutputCapacity THEN Append(@, output) ELSE @]
         /\ UNCHANGED registered

Refused(c) == c \in registered /\ session[c] = "open" /\ Len(outbox[c]) >= OutputCapacity

IngestOutput ==
  /\ Take({"Packet"})
  /\ SendOutput(Sender, Body)
  /\ UNCHANGED <<inputs, connections, nextKeepAliveId, ticking, session, asked, lost>>

-----------------------------------------------------------------------------
(* The end of ingest_available, by an empty channel or by its budget, and  *)
(* remove_unregistered_connection_state; then the clock has ticks due, or  *)
(* has none and the poll is over.                                          *)
ForgetUnregistered ==
  connections' = [c \in Connection |-> IF c \in registered THEN connections[c] ELSE NoState]

EndIngest ==
  /\ ~ticking
  /\ ForgetUnregistered
  /\ ticking' \in BOOLEAN
  /\ UNCHANGED <<commands, registered, inputs, nextKeepAliveId, outbox, session, asked, lost>>

EndTicks ==
  /\ ticking
  /\ ticking' = FALSE
  /\ UNCHANGED <<commands, registered, inputs, connections, nextKeepAliveId, outbox, session,
                 asked, lost>>

(* execute_tick takes an input of c; its handlers follow.                  *)
TakeInput(c, type) ==
  /\ ticking
  /\ inputs[c] # <<>>
  /\ Head(inputs[c]).type = type
  /\ inputs' = [inputs EXCEPT ![c] = Tail(@)]

Due(s) == ~s.pending /\ s.ticks >= KeepAliveInterval

NextId == IF nextKeepAliveId < MaxKeepAliveId THEN nextKeepAliveId + 1 ELSE MaxKeepAliveId

ExecuteTickEnd(c) ==
  LET old == StateOf(c)
      s == [old EXCEPT !.ticks = IF @ < KeepAliveInterval THEN @ + 1 ELSE @] IN
  /\ TakeInput(c, "ClientTickEnd")
  /\ IF Due(s)
     THEN /\ connections' = [connections EXCEPT ![c] =
                [pending |-> TRUE, request |-> nextKeepAliveId, ticks |-> 0]]
          /\ nextKeepAliveId' = NextId
          /\ SendOutput(c, Request(nextKeepAliveId))
          /\ lost' = [lost EXCEPT ![c] = @ \/ Refused(c)]
     ELSE /\ connections' = [connections EXCEPT ![c] = s]
          /\ UNCHANGED <<nextKeepAliveId, registered, outbox, lost>>
  /\ UNCHANGED <<commands, ticking, session, asked>>

Acknowledge(s, id) == IF s.request = id THEN [s EXCEPT !.pending = FALSE] ELSE s

ExecuteKeepAliveResponse(c) ==
  LET s == StateOf(c)
      id == Head(inputs[c]).id IN
  /\ TakeInput(c, "KeepAliveResponse")
  /\ connections' = [connections EXCEPT ![c] = Acknowledge(s, id)]
  /\ IF s.pending /\ s.request # id
     THEN SendOutput(c, Disconnect)
     ELSE UNCHANGED <<registered, outbox>>
  /\ UNCHANGED <<commands, nextKeepAliveId, ticking, session, asked, lost>>

(* Movement and ChunkBatchReceived only record what nothing reads.         *)
ExecuteMovement(c) ==
  /\ TakeInput(c, "Movement")
  /\ connections' = [connections EXCEPT ![c] = StateOf(c)]
  /\ UNCHANGED <<commands, registered, nextKeepAliveId, ticking, outbox, session, asked, lost>>

(* A connection that is not followed is asked.                             *)
AskOther ==
  /\ ticking
  /\ nextKeepAliveId' = NextId
  /\ UNCHANGED <<commands, registered, inputs, connections, ticking, outbox, session, asked, lost>>

ExecuteInput(c) == ExecuteTickEnd(c) \/ ExecuteKeepAliveResponse(c) \/ ExecuteMovement(c)

Ingest == IngestRegister \/ IngestDisconnect \/ IngestInput \/ IngestOutput

OwnerNext == Ingest \/ EndIngest \/ EndTicks \/ AskOther \/ \E c \in Connection : ExecuteInput(c)

-----------------------------------------------------------------------------
(* The environment.  try_enter_play registers a connection.                *)
Enter(c) ==
  /\ session[c] = "none"
  /\ Submit(c, Register)
  /\ session' = [session EXCEPT ![c] = "open"]
  /\ UNCHANGED <<registered, inputs, connections, nextKeepAliveId, ticking, outbox, asked, lost>>

(* The reader thread submits what the client sends; a full channel fails   *)
(* the session.                                                            *)
SubmitInput(c, input) ==
  /\ session[c] = "open"
  /\ \/ Submit(c, input) /\ UNCHANGED <<outbox, session>>
     \/ /\ Len(commands) >= CommandCapacity
        /\ session' = [session EXCEPT ![c] = "closing"]
        /\ outbox' = [outbox EXCEPT ![c] = <<>>]
        /\ UNCHANGED commands
  /\ UNCHANGED <<registered, inputs, connections, nextKeepAliveId, ticking, lost>>

ClientTick(c) == SubmitInput(c, TickEnd) /\ UNCHANGED asked
ClientMoves(c) == SubmitInput(c, Movement) /\ UNCHANGED asked
ClientAnswers(c) ==
  /\ asked[c] # <<>>
  /\ SubmitInput(c, Response(Head(asked[c])))
  /\ asked' = [asked EXCEPT ![c] = Tail(@)]

(* The reader and other threads submit output of their own.                *)
SubmitOutput(c) ==
  /\ session[c] = "open"
  /\ Submit(c, Packet)
  /\ UNCHANGED <<registered, inputs, connections, nextKeepAliveId, ticking, outbox, session,
                 asked, lost>>

(* The writer thread writes one output to the socket; a Disconnect stops   *)
(* it.                                                                     *)
WriteOutput(c) ==
  /\ session[c] = "open"
  /\ outbox[c] # <<>>
  /\ LET output == Head(outbox[c]) IN
       /\ asked' = [asked EXCEPT ![c] =
            IF output.type = "KeepAliveRequest" THEN Append(@, output.id) ELSE @]
       /\ session' = [session EXCEPT ![c] = IF output = Disconnect THEN "closing" ELSE @]
       /\ outbox' = [outbox EXCEPT ![c] = IF output = Disconnect THEN <<>> ELSE Tail(@)]
  /\ UNCHANGED <<commands, registered, inputs, connections, nextKeepAliveId, ticking, lost>>

(* The client leaves: the writer is shut down first, then the guard asks   *)
(* for the removal, and gives up when the channel is full.                 *)
CloseWriter(c) ==
  /\ session[c] = "open"
  /\ session' = [session EXCEPT ![c] = "closing"]
  /\ outbox' = [outbox EXCEPT ![c] = <<>>]
  /\ UNCHANGED <<commands, registered, inputs, connections, nextKeepAliveId, ticking, asked, lost>>

Leave(c) ==
  /\ session[c] = "closing"
  /\ session' = [session EXCEPT ![c] = "over"]
  /\ \/ Submit(c, Disconnect)
     \/ Len(commands) >= CommandCapacity /\ UNCHANGED commands
  /\ UNCHANGED <<registered, inputs, connections, nextKeepAliveId, ticking, outbox, asked, lost>>

WorkerNext(c) ==
  \/ Enter(c) \/ ClientTick(c) \/ ClientMoves(c) \/ ClientAnswers(c) \/ SubmitOutput(c)
  \/ WriteOutput(c) \/ CloseWriter(c) \/ Leave(c)

RuntimeNext == OwnerNext \/ \E c \in Connection : WorkerNext(c)

(* The owner polls for ever, with a clock that keeps falling due; a tick's *)
(* budget takes inputs of every connection that has some.  A client keeps  *)
(* ticking and answering, its writer keeps writing.                        *)
Fairness ==
  /\ SF_vars(Ingest)
  /\ SF_vars(EndIngest /\ ticking')
  /\ WF_vars(EndTicks)
  /\ \A c \in Connection :
       /\ SF_vars(ExecuteInput(c))
       /\ SF_vars(ClientTick(c))
       /\ SF_vars(ClientAnswers(c))
       /\ WF_vars(WriteOutput(c))
       /\ WF_vars(Leave(c))

RuntimeSpec == RuntimeInit /\ [][RuntimeNext]_vars /\ Fairness

-----------------------------------------------------------------------------
(* Every variable keeps its type; no channel or queue exceeds its capacity *)
(* and the keep-alive ids stay within i64.                                 *)
RuntimeTypeOK ==
  /\ commands \in Seq([connection : Connection,
                       body : PlayInput \cup {Register, Disconnect, Packet}])
  /\ Len(commands) <= CommandCapacity
  /\ registered \subseteq Connection
  /\ inputs \in [Connection -> Seq(PlayInput)] /\ QueuedInputs <= InputCapacity
  /\ connections \in [Connection -> State \cup {NoState}]
  /\ nextKeepAliveId \in KeepAliveId
  /\ ticking \in BOOLEAN
  /\ outbox \in [Connection -> Seq(PlayOutput)]
  /\ \A c \in Connection : Len(outbox[c]) <= OutputCapacity
  /\ session \in [Connection -> {"none", "open", "closing", "over"}]
  /\ asked \in [Connection -> Seq(KeepAliveId)]
  /\ lost \in [Connection -> BOOLEAN]

(* The parts of the keep-alive exchange of c that are under way: requests  *)
(* for the writer, requests the client has, answers on their way and       *)
(* answers to be executed.                                                 *)
Typed(q, type) == {i \in 1 .. Len(q) : q[i].type = type}
Underway(c) ==
  {[place |-> "outbox", at |-> i, id |-> outbox[c][i].id] :
     i \in Typed(outbox[c], "KeepAliveRequest")}
  \cup {[place |-> "client", at |-> i, id |-> asked[c][i]] : i \in 1 .. Len(asked[c])}
  \cup {[place |-> "channel", at |-> i, id |-> commands[i].body.id] :
          i \in {j \in 1 .. Len(commands) : /\ commands[j].connection = c
                                          /\ commands[j].body.type = "KeepAliveResponse"}}
  \cup {[place |-> "queue", at |-> i, id |-> inputs[c][i].id] :
          i \in Typed(inputs[c], "KeepAliveResponse")}

(* A client that answers every request once is never disconnected for a    *)
(* wrong answer (authoritative_runtime.rs:228), also when ids saturate, as *)
(* keep_alive_pending is TRUE exactly while one exchange is under way with *)
(* the id the runtime remembers, unless a full queue dropped a part of it. *)
AnsweringClientKept ==
  /\ \A c \in Connection : Disconnect \notin Range(outbox[c])
  /\ \A c \in registered :
       session[c] = "open" /\ ~lost[c] =>
         LET s == StateOf(c) IN
           IF s.pending THEN \E part \in Underway(c) :
                               part.id = s.request /\ Underway(c) = {part}
                        ELSE Underway(c) = {}

(* A connection that is over loses its state for good, although inputs it  *)
(* left queued may create it anew, provided the hub was told.              *)
StateReclaimed ==
  \A c \in Connection :
    (session[c] = "over" /\ c \notin registered
       /\ [connection |-> c, body |-> Register] \notin Range(commands))
      ~> [](connections[c] = NoState)

(* As long as no queue overflows, a connection that stays is asked again   *)
(* and again, and each of its answers is acknowledged.                     *)
KeepAliveRounds ==
  \A c \in Connection :
    []<>(session[c] # "open" \/ lost[c] \/ StateOf(c).pending)
      /\ []<>(session[c] # "open" \/ lost[c] \/ ~StateOf(c).pending)
=============================================================================
