------------------------------ MODULE Server ------------------------------
(***************************************************************************)
(* The life of the server process: the main thread, which accepts clients  *)
(* until a stop is requested, joins what it started and shuts the services *)
(* down in order; a thread per connection, which takes a player through    *)
(* try_enter_play and back through the drop of its guard; the console and  *)
(* the admin GUI, which save and stop.                                    *)
(*                                                                         *)
(* A service's thread is up, has failed, or is down after a last save.     *)
(* What a save does on disk is in module SnapshotService, the handler of a *)
(* connection in Connection and PlayLoop, and what replication shows of    *)
(* players in Replication: here they are single steps.                     *)
(***************************************************************************)
EXTENDS Integers, FiniteSets, Functions

CONSTANTS
  Clients,        \* connections, in any order
  PlayerOf,       \* the player that each would enter
  MaxChanges,     \* bound: changes that players make
  MaxOrders       \* bound: save-all and stop commands

ASSUME ServerAssumption ==
  /\ IsFiniteSet(Clients) /\ DOMAIN PlayerOf = Clients
  /\ MaxChanges \in Nat /\ MaxOrders \in Nat

VARIABLES
  main,        \* where the main thread is
  client,      \* where each connection's thread is
  registered,  \* replication's connections: player -> client
  connected,   \* players connected in the game state
  online,      \* online_players
  shutdown,    \* the flag the console and the GUI set
  operator,    \* the console's and the GUI's thread
  service,     \* the threads of replication, the game and the world
  state,       \* changes that players have made so far: of the game, of the world
  file,        \* the changes that each snapshot file contains
  orders       \* save-all and stop commands so far

serverVars == <<main, client, registered, connected, online, shutdown, operator,
                service, state, file, orders>>

Without(f, x) == Restrict(f, DOMAIN f \ {x})
Services == {"replication", "game", "world"}
Operators == {"console", "gui"}

---------------------------------------------------------------------------
\* The main thread

MainRest == UNCHANGED <<registered, connected, online, shutdown, operator, state, orders>>

LoopHead ==
  /\ main = "head"
  /\ main' = IF shutdown THEN "join" ELSE "accept"
  /\ MainRest /\ UNCHANGED <<client, service, file>>

\* A client is accepted, or none has come.
Accept ==
  /\ main = "accept" /\ main' = "head"
  /\ \/ \E c \in Clients : client[c] = "away" /\ client' = [client EXCEPT ![c] = "greeting"]
     \/ UNCHANGED client
  /\ MainRest /\ UNCHANGED <<service, file>>

\* Mutant: the clients' threads are left to themselves.
JoinNobody ==
  /\ main = "join" /\ main' = "joinGui"
  /\ MainRest /\ UNCHANGED <<client, service, file>>
JoinClients ==
  /\ main = "join" /\ \A c \in Clients : client[c] \in {"away", "gone"}
  /\ main' = "joinGui"
  /\ MainRest /\ UNCHANGED <<client, service, file>>

JoinGui ==
  /\ main = "joinGui" /\ operator["gui"].pc = "ended"
  /\ main' = "replication"
  /\ MainRest /\ UNCHANGED <<client, service, file>>

\* Stops a service: it saves for the last time and ends, unless it has failed
\* before or its save fails.
LastSave(s) ==
  \/ /\ service[s] = "up" /\ service' = [service EXCEPT ![s] = "down"]
     /\ file' = [file EXCEPT ![s] = state[s]]
  \/ /\ service[s] = "up" /\ service' = [service EXCEPT ![s] = "failed"]
     /\ UNCHANGED file
  \/ service[s] = "failed" /\ UNCHANGED <<service, file>>

\* shutdown returns at the first service whose thread has failed; those that
\* are left are then dropped in the order of their fields, which stops them
\* too: after the world's that is the game's, as without the failure.
StopReplication ==
  /\ main = "replication"
  /\ main' = IF service["replication"] = "up" THEN "world" ELSE "drop"
  /\ service' = [service EXCEPT !["replication"] = IF @ = "up" THEN "down" ELSE @]
  /\ MainRest /\ UNCHANGED <<client, file>>

StopWorld ==
  /\ main = "world" /\ LastSave("world")
  /\ main' = "game"
  /\ MainRest /\ UNCHANGED client

StopGame ==
  /\ main = "game" /\ LastSave("game")
  /\ main' = "exited"
  /\ MainRest /\ UNCHANGED client

DropServices ==
  \/ /\ main = "drop" /\ LastSave("game") /\ main' = "dropWorld"
     /\ MainRest /\ UNCHANGED client
  \/ /\ main = "dropWorld" /\ LastSave("world") /\ main' = "exited"
     /\ MainRest /\ UNCHANGED client

MainStep ==
  \/ LoopHead \/ Accept \/ JoinClients \/ JoinGui
  \/ StopReplication \/ StopWorld \/ StopGame \/ DropServices

---------------------------------------------------------------------------
\* A connection's thread

Running == main # "exited"
Goes(c, from, to) == Running /\ client[c] = from /\ client' = [client EXCEPT ![c] = to]
ClientRest == UNCHANGED <<main, shutdown, operator, service, file, orders>>
ServiceUp(s) == service[s] = "up"

\* try_enter_play, in its order; what fails takes back what came before.
RegisterPlayer(c) ==
  LET p == PlayerOf[c] IN
  /\ IF ServiceUp("replication") /\ p \notin DOMAIN registered
       THEN /\ Goes(c, "greeting", "registered")
            /\ registered' = [q \in DOMAIN registered \cup {p} |->
                                IF q = p THEN c ELSE registered[q]]
       ELSE Goes(c, "greeting", "gone") /\ UNCHANGED registered
  /\ ClientRest /\ UNCHANGED <<connected, online, state>>

ConnectPlayer(c) ==
  /\ IF PlayerOf[c] \notin connected
       THEN /\ Goes(c, "registered", "joined")
            /\ connected' = connected \cup {PlayerOf[c]}
       ELSE Goes(c, "registered", "rollback") /\ UNCHANGED connected
  /\ ClientRest /\ UNCHANGED <<registered, online, state>>

\* Mutant: a refused player is only disconnected, as by the guard's drop.
RollbackDisconnects(c) ==
  /\ Goes(c, "rollback", "gone") /\ connected' = connected \ {PlayerOf[c]}
  /\ ClientRest /\ UNCHANGED <<registered, online, state>>
Rollback(c) ==
  /\ Goes(c, "rollback", "gone") /\ registered' = Without(registered, PlayerOf[c])
  /\ ClientRest /\ UNCHANGED <<connected, online, state>>

Count(c) ==
  /\ Goes(c, "joined", "playing") /\ online' = online + 1
  /\ ClientRest /\ UNCHANGED <<registered, connected, state>>

Play(c) ==
  /\ Running /\ client[c] = "playing"
  /\ \E s \in {"game", "world"} :
       state["game"] + state["world"] < MaxChanges /\ state' = [state EXCEPT ![s] = @ + 1]
  /\ ClientRest /\ UNCHANGED <<client, registered, connected, online>>

\* The client is refused or asks for the status only; it leaves or is ended.
Leave(c) ==
  /\ Goes(c, "greeting", "gone") \/ Goes(c, "playing", "unregister")
  /\ ClientRest /\ UNCHANGED <<registered, connected, online, state>>

\* The drop of the guard, in its order.  It forgets the registration under
\* the player's id, whosever it is.
Unregister(c) ==
  /\ Goes(c, "unregister", "disconnect") /\ registered' = Without(registered, PlayerOf[c])
  /\ ClientRest /\ UNCHANGED <<connected, online, state>>

DisconnectPlayer(c) ==
  /\ Goes(c, "disconnect", "uncount") /\ connected' = connected \ {PlayerOf[c]}
  /\ ClientRest /\ UNCHANGED <<registered, online, state>>

Uncount(c) ==
  /\ Goes(c, "uncount", "gone") /\ online' = online - 1
  /\ ClientRest /\ UNCHANGED <<registered, connected, state>>

ThreadStep(c) ==
  \/ RegisterPlayer(c) \/ ConnectPlayer(c) \/ Rollback(c) \/ Count(c)
  \/ Unregister(c) \/ DisconnectPlayer(c) \/ Uncount(c)

---------------------------------------------------------------------------
\* The services fail: replication on an event it cannot handle, the others on
\* an autosave.  Replication also drops a connection that overflows.

ServiceFails(s) ==
  /\ Running /\ ServiceUp(s)
  /\ service' = [service EXCEPT ![s] = "failed"]
  /\ registered' = IF s = "replication" THEN <<>> ELSE registered
  /\ UNCHANGED <<main, client, connected, online, shutdown, operator, state, file, orders>>

Overflow ==
  /\ Running /\ ServiceUp("replication")
  /\ \E p \in DOMAIN registered : registered' = Without(registered, p)
  /\ UNCHANGED <<main, client, connected, online, shutdown, operator, service, state, file, orders>>

---------------------------------------------------------------------------
\* The console and the GUI

At(o, pc) == Running /\ operator[o].pc = pc
Moves(o, pc) == operator' = [operator EXCEPT ![o].pc = pc]
OperatorRest == UNCHANGED <<main, client, registered, connected, online, service, state>>

\* save-all and stop.  (What other commands change is left out: those given
\* while the services stop are answered and lost.)
Order(o) ==
  /\ At(o, "idle") /\ orders < MaxOrders /\ orders' = orders + 1
  /\ \E stop \in BOOLEAN : operator' = [operator EXCEPT ![o] = [pc |-> "game", stop |-> stop]]
  /\ OperatorRest /\ UNCHANGED <<shutdown, file>>

\* The GUI gives up at the first save that fails, the console goes on.
After(o, s) == IF s = "game" THEN "world" ELSE IF operator[o].stop THEN "stop" ELSE "idle"
Save(o, s) ==
  /\ At(o, s)
  /\ \/ /\ ServiceUp(s) /\ file' = [file EXCEPT ![s] = state[s]]
        /\ Moves(o, After(o, s))
     \/ /\ UNCHANGED file
        /\ Moves(o, IF o = "gui" THEN "idle" ELSE After(o, s))
  /\ OperatorRest /\ UNCHANGED <<shutdown, orders>>

\* The console's thread ends with its stop, the GUI's when it sees the flag.
Stop(o) ==
  /\ At(o, "stop") /\ shutdown' = TRUE
  /\ Moves(o, IF o = "console" THEN "ended" ELSE "idle")
  /\ OperatorRest /\ UNCHANGED <<file, orders>>

\* Mutant: the GUI ends after a stop of its own only.
GuiEndsItself ==
  /\ At("gui", "idle") /\ shutdown /\ operator["gui"].stop /\ Moves("gui", "ended")
  /\ OperatorRest /\ UNCHANGED <<shutdown, file, orders>>
GuiEnds ==
  /\ At("gui", "idle") /\ shutdown /\ Moves("gui", "ended")
  /\ OperatorRest /\ UNCHANGED <<shutdown, file, orders>>

OperatorStep(o) == (\E s \in {"game", "world"} : Save(o, s)) \/ Stop(o)

---------------------------------------------------------------------------
Init ==
  /\ main = "head" /\ client = [c \in Clients |-> "away"]
  /\ registered = <<>> /\ connected = {} /\ online = 0
  /\ shutdown = FALSE
  /\ operator = [o \in Operators |-> [pc |-> "idle", stop |-> FALSE]]
  /\ service = [s \in Services |-> "up"]
  /\ state = [s \in {"game", "world"} |-> 0]
  /\ file = [s \in {"game", "world"} |-> 0]
  /\ orders = 0

Next ==
  \/ MainStep
  \/ \E c \in Clients : ThreadStep(c) \/ Play(c) \/ Leave(c)
  \/ \E s \in Services : ServiceFails(s)
  \/ Overflow
  \/ \E o \in Operators : OperatorStep(o) \/ Order(o)
  \/ GuiEnds

\* Threads run, and every client leaves in the end: before Play within the
\* read timeout, in Play because its player does.
Fairness ==
  /\ WF_serverVars(MainStep)
  /\ \A c \in Clients : WF_serverVars(ThreadStep(c)) /\ WF_serverVars(Leave(c))
  /\ \A o \in Operators : WF_serverVars(OperatorStep(o))
  /\ WF_serverVars(GuiEnds)

Spec == Init /\ [][Next]_serverVars /\ Fairness

---------------------------------------------------------------------------
\* Properties

\* A player is connected in the game state exactly while one session stands
\* for it, whatever other sessions of the same player are refused or end in
\* the meantime, and with or without a registration in replication.  When all
\* clients have gone, by whatever way, nothing of them is left.
SessionOf(p) ==
  {c \in Clients : PlayerOf[c] = p
                   /\ client[c] \in {"joined", "playing", "unregister", "disconnect"}}
PlayersHaveOneSession ==
  /\ \A p \in {PlayerOf[c] : c \in Clients} :
       Cardinality(SessionOf(p)) = IF p \in connected THEN 1 ELSE 0
  /\ (\A c \in Clients : client[c] \in {"away", "gone"})
       => DOMAIN registered = {} /\ connected = {} /\ online = 0

\* When the process has ended, no service is left running, and a snapshot file
\* whose service did not fail holds every change the players have made, also
\* when replication has failed and shutdown returned early.
ExitIsComplete ==
  main = "exited" =>
    \A s \in {"game", "world"} :
      /\ service[s] # "up"
      /\ service[s] = "down" => file[s] = state[s]

\* Once a stop is requested the process ends, whatever fails.
StopCompletes == shutdown ~> main = "exited"
===========================================================================
