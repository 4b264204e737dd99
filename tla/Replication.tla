------------------------------ MODULE Replication ------------------------------
(***************************************************************************)
(* What every player sees of every other player.  Three kinds of thread    *)
(* take part:                                                              *)
(*                                                                         *)
(*   - a session per connection (main.rs, play_runtime.rs) that registers  *)
(*     with replication, connects its player, activates, plays and leaves; *)
(*   - the console, which kills and teleports players;                     *)
(*   - the replication thread (game_replication.rs), which handles control *)
(*     calls, dispatches game events and flushes pending outputs.          *)
(*                                                                         *)
(* Every operation on the game state runs under its lock and publishes its *)
(* event after the lock is released (game_runtime.rs:84-232): between the  *)
(* two, another thread may change the state and publish first.             *)
(*                                                                         *)
(* A position is a number and equipment the selected hotbar slot.  What a  *)
(* client is sent beyond its picture of the other players (chat, health,   *)
(* inventory) is the output Other.  The packets of one spawn are one       *)
(* output: a queue that overflows among them is emptied like one that      *)
(* overflows before them.                                                  *)
(***************************************************************************)
EXTENDS Integers, FiniteSets, Sequences, SequencesExt, Functions

CONSTANTS
  Player,         \* player uuids
  Session,        \* connections, in any order and possibly of one player
  Owner,          \* the player of each session
  Subject,        \* bound: the players that are operated on; the others watch
  Console,        \* the thread of the console
  Position,       \* where players may be; 0 is the spawn
  Slot,           \* hotbar slots; 0 is the initial one
  Reach,          \* the longest step a relative movement can encode
  EventCapacity,  \* GameReplicationConfig::event_capacity
  PendingLimit,   \* GameReplicationConfig::pending_output_limit
  Room,           \* how many outputs a flush may find room for
  MaxOps          \* bound: connects and operations on connected players together

ASSUME ReplicationAssumption ==
  /\ IsFiniteSet(Player) /\ IsFiniteSet(Session) /\ Owner \in [Session -> Player]
  /\ Subject \subseteq Player /\ Console \notin Session
  /\ Position \subseteq Nat /\ 0 \in Position
  /\ Slot \subseteq Nat /\ 0 \in Slot
  /\ Reach \in Nat /\ MaxOps \in Nat
  /\ EventCapacity \in Nat \ {0} /\ PendingLimit \in Nat \ {0}
  /\ Room \subseteq Nat

VARIABLES
  entity,       \* the entity id of each player, 0 while it is not connected
  at,           \* the position of its entity, 0 without one
  held,         \* its selected hotbar slot
  dead,         \* whether its health is zero; kept while it is away
  nextId,       \* EntityStore::next_id
  session,      \* where each session is
  unpublished,  \* operations whose lock is released, not yet published
  events,       \* the subscription of the replication thread
  loop,         \* where the replication thread is
  connections,  \* its registered connections, by player
  cut,          \* history: the Disconnects that the thread has tried for
                \* overflowing connections, each with its session and whether
                \* the runtime's channel had room for it
  ops,          \* history: connects and operations so far
  disturbed,    \* history: an event was lost, or overtook an older one of its player
  usurped       \* history: sessions whose connection another one has called for

game == <<entity, at, held, dead, nextId>>
histories == <<ops, disturbed, usurped>>
vars == <<game, session, unpublished, events, loop, connections, cut, histories>>

Empty == [x \in {} |-> 0]
Without(f, x) == Restrict(f, DOMAIN f \ {x})
Online(u) == entity[u] # 0
Running == loop \in {"commands", "events"}

-------------------------------------------------------------------------------
(* A registered connection.  Outputs leave its queue in order, so its      *)
(* length is enough: picture is what the client will have made of all that *)
(* was queued.                                                             *)
NewConnection(s) ==
  [session |-> s, active |-> FALSE, healthy |-> TRUE, pending |-> 0,
   entities |-> Empty, picture |-> Empty]

(* What a client makes of an output.                                       *)
Apply(seen, o) ==
  CASE o.op = "add" -> [x \in DOMAIN seen \cup {o.id} |->
         IF x = o.id THEN [at |-> o.at, held |-> o.held] ELSE seen[x]]
    [] o.op = "remove" -> Without(seen, o.id)
    [] o.op \in {"move", "teleport", "equip"} /\ o.id \notin DOMAIN seen -> seen
    [] o.op = "move" /\ o.id \in DOMAIN seen -> [seen EXCEPT ![o.id].at = @ + o.by]
    [] o.op = "teleport" /\ o.id \in DOMAIN seen -> [seen EXCEPT ![o.id].at = o.to]
    [] o.op = "equip" /\ o.id \in DOMAIN seen -> [seen EXCEPT ![o.id].held = o.held]
    [] o.op = "other" -> seen

Other == [op |-> "other"]

Queue(c, output) ==
  IF ~c.active \/ ~c.healthy THEN c
  ELSE IF c.pending >= PendingLimit
  THEN [c EXCEPT !.pending = 0, !.entities = Empty, !.picture = Empty, !.healthy = FALSE]
  ELSE [c EXCEPT !.pending = @ + 1, !.picture = Apply(@, output)]

Snapshot(u) == [id |-> entity[u], at |-> at[u]]

RemoveEntity(c, u, fallback) ==
  LET tracked == u \in DOMAIN c.entities
      id      == IF tracked THEN c.entities[u].id ELSE fallback
      rest    == [c EXCEPT !.entities = Without(@, u)]
  IN IF id = 0 THEN rest ELSE Queue(rest, [op |-> "remove", id |-> id])

AddEntity(u) == [op |-> "add", id |-> entity[u], at |-> at[u], held |-> held[u]]

SpawnPlayer(c, u) ==
  IF ~c.active \/ ~c.healthy THEN c
  ELSE IF u \in DOMAIN c.entities /\ c.entities[u].id = entity[u]
  THEN [c EXCEPT !.entities[u] = Snapshot(u)]
  ELSE LET d == Queue(RemoveEntity(c, u, 0), AddEntity(u))
       IN IF d.healthy THEN [d EXCEPT !.entities = [x \in DOMAIN @ \cup {u} |->
                                 IF x = u THEN Snapshot(u) ELSE @[x]]]
          ELSE d

SpawnIfOnline(c, u) == IF Online(u) THEN SpawnPlayer(c, u) ELSE c

(* A step within reach is sent relative to where the client was last told  *)
(* that the entity is, a longer one as a position.                         *)
Movement(tracked, to) ==
  IF to - tracked.at \in -Reach .. Reach
  THEN [op |-> "move", id |-> tracked.id, by |-> to - tracked.at]
  ELSE [op |-> "teleport", id |-> tracked.id, to |-> to]

(* Mutant: the tracked position is not brought forward.                    *)
MoveUntracked(c, u, to) ==
  IF to = c.entities[u].at THEN c ELSE Queue(c, Movement(c.entities[u], to))

MoveEntity(c, u, to) ==
  LET tracked == c.entities[u]
      d == IF to = tracked.at THEN c ELSE Queue(c, Movement(tracked, to))
  IN IF u \in DOMAIN d.entities THEN [d EXCEPT !.entities[u].at = to] ELSE d

TeleportEntity(c, u, to) ==
  LET d == Queue(c, [op |-> "teleport", id |-> c.entities[u].id, to |-> to])
  IN IF u \in DOMAIN d.entities THEN [d EXCEPT !.entities[u].at = to] ELSE d

-------------------------------------------------------------------------------
ReplicationInit ==
  /\ entity = [u \in Player |-> 0] /\ at = [u \in Player |-> 0]
  /\ held = [u \in Player |-> 0] /\ dead = [u \in Player |-> FALSE]
  /\ nextId = 1
  /\ session = [s \in Session |-> "registering"]
  /\ unpublished = <<>> /\ events = <<>>
  /\ loop = "commands" /\ connections = Empty
  /\ cut = {} /\ ops = 0 /\ disturbed = FALSE /\ usurped = {}

(* An operation of thread t has changed the state: its event waits for t   *)
(* to publish it.                                                          *)
Busy(t) == \E i \in 1 .. Len(unpublished) : unpublished[i].thread = t
Produce(t, e) == unpublished' = Append(unpublished, [thread |-> t, event |-> e])

(* publish: every subscriber gets the event if it has room.                *)
Publish(t) == \E i \in 1 .. Len(unpublished) :
  LET e    == unpublished[i].event
      fits == Len(events) < EventCapacity IN
  /\ unpublished[i].thread = t
  /\ unpublished' = RemoveAt(unpublished, i)
  /\ events' = IF Running /\ fits THEN Append(events, e) ELSE events
  /\ disturbed' = (disturbed \/ ~fits
                     \/ \E j \in 1 .. i - 1 : unpublished[j].event.uuid = e.uuid)
  /\ UNCHANGED <<game, session, loop, connections, cut, ops, usurped>>

(* A session that waits for the replication thread: it is about to call, or *)
(* its command is in the channel.  "activating" includes the bootstrap.    *)
Calling == {"registering", "activating", "syncing", "unregistering", "backing out"}

Count == ops < MaxOps /\ ops' = ops + 1

ConnectPlayer(s) == LET u == Owner[s] IN
  /\ session[s] = "connecting" /\ ~Online(u) /\ Count
  /\ entity' = [entity EXCEPT ![u] = nextId]
  /\ nextId' = nextId + 1
  /\ Produce(s, [kind |-> "Connected", uuid |-> u, id |-> nextId])
  /\ session' = [session EXCEPT ![s] = "activating"]
  /\ UNCHANGED <<at, held, dead, events, loop, connections, cut, disturbed, usurped>>

ConnectRefused(s) ==
  /\ session[s] = "connecting" /\ Online(Owner[s])
  /\ session' = [session EXCEPT ![s] = "backing out"]
  /\ UNCHANGED <<game, unpublished, events, loop, connections, cut, histories>>

(* The guard is dropped: the bootstrap fails, or the session ends.         *)
Leave(s) ==
  /\ session[s] \in {"activating", "playing"} /\ ~Busy(s)
  /\ session' = [session EXCEPT ![s] = "unregistering"]
  /\ UNCHANGED <<game, unpublished, events, loop, connections, cut, histories>>

DisconnectPlayer(s) == LET u == Owner[s] IN
  /\ session[s] = "disconnecting"
  /\ entity' = [entity EXCEPT ![u] = 0] /\ at' = [at EXCEPT ![u] = 0]
  /\ Produce(s, [kind |-> "Disconnected", uuid |-> u, id |-> entity[u]])
  /\ session' = [session EXCEPT ![s] = "gone"]
  /\ UNCHANGED <<held, dead, nextId, events, loop, connections, cut, histories>>

(* Operations on a connected player while it plays.                        *)
Operate(t, u) == u \in Subject /\ ~Busy(t) /\ Count
Untouched == UNCHANGED
  <<entity, nextId, session, events, loop, connections, cut, disturbed, usurped>>

MovePlayer(s) == LET u == Owner[s] IN
  /\ session[s] = "playing" /\ Operate(s, u)
  /\ \E p \in Position :
       /\ at' = [at EXCEPT ![u] = p]
       /\ Produce(s, [kind |-> "Moved", uuid |-> u, id |-> entity[u], to |-> p])
  /\ UNCHANGED <<held, dead>> /\ Untouched

SelectHotbar(s) == LET u == Owner[s] IN
  /\ session[s] = "playing" /\ Operate(s, u)
  /\ \E h \in Slot \ {held[u]} :
       /\ held' = [held EXCEPT ![u] = h]
       /\ Produce(s, [kind |-> "HotbarChanged", uuid |-> u, current |-> h])
  /\ UNCHANGED <<at, dead>> /\ Untouched

RespawnPlayer(s) == LET u == Owner[s] IN
  /\ session[s] = "playing" /\ dead[u] /\ Operate(s, u)
  /\ dead' = [dead EXCEPT ![u] = FALSE]
  /\ at' = [at EXCEPT ![u] = 0]
  /\ Produce(s, [kind |-> "Respawned", uuid |-> u, id |-> entity[u]])
  /\ UNCHANGED held /\ Untouched

TeleportPlayer(u) ==
  /\ Online(u) /\ Operate(Console, u)
  /\ \E p \in Position :
       /\ at' = [at EXCEPT ![u] = p]
       /\ Produce(Console, [kind |-> "Teleported", uuid |-> u, id |-> entity[u], to |-> p])
  /\ UNCHANGED <<held, dead>> /\ Untouched

KillPlayer(u) ==
  /\ Online(u) /\ ~dead[u] /\ Operate(Console, u)
  /\ dead' = [dead EXCEPT ![u] = TRUE]
  /\ Produce(Console, [kind |-> "Killed", uuid |-> u, id |-> entity[u]])
  /\ UNCHANGED <<at, held>> /\ Untouched

-------------------------------------------------------------------------------
(* The replication thread: control calls.                                  *)

Answer(s, next) == session' = [session EXCEPT ![s] = next]
Handling ==
  loop = "commands" /\ UNCHANGED <<game, unpublished, events, loop, cut, ops, disturbed>>

(* A call names the player: the connection it finds may be that of another *)
(* session, which has registered when that of s was gone.                  *)
Calls(s) == usurped' = usurped \cup
  ({connections[u].session : u \in {Owner[s]} \cap DOMAIN connections} \ {s})

HandleRegister(s) == LET u == Owner[s] IN
  /\ Handling /\ session[s] = "registering" /\ UNCHANGED usurped
  /\ IF u \in DOMAIN connections
     THEN Answer(s, "gone") /\ UNCHANGED connections
     ELSE /\ connections' = [v \in DOMAIN connections \cup {u} |->
                               IF v = u THEN NewConnection(s) ELSE connections[v]]
          /\ Answer(s, "connecting")

(* The new connection's own health, then every player that is online.      *)
Activated(u) ==
  FoldSet(LAMBDA w, c : SpawnPlayer(c, w),
          Queue([connections[u] EXCEPT !.active = TRUE], Other),
          {w \in Player \ {u} : Online(w)})

HandleActivate(s) == LET u == Owner[s] IN
  /\ Handling /\ session[s] = "activating" /\ ~Busy(s) /\ Calls(s)
  /\ IF /\ u \in DOMAIN connections
        /\ ~connections[u].active /\ connections[u].healthy
        /\ Activated(u).healthy
     THEN connections' = [connections EXCEPT ![u] = Activated(u)] /\ Answer(s, "syncing")
     ELSE connections' = Without(connections, u) /\ Answer(s, "unregistering")

(* Mutant: the call succeeds whether or not the snapshot was queued.       *)
SyncUnchecked(s) == LET u == Owner[s] IN
  /\ Handling /\ session[s] = "syncing" /\ Calls(s) /\ Answer(s, "playing")
  /\ connections' = [connections EXCEPT ![u] = Queue(@, Other)]

HandleSyncInventory(s) == LET u == Owner[s] IN
  /\ Handling /\ session[s] = "syncing" /\ Calls(s)
  /\ IF u \in DOMAIN connections /\ connections[u].active
     THEN LET c == Queue(connections[u], Other) IN
          /\ connections' = [connections EXCEPT ![u] = c]
          /\ Answer(s, IF c.healthy THEN "playing" ELSE "unregistering")
     ELSE UNCHANGED connections /\ Answer(s, "unregistering")

HandleUnregister(s) ==
  /\ Handling /\ session[s] \in {"unregistering", "backing out"} /\ Calls(s)
  /\ connections' = Without(connections, Owner[s])
  /\ Answer(s, IF session[s] = "backing out" THEN "gone" ELSE "disconnecting")

(* A call of a thread that is gone fails at once.                          *)
CallFails(s) ==
  /\ ~Running /\ session[s] \in Calling /\ ~Busy(s)
  /\ Answer(s, CASE session[s] \in {"registering", "backing out"} -> "gone"
                 [] session[s] \in {"activating", "syncing"} -> "unregistering"
                 [] session[s] = "unregistering" -> "disconnecting")
  /\ UNCHANGED <<game, unpublished, events, loop, connections, cut, histories>>

-------------------------------------------------------------------------------
(* The replication thread: events, dispatched against the state as it is.  *)

(* A queue that overflows asks the runtime to disconnect its endpoint and  *)
(* does not look at the answer: the channel that the Disconnect needs is    *)
(* the one whose lack of room has let the queue fill.  (Inside a control    *)
(* call the session is told by the error it gets, and leaves.)             *)
Overflowed == {u \in DOMAIN connections :
  connections[u].healthy /\ ~connections'[u].healthy}

TryDisconnect == \E taken \in [Overflowed -> BOOLEAN] :
  cut' = cut \cup {[session |-> connections[u].session, taken |-> taken[u]] : u \in Overflowed}

ButFor(u, updated) == [v \in DOMAIN connections |->
  IF v = u THEN connections[v] ELSE updated[v]]

(* A tracked entity follows its event; one that is unknown, or of an       *)
(* earlier life, is spawned from the state.                                *)
Follow(c, e, moved) == LET u == e.uuid IN
  IF u \in DOMAIN c.entities
  THEN IF c.entities[u].id = e.id THEN moved
       ELSE SpawnIfOnline(Queue(RemoveEntity(c, u, 0), Other), u)
  ELSE SpawnIfOnline(c, u)

DispatchConnected(e) == connections' = ButFor(e.uuid,
  [v \in DOMAIN connections |-> Queue(SpawnPlayer(connections[v], e.uuid), Other)])

DispatchDisconnected(e) == connections' = ButFor(e.uuid,
  [v \in DOMAIN connections |->
     Queue(Queue(RemoveEntity(connections[v], e.uuid, e.id), Other), Other)])

DispatchMoved(e) == connections' = ButFor(e.uuid,
  [v \in DOMAIN connections |-> LET c == connections[v] IN
     Follow(c, e, MoveEntity(c, e.uuid, e.to))])

ToSubject(cs, u) == [v \in DOMAIN cs |-> IF v = u THEN Queue(cs[v], Other) ELSE cs[v]]

DispatchTeleported(e) == connections' = ToSubject(ButFor(e.uuid,
  [v \in DOMAIN connections |-> LET c == connections[v] IN
     Follow(c, e, TeleportEntity(c, e.uuid, e.to))]), e.uuid)

DispatchKilled(e) == connections' = ToSubject(ButFor(e.uuid,
  [v \in DOMAIN connections |-> RemoveEntity(connections[v], e.uuid, e.id)]), e.uuid)

DispatchRespawned(e) == connections' = ToSubject(ButFor(e.uuid,
  [v \in DOMAIN connections |-> SpawnIfOnline(connections[v], e.uuid)]), e.uuid)

DispatchHotbar(e) == LET u == e.uuid IN connections' = ButFor(u,
  [v \in DOMAIN connections |-> LET c == connections[v] IN
     IF Online(u) /\ u \in DOMAIN c.entities
     THEN Queue(c, [op |-> "equip", id |-> entity[u], held |-> held[u]]) ELSE c])

Dispatch == LET e == Head(events) IN
  /\ Running /\ events # <<>> /\ loop' = "events"
  /\ \/ e.kind = "Connected" /\ Online(e.uuid) /\ DispatchConnected(e)
     \/ e.kind = "Disconnected" /\ DispatchDisconnected(e)
     \/ e.kind = "Moved" /\ DispatchMoved(e)
     \/ e.kind = "Teleported" /\ DispatchTeleported(e)
     \/ e.kind = "Killed" /\ DispatchKilled(e)
     \/ e.kind = "Respawned" /\ DispatchRespawned(e)
     \/ e.kind = "HotbarChanged" /\ DispatchHotbar(e)
  /\ TryDisconnect
  /\ events' = Tail(events)
  /\ UNCHANGED <<game, session, unpublished, histories>>

(* The player of a PlayerConnected event has left: the error ends the      *)
(* thread, and with it every connection and the subscription.              *)
DispatchFails ==
  /\ Running /\ events # <<>>
  /\ Head(events).kind = "Connected" /\ ~Online(Head(events).uuid)
  /\ loop' = "failed" /\ events' = <<>> /\ connections' = Empty
  /\ UNCHANGED <<game, session, unpublished, cut, histories>>

(* The runtime's channel has room for so many outputs of a connection.     *)
Flush ==
  /\ Running /\ events = <<>> /\ loop' = "commands"
  /\ \E room \in [DOMAIN connections -> Room] :
       connections' = [u \in {v \in DOMAIN room : connections[v].healthy} |->
         [connections[u] EXCEPT !.pending = IF @ > room[u] THEN @ - room[u] ELSE 0]]
  /\ UNCHANGED <<game, session, unpublished, events, cut, histories>>

(* ServerState::shutdown takes the state, which every guard borrows.       *)
Shutdown ==
  /\ loop = "commands" /\ \A s \in Session : session[s] = "gone"
  /\ loop' = "stopped" /\ events' = <<>> /\ connections' = Empty
  /\ UNCHANGED <<game, session, unpublished, cut, histories>>

-------------------------------------------------------------------------------
Handle(s) ==
  HandleRegister(s) \/ HandleActivate(s) \/ HandleSyncInventory(s) \/ HandleUnregister(s)

ReplicationNext ==
  \/ \E s \in Session :
       \/ ConnectPlayer(s) \/ ConnectRefused(s)
       \/ Leave(s) \/ DisconnectPlayer(s) \/ Handle(s) \/ CallFails(s)
       \/ MovePlayer(s) \/ SelectHotbar(s) \/ RespawnPlayer(s)
  \/ \E u \in Player : TeleportPlayer(u) \/ KillPlayer(u)
  \/ \E t \in Session \cup {Console} : Publish(t)
  \/ Dispatch \/ DispatchFails \/ Flush \/ Shutdown

ReplicationSpec == ReplicationInit /\ [][ReplicationNext]_vars

-------------------------------------------------------------------------------
(* The thread, the sessions and the game state are well formed, the queues *)
(* are within their limits, and no id is handed out twice.                 *)
ReplicationTypeOK ==
  /\ entity \in [Player -> 0 .. nextId - 1]
  /\ at \in [Player -> Position] /\ held \in [Player -> Slot] /\ dead \in [Player -> BOOLEAN]
  /\ Len(events) <= EventCapacity
  /\ DOMAIN connections \subseteq Player
  /\ \A u \in DOMAIN connections :
       /\ Owner[connections[u].session] = u
       /\ connections[u].pending \in 0 .. PendingLimit
       /\ DOMAIN connections[u].entities \subseteq Player \ {u}
  /\ \A u, v \in Player : u # v /\ Online(u) => entity[u] # entity[v]

(* The entities in a healthy client's picture are the ones its connection  *)
(* tracks: none is forgotten there and kept here, or the reverse.  When     *)
(* nothing is under way, no event was lost and none overtook an older one  *)
(* of its player, every active client's picture is of the players that are *)
(* online: all that are alive are in it, and nobody who has left.          *)
Faithful == unpublished = <<>> /\ events = <<>> /\ Running /\ ~disturbed

PictureIsCurrent ==
  \A u \in DOMAIN connections : connections[u].healthy =>
    LET tracked == connections[u].entities
        picture == connections[u].picture
    IN /\ DOMAIN picture = {tracked[w].id : w \in DOMAIN tracked}
       /\ Faithful /\ connections[u].active =>
            /\ \A w \in DOMAIN tracked : Online(w) /\ tracked[w].id = entity[w]
            /\ \A w \in Player \ {u} : Online(w) /\ ~dead[w] =>
                 /\ w \in DOMAIN tracked /\ tracked[w].at = at[w]
                 /\ picture[entity[w]].held = held[w]

(* A player in the game either is served by replication, through the       *)
(* connection of its own session, or that connection has overflowed and    *)
(* the thread has given it up: unless another session of the player has     *)
(* called for that connection.  Three sessions of one player can do that,   *)
(* when the first has lost its connection to a full queue: its unregister   *)
(* removes that of the second, which is refused only after the third has    *)
(* registered, connected and begun to play, and whose own unregister then   *)
(* removes that of the third.  The thread gives a session up once, and only *)
(* one that it no longer serves: no Disconnect reaches a successor, and     *)
(* none is tried again.                                                    *)
Served(s) == LET u == Owner[s] IN
  u \in DOMAIN connections /\ connections[u].session = s
    /\ connections[u].active /\ connections[u].healthy

GivenUp(s) == \E d \in cut : d.session = s

ServedOrGivenUp ==
  /\ \A s \in Session :
       /\ session[s] = "playing" /\ Running => Served(s) \/ GivenUp(s) \/ s \in usurped
       /\ Served(s) => ~GivenUp(s)
  /\ \A d, e \in cut : d.session = e.session => d = e

(* "Output overflow disconnects": a session that is given up is also being  *)
(* disconnected.  It is not when the channel refuses the Disconnect: the    *)
(* connection is forgotten, nobody tries again, and the player plays on     *)
(* without seeing anything of the others.                                  *)
OverflowDisconnects == \A s \in Session :
  session[s] = "playing" /\ Running =>
    Served(s) \/ s \in usurped \/ [session |-> s, taken |-> TRUE] \in cut
===============================================================================
