----------------------------- MODULE PlayLoop -----------------------------
(***************************************************************************)
(* A connection in the Play phase, joined to its way there in module       *)
(* Connection: the bootstrap acknowledgements, then the loop that reads    *)
(* movement, keep-alive answers and requests to respawn, keeps the chunk   *)
(* view around the player and asks for signs of life.  The player's        *)
(* position lives twice, in the loop and in the entity of the game state,  *)
(* where commands change it too; replication tells the client of that in a *)
(* step of its own.                                                        *)
(*                                                                         *)
(* Positions are integers on a line.  Inventory and block packets (modules *)
(* Containers and SharedWorld) are one kind here, and the input and output *)
(* queues have room: their limits are in modules InputQueue and WorkerHub. *)
(***************************************************************************)
EXTENDS Connection

CONSTANTS
  Radius,         \* chunk_radius
  MaxDelta,       \* MAX_PLAYER_MOVE_DELTA
  Places,         \* positions above the floor
  Destinations,   \* where commands teleport
  MaxIgnored,     \* MAX_IGNORED_PLAY_PACKETS
  Interval,       \* ticks between two keep-alive requests
  MaxRounds,      \* bound: requests the loop sends
  MaxActs         \* bound: walks, ticks, commands and foreign requests together

ASSUME PlayLoopAssumption ==
  /\ Radius \in Nat /\ MaxDelta \in Nat /\ MaxIgnored \in Nat /\ Interval \in Nat
  /\ MaxRounds \in Nat /\ MaxActs \in Nat
  /\ Places \subseteq Int /\ Destinations \subseteq Int /\ Spawn \in Places
  /\ \A p \in Places \cup Destinations : ChunkOf(p) \in Int

VARIABLES
  loop,      \* what the loop and the bootstrap before it keep
  entity,    \* the player's entity: where it is, and whether its player is dead
  events,    \* published events that replication has not dispatched
  avatar,    \* what the client shows of its player and the world
  history    \* how often the environment has acted, and teleported the player

playVars == <<loop, entity, events, avatar, history>>
vars == <<connVars, playVars>>

Distance(a, b) == IF a < b THEN b - a ELSE a - b
Around(c) == (c - Radius) .. (c + Radius)
TeleportId == 2      \* any other id that replication counts

---------------------------------------------------------------------------
\* The chunk view.  A change goes to the client as one packet of parts.

Delta(l, c) ==
  View((IF c # l.center THEN <<Packet("Center", c)>> ELSE <<>>)
       \o SetToSeq({Packet("Forget", x) : x \in l.loaded \ Around(c)})
       \o SetToSeq({Packet("Chunk", x) : x \in Around(c) \ l.loaded}))
Recentered(l, c) == [l EXCEPT !.center = c, !.loaded = Around(c)]

\* The packets of a recentering that happens only when the chunk is another.
Following(l, c) == IF c = l.center THEN <<>> ELSE <<Delta(l, c)>>
Followed(l, c) == IF c = l.center THEN l ELSE Recentered(l, c)

---------------------------------------------------------------------------
\* The bootstrap: the client must acknowledge its first teleport before it
\* moves, and the first chunk batch.

NewLoop ==
  [player |-> Spawn, center |-> ChunkOf(Spawn), loaded |-> {ChunkOf(Spawn)},
   accepted |-> FALSE, batched |-> FALSE, ignored |-> 0,
   id |-> 1, acked |-> FALSE, ticks |-> 0]

GameRest == UNCHANGED <<entity, events, avatar, history>>
Unaffected == Rest /\ UNCHANGED auxiliary /\ GameRest

\* GameplaySync: the loop's copy of the position and the entity's.
Refreshed(l) == [l EXCEPT !.player = entity.at]
\* Bound: what a client that does not conform would be sent is left out.
Publishes(kind, at) ==
  events' = IF conforms THEN Append(events, [kind |-> kind, at |-> at]) ELSE events
Synchronized(l) == [entity EXCEPT !.at = l.player]
PlayersSide == Rest /\ UNCHANGED <<session, auxiliary, avatar, history>>

\* handle_play_protocol writes a reason after its writer has stopped.
Fails(before) ==
  /\ Sends(before \o <<Plain("PlayDisconnect")>>) /\ Ends("error")
  /\ session' = Closed(session)

MovementKinds == {"Move", "Turn"}

\* The loop starts with the rest of the view.
LoopStarts(l) ==
  /\ Sends(<<Delta(l, l.center)>>) /\ loop' = Recentered(l, l.center)
  /\ Goes("request") /\ UNCHANGED session

ReadBootstrap ==
  /\ Reads("bootstrap") /\ Consumes
  /\ LET l == [loop EXCEPT
                 !.accepted = @ \/ Incoming.kind = "Accept",
                 !.batched = @ \/ Incoming.kind = "ChunkBatch",
                 !.ignored = @ + 1]
         wrong ==
           \/ Incoming.kind \in MovementKinds /\ ~loop.accepted
           \/ Incoming.kind = "Accept" /\ Incoming.n # SpawnTeleport
           \/ Incoming.kind = "ChunkBatch" /\ Incoming.n = 0
     IN \/ /\ wrong /\ Fails(<<>>) /\ UNCHANGED loop
        \/ /\ ~wrong /\ l.accepted /\ l.batched
           /\ LoopStarts([l EXCEPT !.ignored = 0])
        \/ /\ ~wrong /\ ~(l.accepted /\ l.batched)
           /\ IF l.ignored = MaxIgnored
                THEN Fails(<<>>) /\ UNCHANGED loop
                ELSE loop' = l /\ Goes("bootstrap") /\ UNCHANGED <<session, toClient>>
  /\ Unaffected

---------------------------------------------------------------------------
\* The loop

\* The head of a round.  The session refuses a second request while one is
\* pending.  The bound is on the rounds.
Request ==
  /\ step = "request" /\ loop.id <= MaxRounds
  /\ Sends(<<Packet("KeepAlive", loop.id)>>)
  /\ session' = KeepAliveSent(session, loop.id)
  /\ loop' = [loop EXCEPT !.acked = FALSE, !.ticks = 0]
  /\ Goes("read")
  /\ UNCHANGED toServer /\ Unaffected

\* The foot of the loop's body.
\* Mutant: a round is as long as its ticks.
RoundOnTicks(l) == l.ticks >= Interval
RoundOver(l) == l.acked /\ l.ticks >= Interval
AfterPacket(l) ==
  IF RoundOver(l)
    THEN loop' = [l EXCEPT !.id = @ + 1] /\ Goes("request")
    ELSE loop' = l /\ Goes("read")

ReadAnswer ==
  /\ Gets("read", "KeepAlive") /\ Consumes
  /\ IF Incoming.n # loop.id \/ session.pending = NoId
       THEN Fails(<<>>) /\ UNCHANGED loop
       ELSE /\ session' = KeepAliveAnswered(session)
            /\ AfterPacket([loop EXCEPT !.acked = TRUE]) /\ UNCHANGED toClient
  /\ Unaffected

ReadTick ==
  /\ Gets("read", "Tick") /\ Consumes
  /\ AfterPacket([loop EXCEPT !.ticks = IF @ < Interval THEN @ + 1 ELSE @])
  /\ UNCHANGED <<session, toClient>> /\ Unaffected

\* A movement of the wrong length, with other flags or numbers that are not
\* finite or out of range.
Unreadable == -9
ASSUME UnreadableAssumption == Unreadable \notin Places
DecodesMovement(p) == p.n # Unreadable

\* A packet that does not decode ends the loop.  n is the teleport of an
\* Accept, the action of a ClientCommand (0 asks to respawn, 1 and 2 ask for
\* what is not sent) and 0 in an undecodable packet of another kind.
DecodedKinds ==
  MovementKinds
    \cup {"Accept", "ChunkBatch", "Gameplay", "ClientCommand", "ChatCommand", "Chat"}
Decodes(p) ==
  CASE p.kind \in MovementKinds -> DecodesMovement(p)
    [] p.kind = "Accept" -> p.n >= 0
    [] p.kind = "ClientCommand" -> p.n \in 0 .. 2
    [] OTHER -> p.n # 0

ReadUndecodable ==
  /\ Reads("read") /\ Incoming.kind \in DecodedKinds /\ ~Decodes(Incoming) /\ Consumes
  /\ Fails(<<>>) /\ UNCHANGED loop
  /\ Unaffected

\* An acknowledged teleport of any id, a batch, gameplay, a question.
ReadHarmless ==
  /\ Reads("read") /\ Decodes(Incoming) /\ Consumes
  /\ \/ Incoming.kind \in {"Accept", "ChunkBatch", "Gameplay"}
     \/ Incoming.kind = "ClientCommand" /\ Incoming.n # 0
  /\ AfterPacket(loop) /\ UNCHANGED <<session, toClient>>
  /\ Unaffected

\* A line of chat comes back through replication.
ReadChat ==
  /\ Gets("read", "Chat") /\ Decodes(Incoming) /\ Consumes
  /\ Publishes("broadcast", 0)
  /\ AfterPacket(loop)
  /\ PlayersSide /\ UNCHANGED <<entity, toClient>>

\* What a command does to this player, if its source has the permission.
TeleportTo(p) ==
  /\ entity' = [entity EXCEPT !.at = p]
  /\ Publishes("teleported", p)
Kill ==
  /\ entity' = [entity EXCEPT !.dead = TRUE]
  /\ IF entity.dead THEN UNCHANGED events ELSE Publishes("killed", 0)
Executes(acts) ==
  \/ /\ \E p \in Destinations : TeleportTo(p)
     /\ history' = [history EXCEPT !.acts = acts, !.teleported = TRUE]
  \/ Kill /\ history' = [history EXCEPT !.acts = acts]

\* The player's own command.  The answer, an error too, is a line of chat
\* that is ahead of what replication makes of the command's events.
ReadCommand ==
  /\ Gets("read", "ChatCommand") /\ Decodes(Incoming) /\ Consumes
  /\ \/ UNCHANGED <<entity, events, history>>
     \/ Executes(history.acts)
  /\ Sends(<<Plain("SystemChat")>>) /\ AfterPacket(loop)
  /\ Rest /\ UNCHANGED <<session, auxiliary, avatar>>

KnownKinds == DecodedKinds \cup {"KeepAlive", "Tick"}
ReadUnknown ==
  /\ Reads("read") /\ Incoming.kind \notin KnownKinds /\ Consumes
  /\ IF loop.ignored = MaxIgnored
       THEN Fails(<<>>) /\ UNCHANGED loop
       ELSE AfterPacket([loop EXCEPT !.ignored = @ + 1]) /\ UNCHANGED <<session, toClient>>
  /\ Unaffected

\* PlayerState::apply: a rotation has no position of its own.
Moved(l, p) == IF p.kind = "Turn" THEN l ELSE [l EXCEPT !.player = p.n]

\* Nor is it checked.
Acceptable(p) ==
  p.kind = "Move" => Distance(entity.at, p.n) <= MaxDelta /\ p.n \in Places

\* GameplaySync::refresh, then the checks against the position it read.
ReadMovement ==
  /\ Reads("read") /\ Incoming.kind \in MovementKinds /\ Decodes(Incoming) /\ Consumes
  /\ LET here == Followed(Refreshed(loop), ChunkOf(entity.at))
         view == Following(loop, ChunkOf(entity.at))
     IN IF Acceptable(Incoming)
          THEN /\ Sends(view) /\ loop' = Moved(here, Incoming)
               /\ Goes("moving") /\ UNCHANGED session
          ELSE Fails(view) /\ loop' = here
  /\ Unaffected

\* GameplaySync::synchronize overwrites what a command has written since the
\* refresh; then the view follows.
\* Mutant: only a move into another chunk is written.
SyncOnCrossing ==
  /\ step = "moving"
  /\ LET c == ChunkOf(loop.player) IN
     /\ entity' = IF c = loop.center THEN entity ELSE Synchronized(loop)
     /\ Sends(Following(loop, c)) /\ AfterPacket(Followed(loop, c))
  /\ PlayersSide /\ UNCHANGED <<toServer, events>>
Synchronize ==
  /\ step = "moving"
  /\ entity' = Synchronized(loop)
  /\ LET c == ChunkOf(loop.player) IN
     Sends(Following(loop, c)) /\ AfterPacket(Followed(loop, c))
  /\ PlayersSide /\ UNCHANGED <<toServer, events>>

\* GameplaySync::respawn
Respawns ==
  /\ entity.dead
  /\ entity' = [at |-> Spawn, dead |-> FALSE]
  /\ Publishes("respawned", Spawn)

\* Nothing happens to a player who is not dead.
ReadRespawn ==
  /\ Gets("read", "ClientCommand") /\ Incoming.n = 0 /\ Consumes
  /\ \/ /\ Respawns
        /\ Sends(Following(loop, ChunkOf(Spawn)))
        /\ AfterPacket(Followed([loop EXCEPT !.player = Spawn], ChunkOf(Spawn)))
     \/ ~entity.dead /\ AfterPacket(loop) /\ UNCHANGED <<entity, events, toClient>>
  /\ PlayersSide

\* The end of the stream, and a read timeout too, is an error before the loop;
\* in the loop the first is a normal end and the second changes nothing here.
PlayEnds ==
  /\ toServer = <<>>
  /\ \/ /\ step = "bootstrap" /\ (client.phase = "gone" \/ ~conforms)
        /\ Fails(<<>>)
     \/ /\ step = "read" /\ client.phase = "gone"
        /\ session' = Closed(session) /\ Ends("done") /\ UNCHANGED toClient
  /\ UNCHANGED <<toServer, loop>> /\ Unaffected

LoopStep ==
  \/ ReadBootstrap \/ Request \/ ReadAnswer \/ ReadTick
  \/ ReadUndecodable \/ ReadHarmless \/ ReadChat \/ ReadCommand \/ ReadUnknown
  \/ ReadMovement \/ Synchronize \/ ReadRespawn \/ PlayEnds

---------------------------------------------------------------------------
\* The rest of the server

InPlay == step \in {"bootstrap", "request", "read", "moving"}

\* Bound: the rest of the server acts on conforming clients only.
MayAct == conforms /\ InPlay /\ history.acts < MaxActs

\* A command of the console or of another player.
Command ==
  /\ MayAct
  /\ Executes(history.acts + 1)
  /\ UNCHANGED <<connVars, loop, avatar>>

\* What replication queues for the player an event is about.
OutputsOf(e) ==
  CASE e.kind = "teleported" -> <<Teleport(TeleportId, e.at)>>
    [] e.kind = "killed" -> <<Plain("Died")>>
    [] e.kind = "broadcast" -> <<Plain("SystemChat")>>
    [] e.kind = "respawned" -> <<Plain("Respawned"), Teleport(TeleportId, e.at)>>

Dispatch ==
  /\ InPlay /\ events # <<>>
  /\ toClient' = toClient \o OutputsOf(events[1]) /\ events' = Tail(events)
  /\ UNCHANGED <<config, conforms, step, session, auxiliary, outcome, client, toServer,
                 loop, entity, avatar, history>>

\* The authoritative runtime numbers requests of its own (AuthoritativeRuntime).
ForeignRequest ==
  /\ MayAct
  /\ history' = [history EXCEPT !.acts = @ + 1, !.foreign = @ + 1]
  /\ Sends(<<Packet("KeepAlive", history'.foreign)>>)
  /\ UNCHANGED <<config, conforms, step, session, auxiliary, outcome, client, toServer,
                 loop, entity, events, avatar>>

---------------------------------------------------------------------------
\* The client in the world

InWorld == conforms /\ client.phase = "InWorld"
ServerUntouched ==
  UNCHANGED <<config, conforms, step, session, auxiliary, outcome, loop, entity, events>>

\* Chunks too far from the center are not kept.
Shown(v, part) ==
  CASE part.kind = "Center" -> [center |-> part.n, chunks |-> v.chunks \cap Around(part.n)]
    [] part.kind = "Forget" -> [v EXCEPT !.chunks = @ \ {part.n}]
    [] part.kind = "Chunk" -> [v EXCEPT !.chunks = @ \cup ({part.n} \cap Around(v.center))]
ShownAll(v, parts) ==
  LET shown[i \in 0 .. Len(parts)] == IF i = 0 THEN v ELSE Shown(shown[i - 1], parts[i])
  IN shown[Len(parts)]

\* The view once all packets have come.
Arriving(v, packets) ==
  LET shown[i \in 0 .. Len(packets)] ==
        IF i = 0 THEN v
        ELSE IF packets[i].kind = "View" THEN ShownAll(shown[i - 1], packets[i].parts)
        ELSE shown[i - 1]
  IN shown[Len(packets)]

\* A player that respawns is a new one, which does not move before it is placed.
WorldKinds == {"View", "Teleport", "KeepAlive", "SystemChat", "Died", "Respawned"}
AvatarAfter(a, p) ==
  CASE p.kind = "View" -> [a EXCEPT !.view = ShownAll(@, p.parts)]
    [] p.kind = "Teleport" -> [a EXCEPT !.at = p.to, !.placed = TRUE]
    [] p.kind = "Died" -> [a EXCEPT !.alive = FALSE]
    [] p.kind = "Respawned" -> [a EXCEPT !.alive = TRUE, !.asked = FALSE, !.placed = FALSE]
    [] OTHER -> a
AnswersTo(p) ==
  CASE p.kind = "View" -> <<Packet("ChunkBatch", 1)>>
    [] p.kind = "Teleport" -> <<Packet("Accept", p.n), Packet("Move", p.to)>>
    [] p.kind = "KeepAlive" -> <<Packet("KeepAlive", p.n)>>
    [] OTHER -> <<>>

Inhabit ==
  /\ conforms /\ toClient # <<>>
  /\ LET p == toClient[1] IN
     \/ /\ client.phase \in {"Play", "InWorld"} /\ p.kind = "PlayDisconnect"
        /\ client' = [client EXCEPT !.phase = "gone"] /\ UNCHANGED <<toServer, avatar>>
     \/ /\ client.phase = "Play" /\ p.kind # "PlayDisconnect"
        /\ client' = [client EXCEPT !.phase = IF p.kind = "PlayLogin" THEN "InWorld"
                                                                     ELSE "confused"]
        /\ UNCHANGED <<toServer, avatar>>
     \/ /\ InWorld /\ p.kind # "PlayDisconnect"
        /\ IF p.kind \in WorldKinds
             THEN /\ avatar' = AvatarAfter(avatar, p) /\ ClientSends(AnswersTo(p))
                  /\ UNCHANGED client
             ELSE /\ client' = [client EXCEPT !.phase = "confused"]
                  /\ UNCHANGED <<toServer, avatar>>
  /\ toClient' = Tail(toClient)
  /\ UNCHANGED history /\ ServerUntouched

\* A player moves once it has been placed, and does not while it is dead.
Walk ==
  /\ InWorld /\ avatar.placed /\ avatar.alive /\ history.acts < MaxActs
  /\ history' = [history EXCEPT !.acts = @ + 1]
  /\ \/ \E p \in Places :
          /\ Distance(p, avatar.at) <= 1
          /\ avatar' = [avatar EXCEPT !.at = p]
          /\ ClientSends(<<Packet("Move", p)>>)
     \/ ClientSends(<<Plain("Turn")>>) /\ UNCHANGED avatar
  /\ UNCHANGED <<client, toClient>> /\ ServerUntouched

\* The end of a tick, or a packet the loop does not know (a swing of the arm).
Idle ==
  /\ InWorld /\ history.acts < MaxActs
  /\ history' = [history EXCEPT !.acts = @ + 1]
  /\ \E kind \in {"Tick", "Other"} : ClientSends(<<Plain(kind)>>)
  /\ UNCHANGED <<client, avatar, toClient>> /\ ServerUntouched

\* A line of chat or a command.  Bound: it counts for two acts.
Speak ==
  /\ InWorld /\ history.acts + 2 <= MaxActs
  /\ history' = [history EXCEPT !.acts = @ + 2]
  /\ \E kind \in {"Chat", "ChatCommand"} : ClientSends(<<Packet(kind, 1)>>)
  /\ UNCHANGED <<client, avatar, toClient>> /\ ServerUntouched

AskRespawn ==
  /\ InWorld /\ ~avatar.alive /\ ~avatar.asked
  /\ avatar' = [avatar EXCEPT !.asked = TRUE]
  /\ ClientSends(<<Plain("ClientCommand")>>)
  /\ UNCHANGED <<client, toClient, history>> /\ ServerUntouched

PlayerStep == Inhabit \/ Walk \/ Idle \/ Speak \/ AskRespawn

---------------------------------------------------------------------------
NewAvatar ==
  [at |-> Spawn, view |-> [center |-> ChunkOf(Spawn), chunks |-> {}],
   alive |-> TRUE, placed |-> FALSE, asked |-> FALSE]
Quiet == [acts |-> 0, foreign |-> 0, teleported |-> FALSE]

Init ==
  /\ ConnInit
  /\ loop = NewLoop /\ entity = [at |-> Spawn, dead |-> FALSE] /\ events = <<>>
  /\ avatar = NewAvatar /\ history = Quiet

Next ==
  \/ (HandlerStep \/ ClientStep) /\ UNCHANGED playVars
  \/ LoopStep
  \/ Command \/ Dispatch \/ ForeignRequest
  \/ PlayerStep

Spec == Init /\ [][Next]_vars

---------------------------------------------------------------------------
\* Properties

\* With every view packet that is on its way, a conforming client shows
\* exactly the chunks that the loop counts as loaded, around the same center,
\* and while the loop reads, that is the chunk of the position it keeps:
\* through the bootstrap, walking, rotation, teleports and respawns.  When
\* nothing is on its way any more, the position in the game state is the one
\* the client shows, although a movement overwrites what a command has written
\* between its refresh and its synchronize.
ClientShowsItsPlace ==
  /\ InWorld /\ InPlay =>
       /\ Arriving(avatar.view, toClient) = [center |-> loop.center, chunks |-> loop.loaded]
       /\ step \in {"request", "read"} => loop.center = ChunkOf(loop.player)
  /\ (InWorld /\ step \in {"request", "read"} /\ avatar.alive
       /\ toServer = <<>> /\ toClient = <<>> /\ events = <<>>)
       => entity = [at |-> avatar.at, dead |-> FALSE]

\* A client that follows the protocol is refused or leaves, but is never ended
\* with an error, however its walking, dying, respawning, ticks and answers
\* interleave with the server's packets: unless a command has teleported it,
\* or the authoritative runtime has asked it for signs of life as well.  The
\* packets that the loop does not know are fewer than MaxIgnored here.
HonestClientStays ==
  (conforms /\ client.phase # "gone" /\ outcome = "error")
    => history.teleported \/ history.foreign > 0
===========================================================================
