------------------------------ MODULE SharedWorld ------------------------------
(***************************************************************************)
(* SharedWorld and PendingWorldUpdates of crates/ferrum-server/src/        *)
(* play_runtime.rs, with the part of the Play loop that uses them: block   *)
(* interactions checked under one lock and applied under another, peer     *)
(* updates queued per connection, coalesced and bounded, and chunks shown  *)
(* and forgotten as the player moves.                                      *)
(*                                                                         *)
(* What a connection routes to its writer reaches its client in that       *)
(* order, so the client's picture changes at once.  Other connections act  *)
(* on the followed ones only by the mutations they apply.                  *)
(***************************************************************************)
EXTENDS Integers, Sequences, SequencesExt

CONSTANTS
  Connection,   \* the connections followed
  Position,     \* block positions
  Chunk,        \* chunk positions
  ChunkOf,      \* the chunk of each position
  VisibleFrom,  \* the chunks in view around each centre
  Spawn,        \* the spawn chunk
  Air, Stone, Bedrock,
  Unknown,      \* the client has no such chunk
  Seed,         \* the generated or loaded world
  QueueLimit,   \* MAX_PENDING_WORLD_UPDATES_PER_CONNECTION
  DrainLimit    \* MAX_WORLD_UPDATES_PER_DRAIN

Block == {Air, Stone, Bedrock}

ASSUME SharedWorldAssumption ==
  /\ Unknown \notin Block /\ Position # {}
  /\ ChunkOf \in [Position -> Chunk]
  /\ Spawn \in Chunk /\ VisibleFrom \in [Chunk -> SUBSET Chunk]
  /\ Seed \in [Position -> Block]
  /\ QueueLimit \in Nat \ {0} /\ DrainLimit \in Nat \ {0}

VARIABLES
  world,   \* the block states of the shared ChunkStore
  pending, \* the update queue of each subscriber
  loop,      \* where each connection's Play loop stands
  target,  \* the mutation that has passed its check, in loop "checked"
  shown,   \* the chunks each client has
  todo,    \* the chunks it is still to be shown
  view,    \* the block states as the client has them
  stale    \* history: positions whose last change may never reach the client:
           \* an older peer update is still queued behind the client's own, or
           \* the update fell off the front of a full queue

worldVars == <<world, pending, loop, target, shown, todo, view, stale>>

Update(p, b) == [position |-> p, current |-> b]
NoTarget == Update(CHOOSE p \in Position : TRUE, Air)

PositionsIn(updates) == {updates[i].position : i \in DOMAIN updates}
Subscribed == {c \in Connection : loop[c] # "gone"}

WorldInit ==
  /\ world = Seed
  /\ pending = [c \in Connection |-> <<>>]
  /\ loop = [c \in Connection |-> "gone"]
  /\ target = [c \in Connection |-> NoTarget]
  /\ shown = [c \in Connection |-> {}]
  /\ todo = [c \in Connection |-> {}]
  /\ view = [c \in Connection |-> [p \in Position |-> Unknown]]
  /\ stale = [c \in Connection |-> {}]

-----------------------------------------------------------------------------
(* Defects the runs must reject: a queue that coalesces into the older     *)
(* event, and one that moves the coalesced event to its back.              *)
KeepOlder(q, u) == q
MoveToBack(q, u) == Append(SelectSeq(q, LAMBDA v : v.position # u.position), u)

(* PendingWorldUpdates::push: a queued update of the position is replaced  *)
(* where it stands; otherwise a full queue loses its front.                *)
Replace(q, u) == [i \in DOMAIN q |-> IF q[i].position = u.position THEN u ELSE q[i]]
MakeRoom(q) == IF Len(q) = QueueLimit THEN Tail(q) ELSE q

PushUpdate(q, u) ==
  IF u.position \in PositionsIn(q) THEN Replace(q, u) ELSE Append(MakeRoom(q), u)

(* The block states a client has once it handles a sequence of updates; it *)
(* ignores those of chunks it does not have.                               *)
Shown(c, updates) == [p \in Position |->
  IF view[c][p] # Unknown /\ p \in PositionsIn(updates)
  THEN updates[CHOOSE i \in DOMAIN updates : updates[i].position = p].current
  ELSE view[c][p]]

(* SharedWorld::apply_event under the lock: the mutation, and its update   *)
(* queued for every subscriber but the one that made it.                   *)
Mutate(u, others) ==
  /\ world' = [world EXCEPT ![u.position] = u.current]
  /\ pending' = [d \in Connection |->
       IF d \in others THEN PushUpdate(pending[d], u) ELSE pending[d]]

(* The positions whose change d can no longer be told of once u is queued. *)
StaleAfterPush(d, u) ==
  LET q == PushUpdate(pending[d], u) IN
  (stale[d] \ {u.position}) \cup (PositionsIn(pending[d]) \ PositionsIn(q))

-----------------------------------------------------------------------------
(* The Play loop of connection c.  It subscribes before its first chunk.   *)
Subscribe(c) ==
  /\ loop[c] = "gone"
  /\ loop' = [loop EXCEPT ![c] = "show"]
  /\ todo' = [todo EXCEPT ![c] = VisibleFrom[Spawn]]
  /\ UNCHANGED <<world, pending, target, shown, view, stale>>

(* The subscription is dropped when the loop ends, or fails to route.      *)
Unsubscribe(c) ==
  /\ loop[c] \in {"show", "read", "drain"}
  /\ loop' = [loop EXCEPT ![c] = "gone"]
  /\ pending' = [pending EXCEPT ![c] = <<>>]
  /\ shown' = [shown EXCEPT ![c] = {}]
  /\ view' = [view EXCEPT ![c] = [p \in Position |-> Unknown]]
  /\ stale' = [stale EXCEPT ![c] = {}]
  /\ todo' = [todo EXCEPT ![c] = {}]
  /\ UNCHANGED <<world, target>>

(* Movement, respawn and teleport recentre the view: first the chunks out  *)
(* of view are forgotten, then the new ones are shown one by one.          *)
Recenter(c, centre) ==
  LET forgotten == shown[c] \ VisibleFrom[centre] IN
  /\ loop[c] = "read"
  /\ loop' = [loop EXCEPT ![c] = "show"]
  /\ shown' = [shown EXCEPT ![c] = @ \ forgotten]
  /\ todo' = [todo EXCEPT ![c] = VisibleFrom[centre] \ shown[c]]
  /\ view' = [view EXCEPT ![c] =
       [p \in Position |-> IF ChunkOf[p] \in forgotten THEN Unknown ELSE @[p]]]
  /\ UNCHANGED <<world, pending, target, stale>>

(* chunk_snapshot locks the world once for each chunk.                     *)
ShowChunk(c) ==
  /\ loop[c] = "show"
  /\ \E k \in todo[c] :
       /\ todo' = [todo EXCEPT ![c] = @ \ {k}]
       /\ shown' = [shown EXCEPT ![c] = @ \cup {k}]
       /\ view' = [view EXCEPT ![c] =
            [p \in Position |-> IF ChunkOf[p] = k THEN world[p] ELSE @[p]]]
       /\ stale' = [stale EXCEPT ![c] =
            {p \in @ : ChunkOf[p] # k \/ p \in PositionsIn(pending[c])}]
  /\ UNCHANGED <<world, pending, loop, target>>

AllShown(c) ==
  /\ loop[c] = "show" /\ todo[c] = {}
  /\ loop' = [loop EXCEPT ![c] = "drain"]
  /\ UNCHANGED <<world, pending, target, shown, todo, view, stale>>

IsPlacementTargetAir(p) == world[p] = Air
IsBreakTargetMutable(p) == world[p] \notin {Air, Bedrock}

(* Player Action and Use Item On: the check reads the block and lets go of *)
(* the lock.  One that fails is acknowledged and no more.                  *)
Interact(c, p) ==
  /\ loop[c] = "read" /\ ChunkOf[p] \in shown[c]
  /\ \/ /\ IsBreakTargetMutable(p)
        /\ target' = [target EXCEPT ![c] = Update(p, Air)]
        /\ loop' = [loop EXCEPT ![c] = "checked"]
     \/ /\ IsPlacementTargetAir(p)
        /\ target' = [target EXCEPT ![c] = Update(p, Stone)]
        /\ loop' = [loop EXCEPT ![c] = "checked"]
     \/ /\ ~IsBreakTargetMutable(p) \/ ~IsPlacementTargetAir(p)
        /\ loop' = [loop EXCEPT ![c] = "drain"]
        /\ UNCHANGED target
  /\ UNCHANGED <<world, pending, shown, todo, view, stale>>

(* The mutation is applied and its own update goes out before the loop     *)
(* looks at the queued ones.                                               *)
Apply(c) ==
  LET u == target[c] IN
  /\ loop[c] = "checked"
  /\ Mutate(u, Subscribed \ {c})
  /\ view' = [view EXCEPT ![c] = Shown(c, <<u>>)]
  /\ stale' = [d \in Connection |->
       CASE d = c -> IF u.position \in PositionsIn(pending[c])
                     THEN stale[c] \cup {u.position} ELSE stale[c] \ {u.position}
         [] d \in Subscribed \ {c} -> StaleAfterPush(d, u)
         [] OTHER -> stale[d]]
  /\ loop' = [loop EXCEPT ![c] = "drain"]
  /\ target' = [target EXCEPT ![c] = NoTarget]
  /\ UNCHANGED <<shown, todo>>

(* Any other packet, and a read that times out, go straight to the drain.  *)
ReadOther(c) ==
  /\ loop[c] = "read"
  /\ loop' = [loop EXCEPT ![c] = "drain"]
  /\ UNCHANGED <<world, pending, target, shown, todo, view, stale>>

DrainUpdates(c) ==
  LET count == IF Len(pending[c]) < DrainLimit THEN Len(pending[c]) ELSE DrainLimit IN
  /\ loop[c] = "drain"
  /\ view' = [view EXCEPT ![c] = Shown(c, SubSeq(pending[c], 1, count))]
  /\ pending' = [pending EXCEPT ![c] = SubSeq(@, count + 1, Len(@))]
  /\ loop' = [loop EXCEPT ![c] = "read"]
  /\ UNCHANGED <<world, target, shown, todo, stale>>

(* A mutation by a connection that is not followed: a break or a placement *)
(* whose check held at some earlier moment.  Nothing makes bedrock.        *)
PeerApplies(p, b) ==
  /\ world[p] # Bedrock
  /\ Mutate(Update(p, b), Subscribed)
  /\ stale' = [d \in Connection |->
       IF d \in Subscribed THEN StaleAfterPush(d, Update(p, b)) ELSE stale[d]]
  /\ UNCHANGED <<loop, target, shown, todo, view>>

LoopStep(c) ==
  ShowChunk(c) \/ AllShown(c) \/ Apply(c) \/ ReadOther(c) \/ DrainUpdates(c)

WorldNext ==
  \/ \E c \in Connection :
       \/ Subscribe(c) \/ Unsubscribe(c) \/ LoopStep(c)
       \/ \E centre \in Chunk : Recenter(c, centre)
       \/ \E p \in Position : Interact(c, p)
  \/ \E p \in Position, b \in {Air, Stone} : PeerApplies(p, b)

(* A read returns within the socket's timeout, and each pass of the loop   *)
(* ends with a drain.                                                      *)
WorldFairness ==
  \A c \in Connection :
    /\ WF_worldVars(LoopStep(c))
    /\ SF_worldVars(ShowChunk(c)) /\ SF_worldVars(DrainUpdates(c))

WorldSpec == WorldInit /\ [][WorldNext]_worldVars /\ WorldFairness

-----------------------------------------------------------------------------
(* Types.  A queue holds at most QueueLimit updates, and one per position. *)
WorldTypeOK ==
  /\ world \in [Position -> Block]
  /\ pending \in [Connection -> Seq([position : Position, current : {Air, Stone}])]
  /\ \A c \in Connection : Len(pending[c]) <= QueueLimit /\ IsInjective(
       [i \in DOMAIN pending[c] |-> pending[c][i].position])
  /\ loop \in [Connection -> {"gone", "show", "read", "checked", "drain"}]
  /\ target \in [Connection -> [position : Position, current : {Air, Stone}]]
  /\ shown \in [Connection -> SUBSET Chunk] /\ todo \in [Connection -> SUBSET Chunk]
  /\ view \in [Connection -> [Position -> Block \cup {Unknown}]]
  /\ stale \in [Connection -> SUBSET Position]

(* What a client sees is the world, or the update that will make it so is  *)
(* queued, for every block of every chunk it has, whatever mutations fall  *)
(* between the chunk snapshots, the drains and its own changes; only the   *)
(* two losses that stale records escape (play_runtime.rs:205 and 404-410). *)
ViewTracksWorld ==
  \A c \in Subscribed : \A p \in Position \ stale[c] :
    ChunkOf[p] \in shown[c] =>
      \/ p \notin PositionsIn(pending[c]) /\ view[c][p] = world[p]
      \/ Update(p, world[p]) \in Range(pending[c])

(* A queued update leaves the queue, although its position may keep        *)
(* changing and a drain takes a limited number: coalescing does not cost   *)
(* an update its place in the queue.                                       *)
UpdatesDelivered ==
  \A c \in Connection, p \in Position :
    p \in PositionsIn(pending[c]) ~> p \notin PositionsIn(pending[c])
=============================================================================
