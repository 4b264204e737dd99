----------------------------- MODULE EntityMotion -----------------------------
(***************************************************************************)
(* How another client follows a player's movements (ferrum-play/entity.rs, *)
(* game_replication.rs): a short step is sent as the difference of two     *)
(* packet coordinates, a long one as a position, and a rotation as a part  *)
(* of a turn, in the packet of the step, in one of its own and once more   *)
(* for the head.  Module Replication says which packets there are; this    *)
(* one says what they hold and what a client has made of them in the end.  *)
(*                                                                         *)
(* One axis stands for three and yaw for both angles.  Numbers are counted *)
(* in parts finer than a packet's unit: CellSize of them make a packet     *)
(* coordinate (1/4096 block), AngleSize a packet angle.  Whether a player   *)
(* is on the ground goes along with its movements and is left out.         *)
(***************************************************************************)
EXTENDS Integers, Sequences

CONSTANTS
  CellSize, AngleSize,
  FullTurn,       \* packet angles in a turn, 256
  ShortStep,      \* i16: a step is within -ShortStep-1 .. ShortStep
  Places, Angles, \* where the player may be, and how turned
  MaxMoves        \* bound: movements that the replication thread lags behind

ASSUME EntityMotionAssumption ==
  /\ {CellSize, AngleSize, FullTurn} \subseteq Nat \ {0} /\ ShortStep \in Nat
  /\ Places \subseteq Int /\ Angles \subseteq Int /\ MaxMoves \in Nat

VARIABLES
  body,       \* the transform of the player's entity
  moves,      \* its movements that replication has not dispatched yet
  tracked,    \* what the connection last told its client, or Unseen
  seen,       \* what the client has made of it, or Unseen
  rounds      \* whether the client rounds to a packet coordinate, or floors

motionVars == <<body, moves, tracked, seen, rounds>>

Unseen == [place |-> "unseen"]
Transforms == [place : Places, yaw : Angles]

----------------------------------------------------------------------------
\* packet_coordinate, a floor.
PacketCoordinate(x) == x \div CellSize

\* pack_degrees.
PackDegrees(angle) == (angle \div AngleSize) % FullTurn

\* A mutated form: the coordinate of the difference, whose fractions are lost.
DeltaOfPlaces(from, to) == PacketCoordinate(to - from)

\* relative_deltas: the difference of the coordinates.
RelativeDelta(from, to) == PacketCoordinate(to) - PacketCoordinate(from)

IsShort(delta) == delta \in -ShortStep - 1 .. ShortStep

\* encode_teleport_entity, and the position of encode_add_entity.
EncodeTeleport(to) == [kind |-> "teleport", to |-> to]

\* encode_entity_movement: the packets of a movement, at most one.
EncodeMovement(from, to) ==
  LET turned == PackDegrees(from.yaw) # PackDegrees(to.yaw)
      moved  == from.place # to.place
      delta  == RelativeDelta(from.place, to.place)
  IN CASE ~moved /\ ~turned -> <<>>
       [] ~moved /\ turned -> <<[kind |-> "rotation", to |-> to]>>
       [] moved /\ IsShort(delta) /\ ~turned -> <<[kind |-> "position", by |-> delta, to |-> to]>>
       [] moved /\ IsShort(delta) /\ turned ->
            <<[kind |-> "position rotation", by |-> delta, to |-> to]>>
       [] moved /\ ~IsShort(delta) -> <<EncodeTeleport(to)>>

\* encode_rotate_head follows every change of the exact angle.
HeadTurn(from, to) ==
  IF from.yaw # to.yaw THEN <<[kind |-> "head", to |-> to]>> ELSE <<>>

----------------------------------------------------------------------------
(* The client.  It keeps the place it knew where a step is zero, and       *)
(* otherwise takes the step from the coordinate it has for that place.     *)

ClientCoordinate(x) == PacketCoordinate(IF rounds THEN x + (CellSize \div 2) ELSE x)

Stepped(place, by) ==
  IF by = 0 THEN place ELSE (ClientCoordinate(place) + by) * CellSize

\* A packet does not hold more of its movement than is used here.
Followed(picture, packet) ==
  LET turn == PackDegrees(packet.to.yaw)
  IN CASE packet.kind = "position" -> [picture EXCEPT !.place = Stepped(@, packet.by)]
       [] packet.kind = "position rotation" ->
            [picture EXCEPT !.place = Stepped(@, packet.by), !.turn = turn]
       [] packet.kind = "rotation" -> [picture EXCEPT !.turn = turn]
       [] packet.kind = "teleport" ->
            [picture EXCEPT !.place = packet.to.place, !.turn = turn]
       [] packet.kind = "head" -> [picture EXCEPT !.head = turn]

FollowedAll(picture, packets) ==
  CASE Len(packets) = 0 -> picture
    [] Len(packets) = 1 -> Followed(picture, packets[1])
    [] Len(packets) = 2 -> Followed(Followed(picture, packets[1]), packets[2])

----------------------------------------------------------------------------
MotionInit ==
  /\ body \in Transforms
  /\ moves = <<>>
  /\ tracked = Unseen /\ seen = Unseen
  /\ rounds \in BOOLEAN

\* move_player and teleport_player: the event carries the new transform.
MoveBody(kind) ==
  /\ Len(moves) < MaxMoves
  /\ \E to \in Transforms :
       /\ body' = to
       /\ moves' = Append(moves, [kind |-> kind, to |-> to])
  /\ UNCHANGED <<tracked, seen, rounds>>

NowSeen ==
  /\ tracked' = body
  /\ seen' = [place |-> body.place, turn |-> PackDegrees(body.yaw),
              head |-> PackDegrees(body.yaw)]

\* queue_player_spawn, from the state as it is: the client connects, or the
\* player does or is alive again.
SpawnBody ==
  /\ tracked = Unseen
  /\ NowSeen
  /\ UNCHANGED <<body, moves, rounds>>

\* queue_player_entity_remove: the player is killed, or leaves.
RemoveBody ==
  /\ tracked # Unseen
  /\ tracked' = Unseen /\ seen' = Unseen
  /\ UNCHANGED <<body, moves, rounds>>

Sent(packets, to) ==
  /\ seen' = FollowedAll(seen, packets)
  /\ tracked' = to

\* queue_player_movement.
DispatchMovement ==
  /\ moves # <<>> /\ Head(moves).kind = "moved"
  /\ LET to == Head(moves).to
     IN IF tracked = Unseen THEN NowSeen
        ELSE Sent(EncodeMovement(tracked, to) \o HeadTurn(tracked, to), to)
  /\ moves' = Tail(moves)
  /\ UNCHANGED <<body, rounds>>

\* queue_player_absolute_teleport.
DispatchTeleport ==
  /\ moves # <<>> /\ Head(moves).kind = "teleported"
  /\ LET to == Head(moves).to
     IN IF tracked = Unseen THEN NowSeen
        ELSE Sent(<<EncodeTeleport(to)>> \o HeadTurn(tracked, to), to)
  /\ moves' = Tail(moves)
  /\ UNCHANGED <<body, rounds>>

MotionNext ==
  \/ MoveBody("moved") \/ MoveBody("teleported")
  \/ SpawnBody \/ RemoveBody \/ DispatchMovement \/ DispatchTeleport

MotionSpec == MotionInit /\ [][MotionNext]_motionVars

----------------------------------------------------------------------------
Near(x, y) == x - y \in -CellSize .. CellSize

\* However many steps a player makes, and whatever is lost of each in its
\* encoding: once its movements have been dispatched, a client that sees it
\* has it within one packet coordinate of its place, and turned as it is, to
\* a packet angle.  Errors do not add up.
MovementsAddUp ==
  moves = <<>> /\ tracked # Unseen =>
    /\ Near(seen.place, body.place)
    /\ seen.turn = PackDegrees(body.yaw) /\ seen.head = PackDegrees(body.yaw)
=============================================================================
