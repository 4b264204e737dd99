---------------------------- MODULE MCGameState ----------------------------
(***************************************************************************)
(* The game state, and what clients are sent of it: either its operations, *)
(* or the movements of one player, or the items that it has.               *)
(***************************************************************************)
EXTENDS GameState, EntityMotion, ItemOutputs, TLC

MCKey == [n \in Names |-> IF n = "Bo" THEN "bo" ELSE "ann"]
Operator == [name |-> "Bo", entity |-> 0, mode |-> "survival",
             previousMode |-> "none", health |-> 2, level |-> 2, connected |-> FALSE]
MCInitialFiles ==
  {[players |-> <<>>, entities |-> <<>>],
   [players |-> ("p1" :> [Operator EXCEPT !.connected = TRUE, !.entity = 1]),
    entities |-> (1 :> [player |-> "p1", position |-> "far"])]}

\* Fractions of two and turns of two, with steps that are too long.
MCPlaces == -1 .. 3
MCAngles == -1 .. 2

\* One stack that can be sent, and one that cannot.
MCStacks == {
  [item |-> "stone", components |-> {[name |-> "damage", explicit |-> TRUE]}],
  [item |-> "stone", components |-> {[name |-> "damage", explicit |-> FALSE]}]}

----------------------------------------------------------------------------
NotMoving ==
  /\ body = [place |-> 0, yaw |-> 0] /\ moves = [i \in 1 .. MaxMoves + 1 |-> body]
  /\ rounds = FALSE /\ tracked = Unseen /\ seen = Unseen

NoInventory ==
  /\ slots = NoItems /\ selection = "off" /\ changes = <<>>
  /\ own = NoItems /\ worn = NotSeen /\ missed = {}

NoGame ==
  /\ players = None /\ names = None /\ entities = None /\ uuids = None
  /\ nextId = 0 /\ events = <<>>

StateInit ==
  \/ Init /\ NotMoving /\ NoInventory
  \/ NoGame /\ MotionInit /\ NoInventory
  \/ NoGame /\ NotMoving /\ ItemsInit

StateNext ==
  \/ nextId # 0 /\ Next /\ UNCHANGED <<motionVars, itemVars>>
  \/ Len(moves) <= MaxMoves /\ MotionNext /\ UNCHANGED <<vars, itemVars>>
  \/ selection # "off" /\ ItemsNext /\ UNCHANGED <<vars, motionVars>>

StateSpec == StateInit /\ [][StateNext]_<<vars, motionVars, itemVars>>
============================================================================
