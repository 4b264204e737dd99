----------------------------- MODULE MCServer -----------------------------
(***************************************************************************)
(* The life of the server, and beside it the two parts of a tick of its    *)
(* runtime: the queue, with three connections, few enough inputs that the  *)
(* shared capacity is hit and that a drain takes several rounds, stops     *)
(* inside one, or empties it all; and the clock.                           *)
(***************************************************************************)
EXTENDS Server, InputQueue, FixedRateClock

\* Both connections are of one player.
MCClients == 1 .. 2
MCPlayerOf == <<1, 1>>

MCConnection == {1, 2, 3}
MCDrainLimit == {0, 2, 3, 5}

\* Polls at any time up to the tenth tick, and one that comes very late.
MCDelays == {1, 2, 5, 13}

---------------------------------------------------------------------------
\* No process whose life could be followed.
NoServer ==
  /\ main = "none" /\ client = [c \in Clients |-> "away"]
  /\ registered = <<>> /\ connected = {} /\ online = 0 /\ shutdown = FALSE
  /\ operator = [o \in Operators |-> [pc |-> "idle", stop |-> FALSE]]
  /\ service = [s \in Services |-> "up"]
  /\ state = [s \in {"game", "world"} |-> 0]
  /\ file = [s \in {"game", "world"} |-> 0]
  /\ orders = 0

QueueIsNew == ~draining /\ \A c \in Connection : nextSequence[c] = 0

ProcessInit == (Init \/ NoServer) /\ QueueInit /\ ClockInit

ProcessNext ==
  \/ main # "none" /\ Next /\ UNCHANGED <<inputVars, clockVars>>
  \/ main = "none" /\ now = 0 /\ QueueNext /\ UNCHANGED <<serverVars, clockVars>>
  \/ main = "none" /\ QueueIsNew /\ ClockNext /\ UNCHANGED <<serverVars, inputVars>>

ProcessSpec ==
  ProcessInit /\ [][ProcessNext]_<<serverVars, inputVars, clockVars>> /\ Fairness
===========================================================================
