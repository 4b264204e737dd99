----------------------------- MODULE MCWorkerHub -----------------------------
(***************************************************************************)
(* The hub that carries the inputs of players to the runtime, and beside   *)
(* it the inventory and containers that a player's clicks act on.  The hub *)
(* has two workers that register under the same ConnectionId, on channels  *)
(* and a queue small enough to be full most of the time.                   *)
(***************************************************************************)
EXTENDS WorkerHub, Containers, TLC

CONSTANTS a, b

MCWorker == {a, b}
MCConnection == {1}
MCConnectionOf == [w \in MCWorker |-> 1]
MCPayload == [worker : MCWorker, n : 1 .. MaxInputs]
MCDrainLimit == {2}
MCInputBudget == a :> 2 @@ b :> 1

MCMaxCount == [i \in Items |-> IF i = "stone" THEN 2 ELSE 1]

------------------------------------------------------------------------------
InputsInit == HubInit /\ ContainersInit

InputsNext ==
  \/ ContainersInit /\ HubNext /\ UNCHANGED containerVars
  \/ HubInit /\ ContainersNext /\ UNCHANGED vars

InputsSpec == InputsInit /\ [][InputsNext]_<<vars, containerVars>> /\ HubFairness
==============================================================================
