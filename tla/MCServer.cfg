SPECIFICATION ProcessSpec
CONSTANTS
  Clients <- MCClients
  PlayerOf <- MCPlayerOf
  MaxChanges = 1
  MaxOrders = 1
  Connection <- MCConnection
  Payload = {p}
  QueueCapacity = 5
  MaxSequence = 3
  DrainLimit <- MCDrainLimit
  Interval = 3
  MaxCatchUp = 2
  MaxDue = 4
  MaxTick = 9
  Delays <- MCDelays
  Horizon = 33
INVARIANTS
  PlayersHaveOneSession
  ExitIsComplete
  QueueIsSound
  FairShare
  ClockKeepsTime
PROPERTIES
  StopCompletes
CHECK_DEADLOCK FALSE
