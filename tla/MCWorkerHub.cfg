SPECIFICATION InputsSpec
CONSTANTS
  a = a
  b = b
  Worker <- MCWorker
  ConnectionOf <- MCConnectionOf
  Connection <- MCConnection
  Payload <- MCPayload
  InputBudget <- MCInputBudget
  NoWorker = NoWorker
  QueueCapacity = 2
  MaxSequence = 2
  DrainLimit <- MCDrainLimit
  CommandCapacity = 2
  OutputCapacity = 1
  MaxInputs = 2
  Items = {"stone", "sword"}
  NoItem = "air"
  MaxCount <- MCMaxCount
  MainStart = 0
  HotbarStart = 1
  HotbarEnd = 1
  ContainerIds = {1}
  ChestSlots = 1
  StateIdLimit = 2
  MaxItems = 2
  MaxDragSlots = 2
  GiveCounts = {1, 2}
INVARIANTS
  RevokedInputsGone
  DragSlotsResolve
  EventsTellAll
PROPERTIES
  UsesQueue
  DisconnectTakesEffect
  LedgerSpec
CHECK_DEADLOCK FALSE
