SPECIFICATION RuntimeSpec
CONSTANTS
  Connection = {c}
  NoState = NoState
  KeepAliveInterval = 2
  MaxKeepAliveId = 3
  CommandCapacity = 2
  InputCapacity = 2
  OutputCapacity = 1
INVARIANTS
  AnsweringClientKept
PROPERTIES
  StateReclaimed
  KeepAliveRounds
CHECK_DEADLOCK FALSE
