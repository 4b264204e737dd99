CONSTANTS
  Caller = {console, admin}
  CommandCapacity = 3
  MaxVersion = 2
  MaxStarts = 3
SPECIFICATION SnapshotSpec
PROPERTIES
  RestartKeepsSaves
CHECK_DEADLOCK FALSE
