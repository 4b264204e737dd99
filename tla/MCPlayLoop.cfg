SPECIFICATION Spec
CONSTANTS
  Configs <- MCConfigs
  MaxAuxiliary = 2
  MaxInformation = 1
  StrayPackets <- MCStrayPackets
  Spawn = 0
  ChunkOf <- MCChunkOf
  SpawnTeleport = 1
  Radius = 1
  MaxDelta = 1
  Places <- MCPlaces
  Destinations <- MCDestinations
  MaxIgnored = 5
  Interval = 1
  MaxRounds = 2
  MaxActs = 3
INVARIANTS
  SessionFollowsHandler
  ClientUnderstands
  ClientShowsItsPlace
  HonestClientStays
CHECK_DEADLOCK FALSE
