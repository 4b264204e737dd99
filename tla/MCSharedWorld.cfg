SPECIFICATION LiveSpec
CONSTANTS
  Connection = {c}
  p1 = p1
  p2 = p2
  p3 = p3
  p4 = p4
  near = near
  far = far
  Position <- MCPosition
  Chunk <- MCChunk
  ChunkOf <- MCChunkOf
  VisibleFrom <- MCVisibleFrom
  Spawn = near
  Air = Air
  Stone = Stone
  Bedrock = Bedrock
  Unknown = Unknown
  Seed <- MCSeed
  QueueLimit = 2
  DrainLimit = 1
  Caller = {console, admin}
  CommandCapacity = 3
  MaxVersion = 2
  MaxStarts = 3
INVARIANTS
  ViewTracksWorld
  AcknowledgedOnDisk
PROPERTIES
  UpdatesDelivered
  CallsReturn
CHECK_DEADLOCK FALSE
