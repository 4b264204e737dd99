SPECIFICATION DiskSpec
CONSTANTS
  builtin = builtin
  republished = republished
  coreReport = coreReport
  oldReport = oldReport
  Missing = Missing
  Artifacts <- MCArtifacts
  Builtin <- builtin
  Reports <- MCReports
  CoreReport <- coreReport
  Conforming <- MCConforming
  MaxFaults = 3
  Edge = 2
  RegionEdge = 2
  WordBits = 7
  MinBits = 1
  MaxIndirectBits = 1
  Air = 0
  BlockStates <- MCBlockStates
  UnknownState = 1
  FlatLayers <- MCFlatLayers
  ProfileMin <- MCProfileMin
  ProfileCount = 2
  Sources <- MCSources
  Visited <- MCVisited
  States <- MCStates
  MaxChanges = 2
  SectorBytes = 8
  MaxDecompressed = 2
  NoFile = NoFile
  PacketKinds <- MCPacketKinds
  PhaseOf <- MCPhaseOf
  DirectionOf <- MCDirectionOf
  PathsOf <- MCPathsOf
  CanonicalPath <- MCCanonicalPath
  Core <- MCCore
  BuiltinIds <- MCBuiltinIds
  DefaultIds <- MCDefaultIds
  Configurable <- MCConfigurable
  Handshaking = {"FinishConfiguration"}
  Configurations <- MCConfigurations
  PlainConfiguration <- MCPlain
  OfficialIds <- MCOfficialIds
  Vitals = {"SetHealth"}
  PlayerEntities = {"PlayerInfoUpdate", "AddEntity"}
  PlayerInfo = "PlayerInfoUpdate"
  Equipment = "SetEquipment"
  Player = "player"
  PacketReports <- MCPacketReports
  RegistryReports <- MCRegistryReports
  NoReport = NoReport
  NoPack = NoPack
INVARIANTS
  RecordMatchesSource
  SetupRepairs
  ClientReadsChunks
  SeedIsTheRegions
  SavedWorldLoads
  RunningHasItsPackets
  GeneratedPackStarts
PROPERTIES
  SetupIsIdempotent
