SPECIFICATION StateSpec
CONSTANTS
  Players = {"p1", "p2"}
  Names = {"Ann", "ann", "Bo"}
  Keys = {"ann", "bo"}
  Key <- MCKey
  Positions = {"spawn", "far"}
  Spawn = "spawn"
  Modes = {"survival", "creative"}
  Survival = "survival"
  InvulnerableModes = {"creative"}
  NoMode = "none"
  MaxHealth = 2
  Amounts = {0, 1}
  LastId = 4
  InitialFiles <- MCInitialFiles
  NoPlayer = "nobody"
  CellSize = 2
  AngleSize = 2
  FullTurn = 2
  ShortStep = 1
  MaxMoves = 2
  Places <- MCPlaces
  Angles <- MCAngles
  HotbarSlots = {"hotbar 0", "hotbar 1"}
  WornSlots = {"head"}
  FirstSelected = "hotbar 0"
  NoStack = none
  Stacks <- MCStacks
  ItemIds = {"stone"}
  ComponentIds = {"damage"}
  MaxChanges = 3
INVARIANTS
  RegistriesAgree
  SnapshotRestores
  MovementsAddUp
  ItemsAreCurrent
PROPERTY EventsTellChanges
