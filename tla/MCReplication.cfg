SPECIFICATION ReplicationSpec
CONSTANTS
  a = a
  b = b
  a1 = a1
  a2 = a2
  b1 = b1
  Console = console
  Subject = {a}
  Player = {a, b}
  Session = {a1, a2, b1}
  Owner <- MCOwner
  Position = {0, 1}
  Slot = {0, 1}
  Reach = 1
  EventCapacity = 2
  PendingLimit = 2
  Room = {0, 2}
  MaxOps = 4
SYMMETRY SessionSymmetry
INVARIANTS
  PictureIsCurrent
  ServedOrGivenUp
CHECK_DEADLOCK FALSE
