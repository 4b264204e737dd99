SPECIFICATION Spec
CONSTANTS
  Vocabularies <- MCVocabularies
  Locals <- MCLocals
  MaxWeight = 5
  MaxStack = 3
INVARIANTS
  ExecutionFollowsCfg
  IrOperandsAreExecuted
CHECK_DEADLOCK FALSE
