CONSTANTS
  NumWork = 2
  numOcoreTasks_ = 2
  Offsets = {0, 1}
  IntRange = 2
  Data = {d1, d2}
  Zero = Zero
  NoBlock = NoBlock
  allow_empty_input = FALSE
  MaxCalls <- OneLongTask
SPECIFICATION Spec
ACTION_CONSTRAINT BlocksFixed
INVARIANTS
  TypeOK
  HeadersMatchBlocks
  PullsKnownRecord
  ExitLeavesNothing
PROPERTIES
  MemorySpec
  CallsReturn
  FinalizeCompletes
