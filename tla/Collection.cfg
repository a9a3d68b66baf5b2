SPECIFICATION Spec
CONSTANTS
  Protocol = "messages"
  Attempts = 3
  MaxUnusual = 2
INVARIANTS RequestsAreAccounted RunVerdictAgrees ConformingModelPasses
 
CHECK_DEADLOCK FALSE
