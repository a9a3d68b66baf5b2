SPECIFICATION Spec
CONSTANTS
  stream = stream
  tool = tool
  cancel = cancel
  Caps = {stream, tool, cancel}
  Level <- AgentLevels
  TTL <- Days
  Versions = {v1, v2}
  Impls = {i1, i2}
  Protocols = {1}
  Findings <- SomeFindings
  Claims <- SomeClaims
  Nothing = Nothing
  Within = 0
  Situations = {"placed", "changes"}
  MaxRecords = 2
  MaxNow = 2
  MaxChanges = 1
INVARIANTS VerdictIsEarned RankingStands
CHECK_DEADLOCK FALSE
SYMMETRY Equals
