SPECIFICATION FairSpec
CONSTANTS
  f1 = f1
  f2 = f2
  hermes = hermes
  codex = codex
  Files = {f1, f2}
  UserContents = {u1}
  ToolContents = {c1}
  Absent = Absent
  Integrations = {hermes}
  Targets <- BothFiles
  Txns = {1}
  NoDoc = NoDoc
  NoTask = NoTask
  Procs = {p1, p2}
  MaxOps = 1
  ClockSteps <- StrictClock
  Windows = {"inflight"}
  MaxEdits = 0
  MaxCrashes = 1
  MaxFaults = 1
PROPERTIES CallsEnd 
CHECK_DEADLOCK FALSE
