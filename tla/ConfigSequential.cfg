SPECIFICATION Spec
CONSTANTS
  f1 = f1
  f2 = f2
  hermes = hermes
  codex = codex
  Files = {f1, f2}
  UserContents = {u1, u2}
  ToolContents = {c1, c2}
  Absent = Absent
  Integrations = {hermes}
  Targets <- BothFiles
  Txns = {1, 2}
  NoDoc = NoDoc
  NoTask = NoTask
  Procs = {p1}
  MaxOps = 2
  ClockSteps <- StrictClock
  Windows = {}
  MaxEdits = 1
  MaxCrashes = 1
  MaxFaults = 0
INVARIANTS TypeOK UserContentKept  WritesAreCovered RestorableMatchesDisk
SYMMETRY SymFiles
CHECK_DEADLOCK FALSE
