\* All four Agents on six machines, two commands, two changes by the user or
\* Hub.  Commands and changes run out, so the system stops.
SPECIFICATION Spec
CONSTANTS
  Agents = {"codex", "claude", "hermes", "opencode"}
  Worlds <- MCWorlds
  Catalogs <- MCCatalogs
  Selections <- MCSelections
  MaxCalls = 2
  MaxEdits = 1
INVARIANTS
  AgentTypeOK
  LaunchedAsConfigured
  WrittenModelsAreServed
  DoctorIsHonest
PROPERTIES
  
  SwitchKeepsTheSet
  CreatedFileSurvivesTheAgent
CHECK_DEADLOCK FALSE
