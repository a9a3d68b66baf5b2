\* A helper command the user wrote stays in the settings.
SPECIFICATION Spec
CONSTANTS
  Agents = {"claude"}
  Worlds <- MCWorlds
  Catalogs <- MCCatalogs
  Selections <- MCSelections
  MaxCalls = 2
  MaxEdits = 1
PROPERTY
  UsersHelperStays
CHECK_DEADLOCK FALSE
