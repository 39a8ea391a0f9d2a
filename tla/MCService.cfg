CONSTANTS
  Builds = {b1, b2}
  None = None
  MaxFaults = 4
SPECIFICATION Spec
INVARIANTS DefinedHasBinary RemovedIsGone
PROPERTIES InstalledSurvivesBoot
CHECK_DEADLOCK FALSE
