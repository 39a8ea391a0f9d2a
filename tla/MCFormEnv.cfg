CONSTANTS
  Commands = {p1}
  Conns = {c1}
  Absent = Absent
  Torn = Torn
  SharesHome = FALSE
  Env = {"person"}
  MaxKeys = 1
  MaxCommands = 2
SPECIFICATION Spec
INVARIANT FormLeavesEnvDynamic
CHECK_DEADLOCK FALSE
