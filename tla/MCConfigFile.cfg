CONSTANTS
  Commands = {p1, p2}
  Conns = {c1, c2}
  Absent = Absent
  Torn = Torn
  SharesHome = FALSE
  Env = {"service", "person"}
  MaxKeys = 2
  MaxCommands = 3
SPECIFICATION Spec
SYMMETRY Symmetric
INVARIANTS KeyMatchesAssertion NothingIsForgotten EnvStaysDynamic
PROPERTIES HostKeyIsStable
CHECK_DEADLOCK FALSE
