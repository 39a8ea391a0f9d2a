CONSTANTS
  Agents = {a}
  Agent1 = a
  Sessions = {s1, s2, s3}
  Operators = {o}
  NoSession = NoSession
  MinBackoff = 1
  MaxBackoff = 1
  Healthy = 30
  MaxAssertions = 1
  Durations <- MCDurations
CHECK_DEADLOCK FALSE
SPECIFICATION TunnelFairSpec
INVARIANTS NeverStranded
PROPERTIES TunnelHeals
