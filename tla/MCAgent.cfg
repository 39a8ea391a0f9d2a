CONSTANTS
  MinBackoff = 1
  MaxBackoff = 30
  Healthy = 30
  Durations <- MCDurations
  MaxAssertions = 2
SPECIFICATION AgentFairSpec
INVARIANTS BackoffIsExponential StatusIsTrue
PROPERTIES NeverGivesUp StopEndsIt
