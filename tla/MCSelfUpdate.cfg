CONSTANTS
  MaxRelease = 2
  Worlds = {{}, {"dead", "fails", "group", "reboot", "rename"}}
CHECK_DEADLOCK FALSE
SPECIFICATION FairSpec
INVARIANTS CopyIsKept GoodBuildKept
PROPERTY AgentComesBack
