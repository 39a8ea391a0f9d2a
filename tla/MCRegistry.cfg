CONSTANTS
  Agents = {a1, a2}
  Sessions = {s1, s2}
  Operators = {o1}
  NoSession = NoSession
SPECIFICATION FairSpec
CHECK_DEADLOCK FALSE
INVARIANTS OnlineIsWatched NoLeakedSession EndIsAnnounced
PROPERTIES OnlyItsOwnDeath RefinesPresence SupersededIsReleased DeathIsNoticed
