CONSTANTS
  Requests = {r1, r2}
  MaxSaves = 4
SPECIFICATION Spec
SYMMETRY Symmetry
INVARIANTS ChangeSurvivesRestart SetupStaysClosed RevokedStaysRevoked
