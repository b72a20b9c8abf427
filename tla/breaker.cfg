SPECIFICATION FairSpec
CONSTANTS
  Requests = {r1, r2, r3}
  Threshold = 3
  ResetTimeout = 2
INVARIANTS
  OpensOnStreak
PROPERTIES
  Recovers
  ProbesAgain
