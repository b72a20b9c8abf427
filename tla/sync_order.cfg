SPECIFICATION FairSpec
CONSTANTS
  c1 = c1
  c2 = c2
  t1 = t1
  t2 = t2
  Consumers = {c1, c2}
  Documents <- MCDocuments
  Tokens = {t1, t2}
  Log <- WithOthers
  Retries = 2
  NoOne = NoOne
  NoToken = NoToken
  DlqMayFail = FALSE
  MaxCrashes = 1
  MaxRebalances = 0
INVARIANTS
  CommittedIsSettled
  NoRowLost
PROPERTIES
  EventuallyHandled
  LocksFreed
