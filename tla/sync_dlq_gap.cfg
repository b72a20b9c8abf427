SPECIFICATION Spec
CONSTANTS
  c1 = c1
  c2 = c2
  t1 = t1
  t2 = t2
  Consumers = {c1, c2}
  Documents <- MCDocuments
  Tokens = {t1, t2}
  Log <- OneDocument
  Retries = 1
  NoOne = NoOne
  NoToken = NoToken
  DlqMayFail = TRUE
  MaxCrashes = 0
  MaxRebalances = 0
SYMMETRY Symmetry
INVARIANTS
  CommittedIsSettled
