SPECIFICATION Spec
CONSTANTS
  c1 = c1
  c2 = c2
  t1 = t1
  t2 = t2
  Consumers = {c1, c2}
  Documents <- MCDocuments
  Tokens = {t1, t2}
  Log <- BatchThenOther
  Retries = 1
  NoOne = NoOne
  NoToken = NoToken
  DlqMayFail = TRUE
  MaxCrashes = 1
  MaxRebalances = 1
SYMMETRY Symmetry
INVARIANTS
  TypeOK
  CommittedIsHandled
  RowsInOrder
  DocumentsSerialised
  LastChangeWins
PROPERTIES
  LeaseNotStolen
  ImplementsAtLeastOnce
