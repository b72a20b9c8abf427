SPECIFICATION Spec
CONSTANTS
  p1 = p1
  ann = ann
  Pages = {p1}
  Users = {ann}
  Guest = Guest
  Nothing = Nothing
  Configurations <- Deployments
  HistoryLimit = 1
  MaxTurns = 2
  MaxSessions = 2
  MaxMishaps = 1
INVARIANTS
  ListedIsSaved
  CountIsHistory
  SavedUnderAsker
  HistoryStaysInSession
PROPERTIES
  EveryQuestionEnds
CHECK_DEADLOCK FALSE
