SPECIFICATION Spec
CONSTANTS
  f1 = f1
  f2 = f2
  Files = {f1, f2}
  SourceOf <- OneName
  Canal = Canal
  NoEvent = NoEvent
  Configurations <- Settings
  MaxRetries <- Retries
  MaxDeletes = 1
  MaxMishaps = 1
INVARIANTS
  UploadsSerialised
  AppendedOnce
  OutcomeOnRecord
  NoOrphans
  UploadsSurvive
SYMMETRY Symmetry
CHECK_DEADLOCK FALSE
