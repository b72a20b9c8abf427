SPECIFICATION Spec
CONSTANTS
  f1 = f1
  f2 = f2
  Files = {f1, f2}
  SourceOf <- OneName
  Canal = Canal
  NoEvent = NoEvent
  Configurations <- DatabaseAlone
  MaxRetries <- Retries
  MaxDeletes = 1
  MaxMishaps = 0
PROPERTIES
  EventsKeepTheirOrder
CHECK_DEADLOCK FALSE
