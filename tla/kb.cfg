SPECIFICATION Spec
CONSTANTS
  api = api
  grpc = grpc
  worker = worker
  a1 = a1
  g1 = g1
  g2 = g2
  w1 = w1
  f1 = f1
  f2 = f2
  f3 = f3
  Processes = {api, grpc, worker}
  Threads = {a1, g1, g2, w1}
  Home <- HomeOf
  Operations <- Offered
  Files = {f1, f2, f3}
  SourceOf <- Names
  DisplayOf <- Displayed
  Listed = {f1, f2, f3}
  Deployments <- Deployed
  Nobody = Nobody
  Torn = Torn
  MaxBlocks = 1
INVARIANTS
  IngestIsIdempotent
  SearchAligned
  AcknowledgedIsDurable
  DeletedStaysDeleted
PROPERTIES
  RebuildMatchesUploads
CHECK_DEADLOCK FALSE
