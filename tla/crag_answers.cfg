SPECIFICATION Spec
CONSTANTS
  Chunks <- Index
  Passage <- PassageOf
  Excerpt <- Beginnings
  OverviewScore <- Openings
  TopK = 2
  CandidateK = 3
  Nothing = Nothing
  MaxCalls = 3
INVARIANTS
  CitesItsEvidence
  FlagsWebFallback
  RanksAsBothSearches
  FusedScoresDoNotConvince
