SPECIFICATION Spec
CONSTANTS
  s1 = s1
  s2 = s2
  Slots = {s1, s2}
  Messages <- Said
  LlmAnswers <- Guesses
  ManualKeys = {"preference.general"}
  Nothing = Nothing
  MaxRows = 3
  MaxRequests = 4
INVARIANTS
  RecallsLastStatement
PROPERTIES
  DeletionIsFinal
CHECK_DEADLOCK FALSE
SYMMETRY Symmetry
