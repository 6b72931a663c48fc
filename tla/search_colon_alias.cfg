SPECIFICATION Spec
CONSTANTS
  Letters <- MCLetters
  Concepts <- ColonConcepts
  Texts <- ColonScopes
  TopKs = {Absent, 0, 1, 3}
  MinScores = {0, 1}
  Absent = Absent
  MaxScore = 1
  Oversample = 2
  DefaultTopK = 2
  RagDefault = 1
  RagMax = 2
INVARIANTS
  SourceLeadsBack
CHECK_DEADLOCK FALSE
