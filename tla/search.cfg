SPECIFICATION Spec
CONSTANTS
  Letters <- MCLetters
  Absent = Absent
  Concepts <- FourConcepts
  Texts <- Scopes
  TopKs = {Absent, 0, 1, 3}
  MinScores = {0, 1}
  MaxScore = 2
  Oversample = 2
  DefaultTopK = 2
  RagDefault = 1
  RagMax = 2
INVARIANTS
  AnswersAreWanted
  NoneNearerLeftOut
  FullWhenItFits
  SourceLeadsBack
CHECK_DEADLOCK FALSE
