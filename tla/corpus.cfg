SPECIFICATION Spec
CONSTANTS
  d1 = d1
  d2 = d2
  e1 = e1
  e2 = e2
  Docs = {d1, d2}
  Terms = {1, 2, 3}
  Texts <- SomeTexts
  Batches <- SomeBatches
  MaxDims = 2
  Embedders = {e1, e2}
  MaxIndexes = 3
  MaxEmbeds = 3
SYMMETRY Alike
INVARIANTS
  CountsMatchCorpus
  VectorsOfOneCorpus
CHECK_DEADLOCK FALSE
