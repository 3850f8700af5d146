\* A server whose embedding model has dimension 2 answers two questions at a time, whose clients may leave, while
\* files are re-indexed, deleted and re-indexed with another model, of dimension 1.
CONSTANTS
  fa = fa  fb = fb  a1 = a1  a2 = a2
  None = None
  File = {fa, fb}
  Dim = {1, 2}
  QueryDim = 2
  Ask = {a1, a2}
  MinChunks = 1
  MaxId = 3
  MaxBatch = 1
  MaxLoose = 1
SPECIFICATION Spec
INVARIANTS AnnTypeOK NeverMisattributed DenseLosesNothing
PROPERTIES HitIsExact
SYMMETRY Alike
