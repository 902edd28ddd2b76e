CONSTANTS
  w1 = w1
  w2 = w2
  v1 = v1
  v2 = v2
  s1 = s1
  s2 = s2
  None = None
  Blank = Blank
  Worker = {w1, w2}
  Type <- MCType
  Value = {v1, v2}
  Spelling = {s1, s2}
  Catalogues <- MCCatalogues
  Batches <- MCBatches
  MaxRetries = 5
  MaxBatches = 2
  Requests <- MCRequests
  Bodies <- MCBodies
  Limit = 50
SPECIFICATION DirectSpec
INVARIANT OwnDocumentFound
CHECK_DEADLOCK FALSE
