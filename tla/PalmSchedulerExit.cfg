CONSTANTS
  NumWorker = 2
  BatchSize = 1
  QueueSize = 1
  MaxRequests = 1
  Keys = {k1}
  LeafOf <- MCSmallLeafOf
  Parent <- MCSmallParent
  Level <- MCSmallLevel
  RootPtr = RootPtr
  Null = Null
  NOP = NOP
  UPDATE = UPDATE
  k1 = k1
  k2 = k2
  leaf1 = leaf1
  leaf2 = leaf2
  inner1 = inner1
  inner2 = inner2
  root = root
SPECIFICATION Spec
PROPERTY ExitsAfterCurrentBatch
