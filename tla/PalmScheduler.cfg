CONSTANTS
  NumWorker = 2
  BatchSize = 2
  QueueSize = 1
  MaxRequests = 2
  Keys = {k1, k2}
  LeafOf <- MCLeafOf
  Parent <- MCParent
  Level <- MCLevel
  RootPtr = RootPtr
  Null = Null
  NOP = NOP
  UPDATE = UPDATE
  k1 = k1
  k2 = k2
  leaf1 = leaf1
  leaf2 = leaf2
  inner1 = inner1
  inner2 = inner2
  root = root
SPECIFICATION Spec
INVARIANTS TypeOK StageAgreement ExecutedOnceInOrder NoUpdateLeftBehind RootIsForBackground OneLevelAtATime BackgroundDeletesSafely NoWorkerLeftBehind
PROPERTY EventuallyApplied
