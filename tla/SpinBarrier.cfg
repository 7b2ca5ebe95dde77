CONSTANTS
  Threads = {t1, t2, t3}
  IntMax = 3
  GenMod = 16
  MaxGeneration = 4
SPECIFICATION Spec
INVARIANTS TypeOK MutualExclusion RemainCounts
PROPERTY ImplementsRendezvous
