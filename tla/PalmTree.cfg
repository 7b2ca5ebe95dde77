CONSTANTS
  SimdWidth = 2
  Orders = {3, 5}
  Keys = {1, 2, 3, 4, 5, 6}
  MaxCopies = 1
  BatchSize = 2
SPECIFICATION Spec
INVARIANTS
  TypeOK ContentsKept Searchable Linked UniformDepth
