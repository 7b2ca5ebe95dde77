CONSTANTS
  SimdWidth = 2
  Orders = {3}
  Keys = {1,2,3,4,5}
  MaxCopies = 1
  BatchSize = 2
SPECIFICATION Spec
PROPERTY ClearedOnlyWhenEmpty
