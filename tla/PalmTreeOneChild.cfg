CONSTANTS
  SimdWidth = 2
  Orders = {3}
  Keys = {1, 2, 3, 4, 5, 6, 7, 8}
  MaxCopies = 1
  BatchSize = 2
SPECIFICATION ScriptSpec
CHECK_DEADLOCK FALSE
INVARIANT TwoChildren
