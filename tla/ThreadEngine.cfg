CONSTANTS
  ThreadNum = 2
  Keys = {1, 2}
  Cases <- AllCases
  MaxLength = 3
SPECIFICATION Spec
INVARIANTS TypeOK TreesFollowTheCase CompareSucceeds
PROPERTIES NothingMovesDuringCompare ThreadsReturn
