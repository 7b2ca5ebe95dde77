CONSTANTS
  NumProc = 2
  Keys = {1, 2}
  MaxOps <- CallsOfTwo
  MaxGeneration = 2
SPECIFICATION Spec
INVARIANTS TypeOK GetMissesNothing ResultsAreForThisGet ReadsItsRemoves RemovesReachEveryTree NothingLeftAtStop
PROPERTY CallsReturn
\* With two trees in a row the processes may hang, see DistriTreeGenerations.
CHECK_DEADLOCK FALSE
