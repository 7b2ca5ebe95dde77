CONSTANTS
  NumProc = 2
  Keys = {1}
  MaxOps <- NoCalls
  MaxGeneration = 2
SPECIFICATION Spec
INVARIANT TerminatesOnAllStops
\* The processes may hang before the invariant fails.
CHECK_DEADLOCK FALSE
