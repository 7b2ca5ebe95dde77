CONSTANTS
  SimdWidth = 2
  Threads = {t1, t2, t3}
  Loads <- TameLoads
SPECIFICATION Spec
SYMMETRY Symmetry
VIEW UpToNames
INVARIANTS TypeOK ContentsKept AnswersFit ValidAtRest SomebodyRuns
PROPERTY InsertsStayLatched
