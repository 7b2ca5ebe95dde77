CONSTANTS
  SimdWidth = 2
  Threads = {t1, t2}
  Loads <- MixedLoads
SPECIFICATION Spec
SYMMETRY Symmetry
VIEW UpToNames
INVARIANT AnswersFit
