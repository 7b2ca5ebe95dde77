CONSTANTS
  SimdWidth = 2
  Loads <- ManyLoads
SPECIFICATION Spec
VIEW UpToNames
INVARIANT IsValid
PROPERTY ImplementsKeyBag
