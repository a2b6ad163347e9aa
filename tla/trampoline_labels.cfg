\* Two trampolines after another, for twelve prologues and every reach.
CONSTANTS
  Code <- MixedCode
  SliceSize = 256
  MaxContexts = 2
SPECIFICATION Spec
INVARIANTS
  JumpsReachTheirLabels
  NearTrampolinesFit
