\* A slice that could not be allocated near the function, and a prologue whose
\* translation is much longer than itself.
CONSTANTS
  Code <- DenseCode
  SliceSize = 256
  MaxContexts = 1
SPECIFICATION Spec
INVARIANTS TrampolinesFit
