\* A call is in the sampling guard while its hook is detached.
CONSTANTS
  Thread = {t1}
  Controller = {k1}
  Function = {f}
  Relocatable = {f}
  Listener = {l1}
  LeaveListener = {l1}
  NoListener = NoListener
  MaxContexts = 1
  MaxCalls = 1
  MaxDepth = 1
  MaxOps = 2
SPECIFICATION Spec
INVARIANTS NoThreadInFreedTrampoline
