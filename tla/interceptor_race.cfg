\* Two controllers, free to interleave their transactions, against two threads
\* that make two calls in all, nested or side by side.
CONSTANTS
  Thread = {t1, t2}
  Controller = {k1, k2}
  Function = {f}
  Relocatable = {f}
  Listener = {l1}
  LeaveListener = {l1}
  NoListener = NoListener
  MaxContexts = 2
  MaxCalls = 2
  MaxDepth = 2
  MaxOps = 3
SPECIFICATION Spec
SYMMETRY Symmetry
INVARIANTS
  TypeOK
  UsageCounterIsExact
  StackMirrorsCalls
  CallbacksDoNotNest
  CountedCallsAreProtected
  RunningListenersAreHeld
