\* A flushing client with two listeners that may detach and attach again inside
\* one transaction; function g cannot be instrumented.
CONSTANTS
  Thread = {t1}
  Controller = {k1}
  Function = {f, g}
  Relocatable = {f}
  Listener = {l1, l2}
  LeaveListener = {l1}
  NoListener = NoListener
  MaxContexts = 3
  MaxCalls = 1
  MaxDepth = 1
  MaxOps = 4
SPECIFICATION FlushingSpec
INVARIANTS
  ClientsViewHolds
  PatchedFunctionsLeadToLiveTrampolines
  SavedPrologueIsOriginal
PROPERTIES DetachedContextsAreFreed
