\* One thread, dispatches and override handlers nested two deep, while three
\* programs are attached and detached.
CONSTANTS
  Thread = {t1}
  Sys = {s1}
  Value = {v1, v2}
  Kernel = Kernel
  NoValue = NoValue
  MaxAttaches = 3
  MaxCalls = 3
  MaxDepth = 2
SPECIFICATION Spec
SYMMETRY Symmetry
CHECK_DEADLOCK FALSE
INVARIANTS
  CallbackSetsMatchEntries
  CallbackOutlivesNoDispatch
  DispatchDoesWhatProgramsAsk
  OnlyNestedDispatchesMakeOverridesThrow
