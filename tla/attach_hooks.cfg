\* Two threads make two calls in all, nested or side by side, through the hooks
\* of two functions while these are attached and detached up to three times; a
\* third function cannot be hooked.
CONSTANTS
  Thread = {t1, t2}
  Function = {f, g, h}
  Hookable = {f, g}
  Value = {v1, v2}
  NoValue = NoValue
  MaxAttaches = 3
  MaxCalls = 2
  MaxDepth = 2
SPECIFICATION Spec
SYMMETRY Symmetry
CHECK_DEADLOCK FALSE
INVARIANTS
  TypeOK
  AttachTablesAgree
  HooksFollowEntries
  OverrideTakesEffect
  HandlersFindTheirOverride
  UprobesHaveContext
