\* Four changes of a table of three descriptors around two initializations and
\* a signal, one of them in the middle of each initialization; and tables of up
\* to five, initialized once and undisturbed.
CONSTANTS
  Injector = {i1, i2}
  MaxFd = 5
  MaxLateFd = 3
  MaxServerOps = 5
  MaxRaces = 1
  MaxInits = 2
  MaxSignals = 1
SPECIFICATION Spec
CONSTRAINT Bound
SYMMETRY Symmetry
CHECK_DEADLOCK FALSE
INVARIANTS
  LinksHaveTheirEnds
  AttachesAreKnown
  DetachLeavesNothing
  AttachedProgramsLive
  InitAttachesWhatItCan
