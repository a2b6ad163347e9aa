\* Two controllers, two contexts far from each other, batches of three slices.
CONSTANTS
  c1 = c1
  c2 = c2
  p1 = p1
  p2 = p2
  Controller = {k1, k2}
  Context = {c1, c2}
  Place = {p1, p2}
  PlaceOf <- FarApart
  SlicesPerBatch = 3
  MaxBatches = 3
  MaxAllocs = 3
SPECIFICATION Spec
SYMMETRY Symmetry
INVARIANTS
  FreeListIsExact
  SlicesAreNotShared
  CommitCoversNewCode
PROPERTIES MapsOnlyWhenNeeded
