SPECIFICATION Spec
CONSTANTS
  Keys = {k1, k2, k3, k4, k5}
  Values = {v1}
  Requested <- MCRequested
  EvictFraction = 2
  NoTtl = NoTtl
  Absent = Absent
  MaxClock = 7
  MaxTime = 2
SYMMETRY KeySymmetry
INVARIANTS TypeOK Bounded DistinctAges EvictionAlwaysPossible
PROPERTIES EvictsOldestBatch ImplementsRecencyList
