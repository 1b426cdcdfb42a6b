SPECIFICATION Spec
CONSTANTS
  Mutables = {m1, m2, m3, m4, m5}
  RegTypes = {int, float}
  MaxEntry = 4
  Words = 8
  Calls = {}
SYMMETRY Symmetry
INVARIANTS StacksPartition HeldStaysAllocated
PROPERTIES HandsOutUnused DisabledOnlyIfUnheld
CHECK_DEADLOCK FALSE
