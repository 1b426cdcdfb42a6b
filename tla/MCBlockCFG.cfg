CONSTANTS
  Blocks = {b1, b2}
  Plain = {x, y}
  Phi = {f}
  Unreachable = {u1, u2}
  Jump = {j1, j2}
  Branch = {br}
  Switch = {sw}
  Cases = {c1}
  Null = Null
  Calls = {}
  MaxLength = 9
  MaxCount = 9
SPECIFICATION Spec
INVARIANTS WellFormedBlocks SingleOwner EdgesExact Mirror
PROPERTY SplitPreservesOrder
CONSTRAINT Populations
SYMMETRY Symmetry
CHECK_DEADLOCK FALSE
