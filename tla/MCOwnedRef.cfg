SPECIFICATION OwnedSpec
CONSTANTS
  Vars = {p, q, r}
  Objects = {o1, o2, o3}
  Inline = {o3}
  Null = null
  Misuses = {}
SYMMETRY Symmetry
INVARIANTS CountExact HandlesLive NothingFreedIsRead NothingLeftOver
