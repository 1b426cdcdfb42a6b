CONSTANTS
  Functions = {f, g}
  Blocks = {a, b, c}
  Globals = {v}
  Names = {m, n}
  Null = Null
  Stale = Stale
  Calls = {}
SPECIFICATION Spec
INVARIANTS WellFormedBodies NothingFreedIsTouched OneDefinition
SYMMETRY Symmetry
CHECK_DEADLOCK FALSE
