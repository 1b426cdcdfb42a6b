CONSTANTS
  Blocks = {b1, b2}
  Plain = {x, y}
  Phi = {}
  Unreachable = {u1}
  Jump = {}
  Branch = {br}
  Switch = {sw}
  Cases = {c1}
  Null = Null
  Calls = {"switch_replace", "edit_detached", "clean_static", "switch_remove_if", "replace_plain", "unplug_ending"}
  MaxLength = 2
  MaxCount = 1
SPECIFICATION Spec
INVARIANTS TypeOK SuccessorsCovered
CONSTRAINTS ShortBlocks SmallCounts OneEdited
SYMMETRY Symmetry
CHECK_DEADLOCK FALSE
