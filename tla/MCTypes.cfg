CONSTANTS
  Widths = {33}
  Lengths = {0, 3}
  MaxParams = 1
  Basic <- MCBasic
  Word = 4
  GlobalWord = 8
  HashSize = 65536
  MaxObjects = 12
SPECIFICATION ContextSpec
INVARIANTS Interned ElementsApart
CHECK_DEADLOCK FALSE
