CONSTANTS
  Lists = {l1, l2}
  Elems = {e1, e2, e3}
  Cells = {c1, c2, c3}
  Null = Null
  MaxLength = 4
SPECIFICATION Spec
INVARIANTS DoublyLinked LengthCovers
PROPERTY ImplementsSequence
CONSTRAINT BoundedLength
SYMMETRY Symmetry
