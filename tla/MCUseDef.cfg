CONSTANTS
  n1 = n1
  n2 = n2
  q = q
  p = p
  r = r
  f = f
  i1 = i1
  i2 = i2
  Leaves = {n1, n2, q, p, r, f}
  LeafType <- MCLeafType
  Insts = {i1, i2}
  Kinds <- MCKinds
  Null = Null
  Calls = {}
SPECIFICATION Spec
INVARIANTS RegisteredIsOperand OperandTyped SwapSwaps ReplaceAllReplaces
PROPERTIES RegistrationKept
CHECK_DEADLOCK FALSE
