CONSTANT Programs <- MCParameters
SPECIFICATION Spec
INVARIANT FoldsConstantsOnly
CHECK_DEADLOCK FALSE
