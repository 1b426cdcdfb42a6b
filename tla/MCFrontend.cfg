CONSTANT Programs <- MCAll
SPECIFICATION Spec
INVARIANTS Lexical RegisteredComplete AcceptsWhatRegistered Folded
PROPERTY Halts
CHECK_DEADLOCK FALSE
