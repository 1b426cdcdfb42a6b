CONSTANT Functions <- MCFunctions
SPECIFICATION PassSpec
INVARIANTS LoadsAgree Verifies
PROPERTY Returns
CHECK_DEADLOCK FALSE
