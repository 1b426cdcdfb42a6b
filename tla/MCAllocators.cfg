CONSTANTS
  NodeNum = 5
  color_num = 3
  Lives <- MCLives
  Reg_num = 2
  Lists <- MCLists
  Intervals <- MCIntervals
  MaxVars = 4
  MaxTime = 3
SPECIFICATION MCSpec
INVARIANTS AllocationProper SpilledIsCrowded OverlapsApart
PROPERTY AllocatorsEnd
CHECK_DEADLOCK FALSE
