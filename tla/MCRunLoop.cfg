SPECIFICATION FairSpec
CONSTANTS
  Mode = "trigger"
  Poll = 3
  Base = 4
  Cap = 14
  Width = 3
  MaxFailures = 5
INVARIANTS LoopInv
PROPERTIES EditWakes StopEnds
CHECK_DEADLOCK FALSE
