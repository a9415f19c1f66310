SPECIFICATION FairSpec
CONSTANTS
  ctl = ctl
  job = job
  Proc <- MCProc
  Controllers <- MCControllers
  Duration <- MCUnitDuration
  Skew <- MCSkew
  WaitTimeout = 1
  MaxClock = 2
INVARIANT LeaseInv
PROPERTIES StealOnlyStale StaleReclaimed ShutdownTerminates
