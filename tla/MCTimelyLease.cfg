SPECIFICATION TimelySpec
CONSTANTS
  ctl = ctl
  job = job
  late = late
  Proc <- MCProc
  Punctual <- MCProc
  Controllers <- MCControllers
  Duration <- MCDuration
  Skew <- MCSkew
  WaitTimeout = 2
  MaxClock = 5
INVARIANTS TimelyInv MutualExclusion
PROPERTY ImplementsPassLock
