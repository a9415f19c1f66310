SPECIFICATION FairSpec
CONSTANTS
  migrate = migrate
  settings = settings
  notify = notify
  Hook <- ThreeHooks
  Types <- ThreeTypes
  Listed <- ThreeListed
  Weight <- ThreeWeight
  Name <- ThreeName
  Waitable <- ThreeWaitable
  Timeout = 2
  Faults = {"call", "delete", "crash", "user", "linger"}
INVARIANTS HookInv InOrder
PROPERTIES WorkAwaitsHooks FreshOrLeft PassEnds
