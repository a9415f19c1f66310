SPECIFICATION Spec
CONSTANTS
  migrate = migrate
  settings = settings
  notify = notify
  Hook <- ThreeHooks
  Types <- ThreeTypes
  Listed <- ThreeListed
  Weight <- ThreeWeight
  Name <- ThreeName
  Waitable <- ThreeWaitable
  Timeout = 2
  Faults = {"linger"}
PROPERTY RunsFresh
