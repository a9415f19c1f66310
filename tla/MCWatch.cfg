SPECIFICATION FairSpec
CONSTANTS
  web = web
  api = api
  Deployment = Deployment
  v1 = v1
  big = big
  Gone = Gone
  Kind = {Deployment}
  Object <- PairObject
  KindOf <- PairKindOf
  Body = {v1, big}
  Heavy = {big}
  Declared <- PairDeclared
  Faults = {"list", "expire"}
  MaxLog = 4
INVARIANTS StoreInv CheckInv
PROPERTIES ImplementsMirror CatchesUp
