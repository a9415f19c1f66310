CONSTANTS
  Managed <- MCManaged
  Worlds <- MCWorlds
  NameOf <- MCNameOf
  Commit <- MCCommit
  Manifest <- MCManifest
  Bodies <- MCBodies
  Serve <- MCServe
  Json <- MCJson
  Depth <- MCDepth
  MaxDepth = 8
  Edits <- MCEdits
  Statuses <- MCStatuses
  Mishaps <- MCMishaps
SPECIFICATION FairSpec
INVARIANTS SummaryInv HealthySound InSyncSound
PROPERTIES NoFalseAlarm SettlesHealthy ProbeNotices
