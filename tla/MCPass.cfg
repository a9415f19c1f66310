SPECIFICATION FairSpec
CONSTANTS
  web = web
  conf = conf
  bare = bare
  spelled = spelled
  Deployment = Deployment
  ConfigMap = ConfigMap
  c1 = c1
  c2 = c2
  c3 = c3
  c4 = c4
  NoSpec = NoSpec
  Foreign = Foreign
  NoSha = NoSha
  Key <- MCKey
  GvkOf <- MCGvkOf
  Object <- MCKey
  ObjectOf <- MCObjectOf
  Listed <- MCKey
  Commit <- MCCommit
  Manifests <- MCManifests
  Broken <- MCBroken
  NoDirs <- MCNoDirs
  Weather <- MCWeather
  Editable <- MCEditable
INVARIANT SyncInv
PROPERTIES KeepNeverPruned DeclaredNeverPruned CleanMeansSynced Converges
           OrphansPruned
