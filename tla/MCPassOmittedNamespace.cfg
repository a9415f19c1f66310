SPECIFICATION Spec
CONSTANTS
  web = web
  conf = conf
  bare = bare
  spelled = spelled
  Deployment = Deployment
  ConfigMap = ConfigMap
  c1 = c1
  c2 = c2
  c3 = c3
  c4 = c4
  NoSpec = NoSpec
  Foreign = Foreign
  NoSha = NoSha
  Key <- NsKey
  GvkOf <- NsGvkOf
  Object <- NsObject
  ObjectOf <- NsObjectOf
  Listed <- NsListed
  Commit <- MCCommit
  Manifests <- NsManifests
  Broken <- MCBroken
  NoDirs <- MCNoDirs
  Weather <- Calm
  Editable = {}
PROPERTY DeclaredNeverPruned
