SPECIFICATION AloneFairSpec
CONSTANTS
  Builds = {u1}
  b1 = b1
  b2 = b2
  Blobs = {b1, b2}
  Selections <- MCSelections
  MaxGen = 2
  NoManifest = NoManifest
  NoBuild = NoBuild
PROPERTIES
  LockIsReleased
  RecoveryCompletes
