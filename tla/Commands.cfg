SPECIFICATION CommandsSpec
CONSTANTS
  Builds = {u1, u2}
  b1 = b1
  b2 = b2
  Blobs = {b1, b2}
  Selections <- MCSelections
  MaxGen = 3
  NoManifest = NoManifest
  NoBuild = NoBuild
  Doctors = {u1, u2}
  FirstCompanions <- FirstLines
  Texts = {"none", "host-access", "cache", "old", "slirp", "lan", "host-gateway", "bridge"}
  MaxDoctors = 2
  Launchers = {u1, u2}
  OtherNames <- Others
  Spellings <- Spelt
  MaxLaunches = 2
  Containers = {u1, u2}
  Packages <- TwoPackages
  Versions = {"v1", "v2"}
  MaxContainers = 2
  Prereleases <- SamplePrereleases
  MaxPart = 1
  MaxClauses = 3
  Releases = {1, 2, 3}
  Betas = {3}
  Marks = {{2}, {3}}
  Filters = {"node", "rust", "rustup", "python", "fd", "npm", "omz"}
  MaxSelected = 2
  MaxChecks = 1
SYMMETRY Symmetry
INVARIANTS
  MutualExclusion
  CommittedComplete
  WorkStartsRecovered
  CommandsSound
  VersioningSound
CHECK_DEADLOCK FALSE
