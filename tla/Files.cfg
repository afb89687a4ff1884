SPECIFICATION FilesSpec
CONSTANTS
  a = a
  b = b
  p1 = p1
  p2 = p2
  Lockers = {a, b}
  Superusers = {a}
  FailFast = {b}
  FirstFiles <- FirstLockFiles
  MaxInode = 2
  Writers = {p1, p2}
  Contracts <- AllContracts
  MaxInodes = 2
  MaxHistory = 3
  Descriptors = {1, 2, 3}
  MaxDepth = 3
  Launches = {p1, p2}
  Commands = {p1, p2}
  Assemblies = {p1, p2}
  Outputs = {o1, o2}
  MaxTampering = 1
  TreeCommands = {p1, p2}
  Projects = {"one", "two"}
  Descendants <- PreparedBeneath
  Children <- NamespaceChildren
  TTL = 1
  MaxResponses = 2
  MaxClock = 2
SYMMETRY FilesSymmetry
INVARIANTS
  HoldersExclude
  RegularSound
  DescriptorsAccounted
  CachesSound
  EnvironmentSound
  TreeSound
CHECK_DEADLOCK FALSE
