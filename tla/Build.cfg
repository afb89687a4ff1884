SPECIFICATION BuildSpec
CONSTANTS
  b1 = b1
  b2 = b2
  Builds = {u1}
  Blobs = {b1, b2}
  Selections <- MCSelections
  MaxGen = 3
  NoManifest = NoManifest
  NoBuild = NoBuild
  Tags = {"stdout", "stderr"}
  QueueCapacity = 1
  MaxChunks = 1
  Bytes <- SampleBytes
  MaxStream = 4
  Characters = {"m", ";", "[", "]", "BSL", "ESC", "BEL", "DCS", "NL"}
  ControlLimit = 3
  LineLimit = 4
  MaxFed = 4
  Letters = {"a", "b"}
  MaxSecret = 3
  MaxSecrets = 2
  MaxText = 5
  Schemes <- UrlSchemes
  Layers = 3
  Escapes <- DigitPairs
  PendingLimit = 16
  Displays = {"redacted", "host-path", "exact"}
  Streams <- UrlStreams
  TailLimit = 4
  NodesAt <- LockNodes
  PathTokens = {"node_modules", "@scope", "x", "", "UPPER"}
  MaxTokens = 4
SYMMETRY BlobSymmetry
INVARIANTS
  GenerationsUnambiguous
  RecoveryNotBlockedBySnapshot
  ResultHonest
  OutputAccounted
  TextSound
  NpmSound
PROPERTIES
  TrackedStaysTracked
  ImplementsCommittedSet
  CollectionSound
CHECK_DEADLOCK FALSE
