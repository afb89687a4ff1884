SPECIFICATION ProcessFairSpec
CONSTANTS
  out = out
  err = err
  Streams = {out, err}
  Descriptorless = {err}
  OutputCapacity = 1
  Settings <- MCSettings
INVARIANTS PipesOutliveReaders NaturalOutputComplete FailuresReported
PROPERTIES EndsAfterChunks SettledForGood EverythingEnds
CHECK_DEADLOCK FALSE
