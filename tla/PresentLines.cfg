SPECIFICATION StallingSpec
CONSTANTS
  t1 = t1
  t2 = t2
  fetch = fetch
  stdout = stdout
  Streams = {stdout}
  Texts = {t1, t2}
  FetchTexts = {}
  TemplateOf <- OneTemplate
  Mode = "lines"
  Exact = FALSE
  TelemetryCapacity = 1
  ControlCapacity = 1
  OmissionLimit = 1
  MaxLines = 2
  MaxParts = 1
  MaxControls = 1
  MaxStatus = 0
INVARIANTS DurableInOrder OmissionsReported OccurrencesAccounted NothingPendingAfterClose QueueOrdered
PROPERTY ShutdownReturns
CHECK_DEADLOCK FALSE
