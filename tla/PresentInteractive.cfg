SPECIFICATION FairSpec
CONSTANTS
  t1 = t1
  t2 = t2
  fetch = fetch
  stdout = stdout
  Streams = {stdout}
  Texts = {t1, t2, fetch}
  FetchTexts = {fetch}
  TemplateOf <- OneTemplate
  Mode = "interactive"
  Exact = FALSE
  TelemetryCapacity = 2
  ControlCapacity = 1
  OmissionLimit = 1
  MaxLines = 2
  MaxParts = 0
  MaxControls = 1
  MaxStatus = 1
PROPERTY WorkerEnds
CHECK_DEADLOCK FALSE
