SPECIFICATION Spec
CONSTANTS
  t1 = t1
  t2 = t2
  fetch = fetch
  stdout = stdout
  Streams = {stdout}
  Texts = {t1}
  FetchTexts = {}
  TemplateOf <- OneTemplate
  Mode = "lines"
  Exact = FALSE
  TelemetryCapacity = 2
  ControlCapacity = 1
  OmissionLimit = 1
  MaxLines = 2
  MaxParts = 2
  MaxControls = 0
  MaxStatus = 1
INVARIANT LinesInOrder
CHECK_DEADLOCK FALSE
