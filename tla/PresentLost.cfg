SPECIFICATION Spec
CONSTANTS
  t1 = t1
  t2 = t2
  fetch = fetch
  stdout = stdout
  Streams = {stdout}
  Texts = {t1, t2}
  FetchTexts = {}
  TemplateOf <- OneTemplate
  Mode = "lines"
  Exact = FALSE
  TelemetryCapacity = 1
  ControlCapacity = 1
  OmissionLimit = 1
  MaxLines = 1
  MaxParts = 0
  MaxControls = 1
  MaxStatus = 0
INVARIANT AcceptedEventsDrain
CHECK_DEADLOCK FALSE
