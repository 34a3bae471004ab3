SPECIFICATION Spec
CONSTANTS
  MaxMarkers = 2
  Polling = TRUE
  SilenceTimeout = 0
  SendTimeouts = {1}
  Calls = {"send"}
  CrcErrors = TRUE
  Prompt = TRUE
  MaxFaults = 0
PROPERTIES
  WatchdogIsReported
