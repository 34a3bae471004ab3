SPECIFICATION Spec
CONSTANTS
  MaxMarkers = 2
  Polling = FALSE
  SilenceTimeout = 1
  SendTimeouts = {1}
  Calls = {"send", "rxcont", "rxsingle", "cad", "sleep", "standby", "end"}
  CrcErrors = TRUE
  Prompt = FALSE
  MaxFaults = 1
INVARIANTS
  TypeOK
  NoDeafLine
  SilenceArmed
