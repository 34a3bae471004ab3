SPECIFICATION FairSpec
CONSTANTS
  MaxMarkers = 2
  Polling = TRUE
  SilenceTimeout = 0
  SendTimeouts = {1}
  Calls = {"send", "rxcont", "rxsingle", "cad", "sleep", "standby", "end"}
  CrcErrors = TRUE
  Prompt = TRUE
  MaxFaults = 1
INVARIANTS
  NoOrphanTx
  FsmAgrees
PROPERTIES
  OkMeansSent
  RxSingleEnds
  SendComesBack
