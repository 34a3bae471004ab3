\* every call from every callback
SPECIFICATION Spec
CONSTANTS
  Calls = {"standby", "receive", "single", "send", "cad", "cad-auto", "end", "begin", "poll"}
  Silence = TRUE
  MaxCalls = 3
  MaxPackets = 1
INVARIANTS
  TypeOK
  QuietAfterEnd
PROPERTIES
  NoCallbackAfterEnd
  OkMeansSent
