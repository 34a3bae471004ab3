\* one core, callbacks that return at once, send_async() unused
SPECIFICATION Spec
CONSTANTS
  Size = 2
  Setups = {"shared"}
  MaxPackets = 1
  MaxSends = 1
  MaxApart = 1
  MaxAsyncs = 0
PROPERTY
  OkMeansSent
