\* loop() and the pump on one core or on two
SPECIFICATION FairSpec
CONSTANTS
  Size = 2
  Setups = {"shared", "apart"}
  MaxPackets = 1
  MaxSends = 1
  MaxApart = 1
  MaxAsyncs = 1
INVARIANTS
  TypeOK
  NoDeafLine
  NoOrphanTx
  AirCarriesPayload
PROPERTY
  SendComesBack
