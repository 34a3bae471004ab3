\* interrupts or polling; short packets and long ones, a send between, a failing transfer
SPECIFICATION FairSpec
CONSTANTS
  Fifo = 4
  RxLens = {0, 1, 3}
  TxLens = {1, 2}
  MaxPackets = 2
  MaxSends = 1
  MaxMarkers = 2
  MaxFaults = 1
  Modes = {TRUE, FALSE}
  Prompt = TRUE
INVARIANTS
  TypeOK
  Whole
  Once
PROPERTY
  AllDelivered
