SPECIFICATION FairSpec
CONSTANTS
  Size = 16
  Polling = FALSE
  CounterModulus = 3
INVARIANTS
  TypeOK
PROPERTIES
  PublishIsOneSlot
  EveryInterruptIsAnswered
  ImplementsMailbox
