SPECIFICATION LifeSpec
CONSTANTS
  Size = 4
  Polling = TRUE
  CounterModulus = 3
INVARIANTS
  NoLostWakeup
