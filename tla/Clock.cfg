\* one start of the clock far from its wrap, one shortly before it
SPECIFICATION Spec
CONSTANTS
  W = 32
  Boots = {0, 27}
  Timeout = 2
  Silence = 3
  Latency = 2
  MaxTime = 20
INVARIANTS
  TypeOK
  NotLate
  NoStorm
PROPERTY
  NotEarly
