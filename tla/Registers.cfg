SPECIFICATION Spec
CONSTANTS
  Configs <- MCConfigs
  Frequencies = {930000}
  SpreadingFactors = {6, 11}
  Bandwidths = {2500, 10000}
  Powers = {14, 18}
  MaxFaults = 1
INVARIANTS
  TypeOK
  
  OcpBumpEnds
