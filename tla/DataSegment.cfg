SPECIFICATION Spec
CONSTANTS
  Radix = 4
  Sentinel = 6
  Values = {1, 7}
  DataSize = 16
  Beyond = 6
  ArgCounts = {1, 2}
  MaxValues = 5
  MaxRuns = 2
  Envs = {{"jit_segv", "no_hit"}, {"early_read"}}
CHECK_DEADLOCK FALSE
INVARIANTS
  TypeOK
  DecodedIsStored
  DecodedOrReported
  WritesInSegment
