CONSTANTS
  LINES = {0, 1, 4}
  MAXRAISES = 4
  CPUS = {c1, c2, c3}
  MAXUPDATES = 4
  PAGE_SIZE = 4
  KPM_NORDERS = 3
  ADDR_SPACE = 64
  MEM = 33
  SK = 4
  EK = 7
  SIZEOF_BUDDY = 0
  MMAPS <- MCMMAPS
  SIZES <- MCSIZES
  CHUNKS <- MCCHUNKS
SPECIFICATION MCSpec
INVARIANTS
  MainResumesIntact NestsOutsideWindow VectorsInstalled
  MutualExclusion NoUpdateLost
  EveryFrameAccounted LoopDelivers
PROPERTIES
  RaisedServed SomeoneGetsIn
  LoopTerminates ClientInBounds LoopFailsWhenExhausted ImplementsFrameAllocator
CHECK_DEADLOCK FALSE
