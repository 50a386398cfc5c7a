CONSTANTS
  PAGE_SIZE = 4
  KPM_NORDERS = 4
  ADDR_SPACE = 128
  MEM = 70
  SK = 16
  EK = 19
  SIZEOF_BUDDY = 1
  MMAPS <- PlainMMAPS
  SIZES <- MCSIZES
  CHUNKS <- MCCHUNKS
SPECIFICATION Spec
INVARIANT PageTablesKept
CHECK_DEADLOCK FALSE
