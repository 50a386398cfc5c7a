CONSTANTS
  PAGE_SIZE = 4
  KPM_NORDERS = 4
  ADDR_SPACE = 128
  MEM = 70
  SK = 16
  EK = 19
  SIZEOF_BUDDY = 1
  MMAPS <- MCMMAPS
  SIZES <- MCSIZES
  CHUNKS <- MCCHUNKS
SPECIFICATION Spec
INVARIANTS OrdersAgree FreeFramesEnabled ReservedNeverAvailable EnabledMatchesMap
PROPERTIES AllocTakesBestBlock OnlyStraysEscape
CHECK_DEADLOCK FALSE
