CONSTANTS
  PAGE_SIZE = 4
  KPM_NORDERS = 3
  ADDR_SPACE = 40
  MEM = 33
  SK = 4
  EK = 7
  SIZEOF_BUDDY = 0
  MMAPS <- HighMMAPS
  SIZES <- HighSIZES
  CHUNKS <- MCCHUNKS
SPECIFICATION BSpec
PROPERTY FreeReleases
