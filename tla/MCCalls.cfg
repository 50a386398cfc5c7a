CONSTANTS
  ULONG_MAX = 63
  ULLONG_MAX = 127
  INT_BITS = 6
  BUFSIZE = 11
  PARSES <- MCPARSES
  PRINTS <- MCPRINTS
  COMMANDS <- MCCOMMANDS
  COLORS <- MCCOLORS
  MEMORY <- MCMEMORY
  BITMAPS <- MCBITMAPS
  NBYTES_LINE = 4
  CELLS = 5
  CHARS = {1, 2}
  STRFNS <- AllFns
SPECIFICATION CSpec
INVARIANTS NumbersParsed PrintsPrefix PrintedReadsBack StringsAgree DumpsWhatWasAsked
