CONSTANTS
  VGA_WIDTH = 2
  VGA_HEIGHT = 2
  SB_HEIGHT = 4
  NBSCREENBUF = 1
  NSH_BUFSIZE = 4
  CHARS = {"x"}
  BLANK = "blank"
SPECIFICATION SSpec
INVARIANT DisplayAlwaysMirrors
