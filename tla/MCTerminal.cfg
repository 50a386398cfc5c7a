CONSTANTS
  VGA_WIDTH = 2
  VGA_HEIGHT = 2
  SB_HEIGHT = 4
  NBSCREENBUF = 2
  NSH_BUFSIZE = 4
  CHARS = {"x"}
  BLANK = "blank"
  KEYS <- MCKEYS
  MAXKEYS = 4
  QUEUE = 4
  MAXLOST = 1
SPECIFICATION MCSpec
CONSTRAINT SecondScreenShort
INVARIANTS
  STypeOK DisplayMirrorsBuffer ViewWithinHistory
  EventsFollowKeys ModifiersFollowKeys CharactersAsTyped
PROPERTY KeepsLastLines
CHECK_DEADLOCK FALSE
