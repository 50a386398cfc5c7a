CONSTANTS
  CELLS = 3
  CHARS = {1, 2}
  STRFNS = {"strncmp"}
SPECIFICATION StrSpec
INVARIANT StrncmpAsTested
