CONSTANT
  CLOCKS <- NoonCLOCKS
SPECIFICATION RSpec
INVARIANT HourConverted
