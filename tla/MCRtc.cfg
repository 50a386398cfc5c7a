CONSTANT
  CLOCKS <- MCCLOCKS
SPECIFICATION RSpec
INVARIANTS ReturnsTimeOfCall TimestampCounts
PROPERTY ReadReturns
