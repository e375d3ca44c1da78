SPECIFICATION StaticSpec
CONSTANTS
  Block = {b1, b2}
  MaxBlocks = 2
  MaxChanges = 2
CHECK_DEADLOCK FALSE
INVARIANTS
  QuietReply
  LengthIsTrue
  WholeVersion
PROPERTIES
  RequestEnds
