SPECIFICATION LiveClientSpec
CONSTANTS
  Char <- Chars
  IntMax = 64
  AfterOverflow <- Wrapped
  BufferSize = 2
  Resources <- RestResources
  UserHandler <- UserHandlers
  Directories <- Folders
  Files <- Documents
  Requests <- AllRequests
  MaxHeaders = 2
  MaxValue = 2
  Simple = FALSE
CHECK_DEADLOCK FALSE
INVARIANTS
  ReplyIsExpected
  WellFormedAccepted
PROPERTIES
  WellFormedAnswered
  ImplementsHandlers
