SPECIFICATION ClientSpec
CONSTANTS
  Char <- Chars
  IntMax = 64
  AfterOverflow <- Wrapped
  BufferSize = 2
  Resources <- RestResources
  UserHandler <- UserHandlers
  Directories <- Folders
  Files <- Documents
  Requests <- AllRequests
  MaxHeaders = 0
  MaxValue = 1
  Simple = TRUE
CHECK_DEADLOCK FALSE
INVARIANTS
  SimpleRequestAccepted
