SPECIFICATION HandlerSpec
CONSTANTS
  Chosen = {"moved_permanently"}
  Entry <- Entries
  Host <- Hosts
  Uri <- Uris
  MaxHeaders = 1
CHECK_DEADLOCK FALSE
INVARIANTS
  HeadHasNoBody
