SPECIFICATION HandlerSpec
CONSTANTS
  Chosen = {"ok", "moved_permanently", "bad_request"}
  Entry <- Entries
  Host <- Hosts
  Uri <- Uris
  MaxHeaders = 2
CHECK_DEADLOCK FALSE
INVARIANTS
  MissingHostIsBad
  HeadersAreFilled
  Framed
