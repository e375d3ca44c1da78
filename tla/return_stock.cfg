SPECIFICATION HandlerSpec
CONSTANTS
  Chosen = {"not_found", "gateway_timeout", "http_version_not_supported"}
  Entry <- Entries
  Host <- Hosts
  Uri <- Uris
  MaxHeaders = 1
CHECK_DEADLOCK FALSE
INVARIANTS
  StockBodyIsOfStatus
