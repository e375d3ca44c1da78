SPECIFICATION MCSpec
CONSTANTS
  Method = {"GET", "POST"}
  Location <- Locations
  Uri <- Uris
  MaxRoutes = 3
  MaxTokens = 2
  MaxChars = 6
  MaxSegments = 3
  MaxPath = 7
CHECK_DEADLOCK FALSE
INVARIANTS
  RouterInv
  MostSpecific
  Contained
  HandlerSeesRequest
  DecodeIsExact
  MatchIsBySegments
