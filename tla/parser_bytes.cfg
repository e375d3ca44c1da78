SPECIFICATION MCSpec
CONSTANTS
  Char <- Chars
  IntMax = 58
  AfterOverflow <- Wrapped
  Looping = {"method", "uri", "http_version_major", "http_version_minor", "header_value", "header_lws"}
  MaxLoop = 1
  MaxLines = 3
CHECK_DEADLOCK FALSE
INVARIANTS
  HeaderIsThere
  FieldsAreClean
  GoodIsFaithful
