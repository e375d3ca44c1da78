SPECIFICATION MainSpec
CONSTANTS
  c1 = c1
  c2 = c2
  Conn = {c1, c2}
  Prompt = {}
  Tls = FALSE
  Faults = {"create_connection", "handle_request"}
CHECK_DEADLOCK FALSE
INVARIANTS
  DestructorWaits
