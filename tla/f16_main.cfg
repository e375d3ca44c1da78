\* A client that makes progress, c2, and one that may stall, fail or make a handler
\* throw; temporal properties allow no symmetry.
SPECIFICATION LiveSpec
CONSTANTS
  c1 = c1
  c2 = c2
  Conn = {c1, c2}
  Prompt = {c2}
  Tls = FALSE
  Faults = {"create_connection", "handle_request"}
CHECK_DEADLOCK FALSE
INVARIANTS
  NoUseAfterDestroy
  CleanExit
PROPERTIES
  ExitsWhenSignalled
  EveryConnectionEnds
  EveryClientTaken
