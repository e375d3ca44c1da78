\* A plain server whose factory and handler may throw and whose client may stall,
\* next to a TLS server.
SPECIFICATION LiveServersSpec
CONSTANTS
  c1 = c1
  c2 = c2
  Conn1 = {c1}
  Conn2 = {c2}
  Prompt1 = {}
  Prompt2 = {c2}
  Tls1 = FALSE
  Tls2 = TRUE
  Faults1 = {"create_connection", "handle_request"}
  Faults2 = {"handle_request"}
  Section1 = {"return", "none"}
  Section2 = {"locations"}
  Port = {80, 443}
CHECK_DEADLOCK FALSE
INVARIANTS
  AllOrNothing
  TakenWhenComplete
  ExitCode
PROPERTIES
  Implements
  ExitsWithServers
  SecondServes
