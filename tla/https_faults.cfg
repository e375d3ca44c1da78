SPECIFICATION Spec
CONSTANTS
  c1 = c1
  c2 = c2
  c3 = c3
  Conn = {c1, c2, c3}
  Tls = TRUE
  Faults = {"create_connection", "handle_request"}
SYMMETRY Symmetry
CHECK_DEADLOCK FALSE
INVARIANTS
  OwnsLiveConnections
  NoConnectionForgotten
  OneOperation
  AbortedIsUnmanaged
  KeepsAccepting
  Inv
PROPERTIES
  ReplyStable
  NoReplyCutShort
  ImplementsExchange
