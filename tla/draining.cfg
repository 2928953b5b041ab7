SPECIFICATION Spec
CONSTANTS
  Clients = {w1, w2, h}
  WebSockets = {w1, w2}
  Upstreams = {u1, u2}
  MaxConnections = 1
  MaxOps = 3
\* Every connection may be over and the service closed.
CHECK_DEADLOCK FALSE
INVARIANTS CountsAgree GraceIsExact
PROPERTIES Released
