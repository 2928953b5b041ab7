SPECIFICATION Spec
CONSTANTS
  Clients = {c1, c2}
  Names = {"admin", "bob"}
  Sessions = {s1, s2}
  Invitations = {i1, i2}
  Tokens = {t1}
  Fixed <- MCFixed
  Custom <- MCCustom
  Ops <- MCOps
  IdleTtl = 1
  MaxTime = 1
  MaxFaults = 1
  MaxOps = 4
SYMMETRY Interchangeable
CHECK_DEADLOCK FALSE
INVARIANTS OwnerRemains SessionsRevoked NoInvitationLost
