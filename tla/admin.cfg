SPECIFICATION Spec
CONSTANTS
  Clients = {c1, c2}
  Keys = {"k1"}
  Requests <- MCRequests
  FirstConf <- MCConf
  MaxSerial = 6
  PerDay = 2
  Retention = 1
  MaxDays = 2
  MaxRequests = 3
  MaxFaults = 1
  MaxCrashes = 1
SYMMETRY Interchangeable
INVARIANTS Consistent AtMostOnce ChainVerifies AckedIsKept
PROPERTIES SerialsMove
