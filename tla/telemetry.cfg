SPECIFICATION TelemetrySpec
CONSTANTS
  Events <- MCEvents
  Alerts <- MCAlerts
  Counted <- MCCounted
  Flushes = {f1, f2}
  DeadAfter = 2
  MaxDelay = 2
  MaxFaults = 1
INVARIANTS StorageIsTrue LogInOrder
PROPERTIES AlertsSettle
