CONSTANTS
  Restorers = {r1}
  Makers = {"schedule", "admin"}
  InitialBackups <- OldBackup
  Keep = 1
  MayFail = {"enter", "replace", "reload", "undo", "start"}
  MaxWrites = 1
  MaxRestores = 1
  MaxFaults = 2
  MaxCrashes = 1
  MaxBackups = 2
  MaxRuns = 1
CHECK_DEADLOCK FALSE
SPECIFICATION Spec
INVARIANTS Consistent AllOrNothing OneBackupLoop
PROPERTIES MaintenanceEnds StartsAgain
