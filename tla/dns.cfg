SPECIFICATION Spec
CONSTANTS
  Handlers = {h1, h2}
  Questions <- MCQuestions
  Stream <- MCStream
  Chunks = {3}
  Confs <- MCConfs
  FirstConf <- Plain
  MaxDepth = 2
  MaxEntries = 2
  MinTtl = 1
  MaxTtl = 1
  Responses <- MCResponses
  TTLs = {0, 3}
  DayLength = 3
  Schedules <- MCSchedules
  MaxTime = 1
  MaxChanges = 1
  MaxQuestions = 2
SYMMETRY Interchangeable
CHECK_DEADLOCK FALSE
INVARIANTS Consistent AliasesLead EveryUpstreamTried WindowsAreRuns
PROPERTIES CacheIsRight
