SPECIFICATION Spec
CONSTANTS
  Releases <- MCReleases
  Version <- MCVersion
  Code <- MCCode
  Native <- MCNative
  Schema <- MCSchema
  Queries <- MCQueries
  HasRecord <- MCHasRecord
  MaxBoots = 3
  MaxFaults = 2
CHECK_DEADLOCK FALSE
INVARIANTS ActiveIsGood FallbackIsLast AnsweredOnce
