SPECIFICATION FairSpec
CONSTANTS
  Last = 4
  Gated <- Third
  MaxVersions = 2
  MaxCrashes = 1
INVARIANTS
  TypeOK
  GatesHold
  CompletionNeedsAll
PROPERTIES
  
  ComesToRest
CHECK_DEADLOCK FALSE
