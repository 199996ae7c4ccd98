SPECIFICATION Spec
CONSTANTS
  Keys = {k1, k2}
  Executors = {e1, e2}
  Uploads = {cover}
  Nothing = Nothing
  Edited = Edited
  MaxAttempts = 2
  MaxDrafts = 2
  Faults = 1
SYMMETRY Interchangeable
INVARIANTS
  TypeOK
  OneExecutor
  NeverRepeatedBlindly
PROPERTIES
  EditsNeedConsent
CHECK_DEADLOCK FALSE
