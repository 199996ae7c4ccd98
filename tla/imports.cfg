SPECIFICATION Spec
CONSTANTS
  good = good
  mixed = mixed
  junk = junk
  Contents = {mixed, junk}
  Datasets = 2
  Unreadable = {junk}
  Ambiguous <- MixedFirst
  Broken = {}
  Uploads = 2
  Workers = {w1, w2}
  MaxFiles = 2
  MaxQueue = 2
  Budget = 2
INVARIANTS
  TypeOK
  CompletedMeansImported
  CommittedOnce
PROPERTIES
  JobSettles
CHECK_DEADLOCK FALSE
