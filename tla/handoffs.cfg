SPECIFICATION HandoffSpec
CONSTANTS
  Jobs = {j1, j2}
  Handlers = {h1, h2}
  MaxShares = 2
  NoJob = none
SYMMETRY Interchangeable
INVARIANTS
  HandoffTypeOK
  BoundWorkIsOurs
  SharesAreApproved
  BoundNamesWork
CHECK_DEADLOCK FALSE
