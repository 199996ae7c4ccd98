SPECIFICATION Spec
CONSTANTS
  b1 = b1
  b2 = b2
  b3 = b3
  day = day
  video = video
  plays = plays
  likes = likes
  Batches = {b1, b2, b3}
  Keys = {day, video}
  Contents = {video}
  Fields = {plays, likes}
  Cells <- OverlappingCells
  Priority <- SourcePriorities
  Ambiguous = {b2}
  Requests = {t1, t2}
  None = None
  MaxSeq = 2
SYMMETRY Users
INVARIANTS
  TypeOK
  SnapshotShowsWinners
  ContentHasLiveOwner
CHECK_DEADLOCK FALSE
