SPECIFICATION Spec
CONSTANTS
  Procs = {p1, p2, p3}
  Runs = {1, 2, 3}
  Existing = {1, 2}
SYMMETRY Coroutines
INVARIANTS
  TypeOK
  GatedNeverDeadlock
  DatabaseSeesDeadlocks
