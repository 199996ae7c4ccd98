SPECIFICATION Spec
CONSTANTS
  t1 = t1
  Tasks = {t1}
  TaskOf <- OneTask
  Turns = {1}
  Revisions = {2}
  Messages = {}
  Workers = {w1, w2}
  NoWorker = NoWorker
  NoRun = 0
  w1 = w1
  w2 = w2
  MaxAttempts = 2
  MaxJobs = 1
  MaxSkills = 2
  Budget = 1
  TurnOutcomes = {"completed", "blocked", "waiting_permission"}
  TaskOutcomes = {"completed"}
  Failures = {"retryable", "terminal"}
SYMMETRY AnyWorker
INVARIANTS
  TypeOK
  LeaseEndsWithRun
  AttemptsFence
  RetryBudget
  TurnMirrorsRun
PROPERTIES
  NoLostRun
  FirstTerminalWins
CHECK_DEADLOCK FALSE
