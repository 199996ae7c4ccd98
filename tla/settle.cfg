SPECIFICATION FairSpec
CONSTANTS
  t1 = t1
  Tasks = {t1}
  TaskOf <- OneTask
  Turns = {1, 2}
  Revisions = {}
  Messages = {}
  Workers = {w1}
  NoWorker = NoWorker
  NoRun = 0
  w1 = w1
  MaxAttempts = 2
  MaxJobs = 1
  MaxSkills = 1
  Budget = 1
  TurnOutcomes = {"completed"}
  TaskOutcomes = {}
  Failures = {"retryable", "terminal"}
PROPERTIES
  TurnsSettle
CHECK_DEADLOCK FALSE
