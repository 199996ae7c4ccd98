SPECIFICATION Spec
CONSTANTS
  t1 = t1
  Tasks = {t1}
  TaskOf <- OneTask
  Turns = {}
  Revisions = {}
  Messages = {1, 2, 3}
  Workers = {w1}
  NoWorker = NoWorker
  NoRun = 0
  w1 = w1
  MaxAttempts = 2
  MaxJobs = 1
  MaxSkills = 0
  Budget = 1
  TurnOutcomes = {}
  TaskOutcomes = {"completed", "waiting_permission", "running"}
  Failures = {"retryable"}
PROPERTIES
  PromotesInOrder
CHECK_DEADLOCK FALSE
