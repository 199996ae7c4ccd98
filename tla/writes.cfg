SPECIFICATION Spec
CONSTANTS
  r1 = r1
  r2 = r2
  a1 = a1
  s1 = s1
  s2 = s2
  pay = pay
  post = post
  ask = ask
  look = look
  Calls = {pay, post, ask}
  Reads = {}
  Once = {pay}
  Confirmed = {ask}
  SkillRuns = {s1, s2}
  NoSkill = NoSkill
  SkillOf <- OnlyPay
  Runs = {r1, r2}
  RunOf <- RunOfCall
  Accounts = {a1}
  AccountOf <- OneAccount
  Workers = {w1, w2}
  Nobody = Nobody
  NoCall = NoCall
  NoRun = NoRun
  MaxTries = 2
  Budget = 2
SYMMETRY Executors
INVARIANTS
  TypeOK
  DispatchIsVisible
  GuardedWriterOwnsRun
  AccountWritesExclude
CHECK_DEADLOCK FALSE
