SPECIFICATION Spec
CONSTANTS
  r1 = r1
  r2 = r2
  a1 = a1
  s1 = s1
  s2 = s2
  pay = pay
  post = post
  ask = ask
  look = look
  Calls = {pay, post, look}
  Reads = {look}
  Once = {pay}
  Confirmed = {}
  SkillRuns = {s1, s2}
  NoSkill = NoSkill
  SkillOf <- Split
  Runs = {r1}
  RunOf <- OneRun
  Accounts = {a1}
  AccountOf <- OneAccount
  Workers = {w1, w2}
  Nobody = Nobody
  NoCall = NoCall
  NoRun = NoRun
  MaxTries = 2
  Budget = 1
SYMMETRY Executors
PROPERTY
  KeepsLedger
CHECK_DEADLOCK FALSE
