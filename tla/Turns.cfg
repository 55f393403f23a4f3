SPECIFICATION TurnsSpec
CONSTANTS
  Ids = {1, 2}
  External = {2}
  Args = {0}
  MaxIterations = 3
  MaxContinuations = 1
  MaxReplies = 3
  MaxChanges = 2
  MaxCrashes = 1
  Callers = {c1, c2}
  Speech = {s1}
  Fallbacks = 2
  Price <- MCPrice
  SpendPolicies <- MCPolicies
  SpendDays = 2
  MaxSpendDeaths = 1
  Saves = {q1, q2, q3}
  Restarts = {r1, r2}
  Invalid = {q3}
  KeptReceipts = 1
  MaxInstances = 4
  d1 = d1
  d2 = d2
  t1 = t1
  t2 = t2
  Clients = {d1, d2}
  TurnIds = {t1, t2}
  Bodies <- TheBodies
  Imported <- TheImported
  MaxAttachments = 2
  MaxUploads = 1
  MaxSpoken = 2
  ClientDeaths = 1
INVARIANTS HistoryHonest RequestsBounded ConfiguredOnce 
PROPERTIES ToolEffects PaidOnce
CHECK_DEADLOCK FALSE
