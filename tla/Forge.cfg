SPECIFICATION ForgeSpec
CONSTANTS
  t1 = t1
  t2 = t2
  Tasks = {t1, t2}
  DependsOn <- MCDependsOn
  RunOf <- MCRunOf
  Operations = {o1, o2}
  MaxRevisions = 3
  MaxHostDeaths = 1
  Deploys = {d1, d2}
  Pulls = {p1}
  Approvals = {a1, a2}
  MaxReviews = 1
  MaxSourceEdits = 1
  MaxReleaseDeaths = 1
  Workers = {w1}
  Lead = lead
  Messages = {i1}
  MaxChildren = 2
  MaxLive = 1
  MaxWaiting = 1
  PageLimit = 3
  MaxOutputs = 2
  MaxViews = 1
  ToolCalls = {"c1", "c3"}
  ActionOf <- MCActionOf
  GatedActions = {"push"}
  MutatingActions = {"push", "write"}
  BroadActions = {"push", "write"}
  QuestionCalls = {"c3"}
  HookRewrite <- MCHookRewrite
  MaxJobDeaths = 1
  Jobs = {"j1", "j2", "j3"}
  ChatOf <- MCChatOf
  SigOf <- MCSigOf
  MaxCells = 1
  HasTimeout = TRUE
  MaxContainers = 2
INVARIANTS OneWriter DependentExact GateHolds CellsSound 
PROPERTY PublishedAtMostOnce
CHECK_DEADLOCK FALSE
