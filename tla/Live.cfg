SPECIFICATION LiveSpec
CONSTANTS
  Workers = {w1}
  Lead = lead
  Messages = {i1}
  MaxChildren = 2
  MaxLive = 1
  MaxWaiting = 1
  PageLimit = 3
  MaxOutputs = 2
  MaxViews = 1
  Updates = {1, 2, 3}
  Offset = 2
  Handlers = {h1, h2}
  MaxUnlinks = 1
  MaxInboxDeaths = 1
  ToolCalls = {"c1"}
  ActionOf <- MCActionOf
  GatedActions = {"push"}
  MutatingActions = {"push", "write"}
  BroadActions = {"push", "write"}
  QuestionCalls = {}
  HookRewrite <- MCHookRewrite
  MaxJobDeaths = 1
  Entrance = "gate"
  ToolKinds = {"memory"}
  Typed = {}
  MaxPrompts = 1
  MaxWork = 2
  RetryAttempts = 1
  MaxTruncationResumes = 1
  MaxCompactFailures = 1
  KeepCycles = 1
  ElideAfterCycles = 1
  TurnsCap = 1
  MaxDisk = 2
PROPERTIES WorkersEnd InputWorkedOnce CallReturns
CHECK_DEADLOCK FALSE
