SPECIFICATION WorkersSpec
CONSTANTS
  p1 = p1
  p2 = p2
  p3 = p3
  q1 = q1
  Agents = {p1, p2, p3}
  Questions = {q1}
  Cap = 5
  MaxLosses = 1
  OwnerStops = TRUE
  Kinds = {"address", "consult"}
  Runs = {"a", "b"}
  Calls = {"a1", "a2", "a3", "b1"}
  RunOf <- MCRunOf
  Tokens <- MCTokens
  Limits <- MCLimits
  Policies <- MCPolicies
  LastDay = 1
  MaxCrashes = 1
  MaxResumes = 1
  Entrance = "gate"
  ToolKinds = {"read", "edit", "write", "run", "memory"}
  Typed = {"x1"}
  MaxPrompts = 2
  MaxWork = 3
  RetryAttempts = 1
  MaxTruncationResumes = 1
  MaxCompactFailures = 1
  KeepCycles = 1
  ElideAfterCycles = 1
  TurnsCap = 1
  MaxDisk = 2
  r1 = r1
  r2 = r2
  web = web
  Requests = {r1, r2}
  Profiles = {"obs"}
  Public = web
  MaxSessions = 2
  MaxPages = 3
  MaxCalls = 4
  w1 = w1
  w2 = w2
  Terminals = {w1, w2}
  MaxTurns = 3
  MaxIds = 3
  MaxCheckpoints = 2
  KEEP_SESSIONS = 2
  ListLimit = 2
  Asks = {"g1", "g2"}
  MaxKeys = 3
  MaxDraft = 2
  Letters = {"a", "b"}
  MaxQuery = 3
  WindowHeight = 4
  Groups <- TheGroups
INVARIANTS RunCeiling InFlightBounded ReturnsFaithful PrivateStaysPrivate TranscriptPaired CacheGrounded FrontsSound
CHECK_DEADLOCK FALSE
