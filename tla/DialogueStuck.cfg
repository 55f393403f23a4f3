SPECIFICATION DialogueSpec
CONSTANTS
  Agents = {a, b, c}
  Questions = {q}
  Cap = 5
  MaxLosses = 0
  Kinds = {"address"}
  OwnerStops = TRUE
INVARIANT NoReturnLeftWaiting
CHECK_DEADLOCK FALSE
