SPECIFICATION RoundsSpec
CONSTANTS
  Agents = {p1, p2, p3}
  Questions = {q}
  Cap = 4
  MaxLosses = 0
  Kinds = {"address", "handoff", "dismiss", "invite"}
  OwnerStops = FALSE
PROPERTIES ReturnsComeBack NoWaitForever
CHECK_DEADLOCK FALSE
