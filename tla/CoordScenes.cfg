SPECIFICATION ScenesSpec
CONSTANTS
  Scenes = {"owner", "stall"}
  p1 = p1
  p2 = p2
  Procs = {p1, p2}
  Rooms = {"A"}
  MaxRuns = 2
  RoomOf <- OneRoom
  MaxSteps = 2
  MaxWaiting = 1
  Stalls = TRUE
  Crashes = TRUE
  Overlap = TRUE
  Ops = {"cancel", "stop", "shutdown", "resume", "recover", "delegate", "deadline"}
INVARIANTS SlotHeld OutcomesExplicit DispatchedOnce PublishedOnce
CHECK_DEADLOCK FALSE
