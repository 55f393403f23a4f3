SPECIFICATION Spec
CONSTANTS
  Procs = {p1}
  Rooms = {"A"}
  MaxRuns = 1
  RoomOf <- OneRoom
  MaxSteps = 1
  MaxWaiting = 1
  Stalls = TRUE
  Crashes = FALSE
  Overlap = FALSE
  Ops = {"resume", "recover", "delegate", "deadline"}
CHECK_DEADLOCK FALSE
INVARIANT SlotReleased
