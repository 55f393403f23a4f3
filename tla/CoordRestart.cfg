SPECIFICATION RecoveredSpec
CONSTANTS
  Scenes = {"restart"}
  p1 = p1
  p2 = p2
  Procs = {p1, p2}
  Rooms = {"A"}
  MaxRuns = 2
  RoomOf <- OneRoom
  MaxSteps = 1
  MaxWaiting = 1
  Stalls = FALSE
  Crashes = TRUE
  Overlap = FALSE
  Ops = {"resume", "recover", "deadline"}
CHECK_DEADLOCK FALSE
INVARIANTS SlotReleased RoundComplete
PROPERTIES PublishedInTurn EveryRunSettles
