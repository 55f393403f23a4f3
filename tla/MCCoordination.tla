--------------------------- MODULE MCCoordination ---------------------------
EXTENDS Coordination
OneRoom == [r \in Runs |-> "A"]
=============================================================================
