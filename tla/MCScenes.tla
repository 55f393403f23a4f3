------------------------------ MODULE MCScenes ------------------------------
(***************************************************************************)
(* Three scenes of Coordination, each explored on its own.  "owner": two   *)
(* messages to one room of one process, cancelled, stopped and shut down   *)
(* at every await.  "stall": one run of two contributions on processes     *)
(* that overlap, crash and outlive their leases.  "restart": all that the  *)
(* constants allow.                                                        *)
(***************************************************************************)
EXTENDS Coordination

CONSTANTS Scenes, p1, p2
VARIABLE scene

sceneVars == <<vars, scene>>
OneRoom == [r \in Runs |-> "A"]

\* One process that ends in order, whose leases lapse only when nobody beats.
OwnerNext ==
  \/ \E r \in Runs :
       \/ TaskStep(p1, r) /\ UNCHANGED worker /\ \A k \in Ordinals \ {0} : step'[r][k] = "absent"
       \/ Heartbeat(p1, r) \/ Start(p1, r) \/ Cancel(p1, r) \/ CancelGoesOn(p1, r) \/ StopReply(r, 0)
       \/ LeaseLapses(r) /\ ~(Alive(p1) /\ executor[r] = p1 /\ task[p1][r].beat)
  \/ Boot(p1) \/ Shutdown(p1)
  \/ Exit(p1) /\ proc[p1] = "closing" /\ \A r \in Runs : task[p1][r].pc = "none"
  \/ RecoverAdvances(p1, "A")

\* Only the first run is started, and nobody cancels or stops it.
StallNext ==
  \/ \E p \in Procs :
       \/ TaskStep(p, 1) \/ WorkerEnds(p, 1) \/ Heartbeat(p, 1) \/ Start(p, 1) \/ Resume(p, 1)
       \/ Recover(p) \/ Boot(p) \/ Exit(p) \/ RecoverAdvances(p, "A")
  \/ LeaseLapses(1) \/ DeadlinePasses(1)

ScenesInit == Init /\ scene \in Scenes
ScenesNext ==
  /\ UNCHANGED scene
  /\ \/ scene = "owner" /\ OwnerNext
     \/ scene = "stall" /\ StallNext
     \/ scene = "restart" /\ Next

ScenesSpec == ScenesInit /\ [][ScenesNext]_sceneVars
RecoveredSpec == ScenesSpec /\ RecoveryFairness
=============================================================================
