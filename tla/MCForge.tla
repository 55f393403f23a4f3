------------------------------- MODULE MCForge -------------------------------
(***************************************************************************)
(* The IGOR/FORGE side, each part explored on its own: project tasks and   *)
(* releases in the backend, the Legion workers of a run, the gauntlet that *)
(* a tool call runs and the Cells it runs in.                              *)
(***************************************************************************)
EXTENDS ProjectTasks, Releases, Legion, Gauntlet, Cells, TLC

CONSTANTS t1, t2
VARIABLE part     \* which of the independent components moves

forgeVars == <<projectVars, releaseVars, legionVars, gauntletVars, cellVars, part>>

\* The second task continues the first one's work.
MCDependsOn == t1 :> {} @@ t2 :> {t1}
MCRunOf == t1 :> 1 @@ t2 :> 2
\* A push is gated, an edit only mutates, and the third call asks a question.
MCActionOf == [c \in ToolCalls |-> IF c = "c3" THEN "ask" ELSE "push"]
MCHookRewrite == [a \in {"push", "ask", "write"} |-> a]
\* Two turns of one conversation with the same container, and another one.
MCChatOf == [j \in Jobs |-> IF j = "j3" THEN "k2" ELSE "k1"]
MCSigOf == [j \in Jobs |-> "a"]

ForgeInit ==
  /\ ProjectInit /\ ReleaseInit /\ LegionInit /\ GauntletInit /\ CellsInit
  /\ part \in {"tasks", "releases", "steering", "cards", "gauntlet", "cells"}
  /\ part # "gauntlet" => permitMode = "act"
  /\ part # "cells" => ~pooling

\* The owner steers the workers, or opens a window that shows them.
ForgeNext ==
  /\ UNCHANGED part
  /\ \/ part = "tasks" /\ ProjectNext /\ UNCHANGED <<releaseVars, legionVars, gauntletVars, cellVars>>
     \/ part = "releases" /\ ReleaseNext /\ UNCHANGED <<projectVars, legionVars, gauntletVars, cellVars>>
     \/ /\ LegionNext /\ UNCHANGED <<projectVars, releaseVars, gauntletVars, cellVars>>
        /\ (part = "steering" /\ UNCHANGED window) \/ (part = "cards" /\ UNCHANGED steering)
     \/ part = "gauntlet" /\ GauntletNext /\ UNCHANGED <<projectVars, releaseVars, legionVars, cellVars>>
     \/ part = "cells" /\ CellsNext /\ UNCHANGED <<projectVars, releaseVars, legionVars, gauntletVars>>

ForgeSpec == ForgeInit /\ [][ForgeNext]_forgeVars
=============================================================================
