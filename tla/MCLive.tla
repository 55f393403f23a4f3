------------------------------- MODULE MCLive -------------------------------
(***************************************************************************)
(* What must eventually happen, each component explored on its own under   *)
(* the fairness of its own specification: stopped Legion workers settle,   *)
(* messages typed on Telegram start their run, the Warden's turn ends and  *)
(* its gated tool calls return.                                            *)
(***************************************************************************)
EXTENDS Legion, TelegramInbox, Gauntlet, Warden

VARIABLE part     \* which of the independent components moves

liveVars == <<legionVars, inboxVars, gauntletVars, wardenVars, part>>

\* A push is gated, the other call asks the operator a question.
MCActionOf == [x \in ToolCalls |-> IF x = "c3" THEN "ask" ELSE "push"]
MCHookRewrite == [x \in {"push", "ask", "write"} |-> x]

LiveInit ==
  /\ LegionInit /\ InboxInit /\ GauntletInit /\ WardenInit
  /\ part \in {"legion", "inbox", "gauntlet", "warden"}
  /\ part # "gauntlet" => permitMode = "act"

\* No window shows the workers here (see MCForge).
LiveNext ==
  /\ UNCHANGED part
  /\ \/ part = "legion" /\ LegionNext /\ UNCHANGED <<window, inboxVars, gauntletVars, wardenVars>>
     \/ part = "inbox" /\ InboxNext /\ UNCHANGED <<legionVars, gauntletVars, wardenVars>>
     \/ part = "gauntlet" /\ GauntletNext /\ UNCHANGED <<legionVars, inboxVars, wardenVars>>
     \/ part = "warden" /\ WardenNext /\ UNCHANGED <<legionVars, inboxVars, gauntletVars>>

\* The fairness of each component while it is the one that moves.
LiveFairness ==
  /\ WF_legionVars(part = "legion" /\ RecoverWorkers) /\ WF_legionVars(part = "legion" /\ StopRun)
  /\ \A w \in Workers : /\ WF_legionVars(part = "legion" /\ SpawnWorker(w))
                       /\ WF_legionVars(part = "legion" /\ Aborted(w))
                       /\ WF_legionVars(part = "legion" /\ RunEnds(w))
  /\ \A h \in Handlers :
       /\ SF_inboxVars(part = "inbox" /\ StartRun(h)) /\ WF_inboxVars(part = "inbox" /\ NoteRun(h))
       /\ \A u \in Updates : SF_inboxVars(part = "inbox" /\ DrainInput(h, u))
  /\ \A x \in ToolCalls : WF_gauntletVars(part = "gauntlet" /\ GauntletStep(x))
  /\ WF_wardenVars(part = "warden" /\ TurnStep)

LiveSpec == LiveInit /\ [][LiveNext]_liveVars /\ LiveFairness
=============================================================================
