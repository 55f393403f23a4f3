------------------------------ MODULE Gauntlet ------------------------------
(***************************************************************************)
(* dispatch_tool() of FORGE: resolve, permit, ask, hooks, execute.  Calls  *)
(* of one batch run side by side; a gated call parks in the ChannelOracle  *)
(* until the operator answers, the clock runs out or the channel closes.   *)
(* Remembered answers go to the allow-list, which outlives the job.        *)
(*                                                                         *)
(* An action is a tool with its command or path.  No tool of the repository *)
(* has an opinion of its own (check_permissions returns None), and a hook  *)
(* is taken to keep to its rule: it rewrites no call into a gated one.     *)
(* The socket whose teardown calls abandon_all() is outside the repository. *)
(***************************************************************************)
EXTENDS Naturals, FiniteSets

CONSTANTS
  ToolCalls,       \* calls the model makes
  ActionOf,        \* the action of each
  GatedActions,    \* gate_reason() finds one
  MutatingActions, \* not is_read_only()
  BroadActions,    \* matched by a whole-tool or glob entry the operator wrote
  QuestionCalls,   \* calls of ask_operator
  HookRewrite,     \* what the pre_tool hooks may make of an action
  MaxJobDeaths     \* bound on process deaths

ASSUME GauntletAssumption ==
  /\ QuestionCalls \subseteq ToolCalls /\ MaxJobDeaths \in Nat
  /\ "none" \notin GatedActions   \* the word for no action at all
  /\ \A a \in {ActionOf[c] : c \in ToolCalls} : HookRewrite[a] \notin GatedActions \ {a}

VARIABLES
  callAt,       \* stage of each call
  permitMode,   \* "act" or "plan"
  exactEntries, \* allow-list entries that name one action, in memory
  savedEntries, \* and in the file
  parked,       \* questions the oracle waits for (_pending and _questions)
  replyTo,      \* what a parked call was told
  answersSent,  \* answers of the operator on their way, or late
  approvedCalls, approvedForever,   \* what the operator said yes to
  executed,     \* the action a call ran, None for none
  channelUp, haltSignal, jobDeaths

gauntletVars == <<callAt, permitMode, exactEntries, savedEntries, parked, replyTo, answersSent,
                  approvedCalls, approvedForever, executed, channelUp, haltSignal, jobDeaths>>
operatorVars == <<answersSent, approvedCalls, approvedForever>>
jobVars == <<permitMode, channelUp, haltSignal, jobDeaths>>

None == "none"
Over == {"done", "gone"}

GauntletInit ==
  /\ callAt = [c \in ToolCalls |-> "new"]
  /\ permitMode \in {"act", "plan"}
  /\ exactEntries = {} /\ savedEntries = {}
  /\ parked = {} /\ replyTo = [c \in ToolCalls |-> None]
  /\ answersSent = {} /\ approvedCalls = {} /\ approvedForever = {}
  /\ executed = [c \in ToolCalls |-> None]
  /\ channelUp = TRUE /\ haltSignal = FALSE /\ jobDeaths = 0

StageTo(c, stage) == callAt' = [callAt EXCEPT ![c] = stage]

(***************************************************************************)
(* Permission                                                              *)
(***************************************************************************)

\* allows(): an ordinary action may be covered by any entry.
Allows(a) == a \in exactEntries \/ a \in BroadActions

\* A mistake: a glob counts as a decision about a gated action.
AllowsExactGlob(a) == a \in exactEntries \/ a \in BroadActions

\* allows_exact(): a gated action only by an entry that is that action.
AllowsExact(a) == a \in exactEntries

\* resolve(): the gate, the allow-list, the mode.
Decide(a) ==
  IF a \in GatedActions THEN IF AllowsExact(a) THEN "allow" ELSE "ask"
  ELSE IF permitMode = "plan" /\ a \in MutatingActions /\ ~Allows(a) THEN "deny" ELSE "allow"

\* Stages 1 to 3: an unknown tool, invalid arguments and a denial are results.
Resolve(c) ==
  /\ callAt[c] = "new"
  /\ \/ /\ StageTo(c, CASE Decide(ActionOf[c]) = "allow" -> "permitted"
                        [] Decide(ActionOf[c]) = "deny" -> "done"
                        [] OTHER -> "ask")
     \/ StageTo(c, "done")
  /\ UNCHANGED <<exactEntries, savedEntries, parked, replyTo, operatorVars, executed, jobVars>>

(***************************************************************************)
(* The operator                                                            *)
(***************************************************************************)

\* ask() and consult() send a frame and park; a frame that cannot be sent is unanswered.
Park(c) ==
  /\ callAt[c] \in {"ask", "consult"}
  /\ IF channelUp
     THEN /\ parked' = parked \union {c} /\ replyTo' = [replyTo EXCEPT ![c] = None]
          /\ StageTo(c, IF callAt[c] = "ask" THEN "asked" ELSE "consulted")
     ELSE StageTo(c, "done") /\ UNCHANGED <<parked, replyTo>>
  /\ UNCHANGED <<exactEntries, savedEntries, operatorVars, executed, jobVars>>

\* The operator answers a question that was put, now or long after.
AnswerQuestion(c, yes, always) ==
  /\ c \in parked \/ callAt[c] \in Over
  /\ ~ \E s \in answersSent : s.call = c
  /\ answersSent' = answersSent \union {[call |-> c, yes |-> yes, always |-> always]}
  /\ approvedCalls' = IF yes THEN approvedCalls \union {c} ELSE approvedCalls
  /\ approvedForever' = IF yes /\ always THEN approvedForever \union {ActionOf[c]} ELSE approvedForever
  /\ UNCHANGED <<callAt, exactEntries, savedEntries, parked, replyTo, executed, jobVars>>

Told(c, word) == parked' = parked \ {c} /\ replyTo' = [replyTo EXCEPT ![c] = word]

\* resolve() and answer(): a late reply finds nothing waiting.
DeliverAnswer(s) ==
  /\ s.call \in parked
  /\ Told(s.call, IF ~s.yes THEN "no" ELSE IF s.always THEN "always" ELSE "yes")
  /\ UNCHANGED <<callAt, exactEntries, savedEntries, operatorVars, executed, jobVars>>

\* A mistake: a question nobody answered in time is taken as agreed.
SilenceAgrees == "yes"

\* An unanswered question is a no.
Silence == "no"

\* A mistake: the clock drops the question and leaves the call waiting.
AskTimesOutUntold(c) ==
  /\ c \in parked /\ parked' = parked \ {c}
  /\ UNCHANGED <<callAt, exactEntries, savedEntries, replyTo, operatorVars, executed, jobVars>>

\* The clock of wait_for(): nobody answered, which is a no.
AskTimesOut(c) ==
  /\ callAt[c] \in {"asked", "consulted"} /\ replyTo[c] = None
  /\ Told(c, Silence)
  /\ UNCHANGED <<callAt, exactEntries, savedEntries, operatorVars, executed, jobVars>>

\* abandon_all(): every parked question resolves.
Abandoned == replyTo' = [c \in ToolCalls |-> IF c \in parked THEN Silence ELSE replyTo[c]]

ChannelCloses ==
  /\ channelUp /\ channelUp' = FALSE
  /\ parked' = {} /\ Abandoned
  /\ UNCHANGED <<callAt, exactEntries, savedEntries, operatorVars, executed, permitMode, haltSignal, jobDeaths>>

\* add(): the exact action joins the list; saving it may fail.
Remember(a, saved) ==
  /\ exactEntries' = exactEntries \union {a}
  /\ savedEntries' = IF saved THEN exactEntries' ELSE savedEntries

\* _ask() turns the answer into a decision; a consultation ends either way.
ResumeCall(c) ==
  /\ callAt[c] \in {"asked", "consulted"} /\ replyTo[c] # None
  /\ StageTo(c, IF callAt[c] = "asked" /\ replyTo[c] # "no" THEN "permitted" ELSE "done")
  /\ IF callAt[c] = "asked" /\ replyTo[c] = "always"
     THEN \E saved \in BOOLEAN : Remember(ActionOf[c], saved)
     ELSE UNCHANGED <<exactEntries, savedEntries>>
  /\ UNCHANGED <<parked, replyTo, operatorVars, executed, jobVars>>

(***************************************************************************)
(* Execution                                                               *)
(***************************************************************************)

\* run_pre_tool(): a hook vetoes, or the call goes on with what the hooks left;
\* a listener on tools/execute may answer without calling through.
RunPreTool(c, veto) ==
  /\ callAt[c] = "permitted"
  /\ IF veto THEN StageTo(c, "done") /\ UNCHANGED executed
     ELSE /\ StageTo(c, IF c \in QuestionCalls THEN "consult" ELSE "running")
          /\ executed' = [executed EXCEPT ![c] =
               IF replyTo[c] \in {"yes", "always"} THEN ActionOf[c] ELSE HookRewrite[ActionOf[c]]]
  /\ UNCHANGED <<exactEntries, savedEntries, parked, replyTo, operatorVars, jobVars>>

\* _call_bounded(): the tool finishes or raises, its clock wins, or the
\* operator stops it; the result is capped and handed back.
FinishCall(c) ==
  /\ callAt[c] = "running" /\ StageTo(c, "done")
  /\ UNCHANGED <<exactEntries, savedEntries, parked, replyTo, operatorVars, executed, jobVars>>

Halt ==
  /\ ~haltSignal /\ haltSignal' = TRUE
  /\ UNCHANGED <<callAt, exactEntries, savedEntries, parked, replyTo, operatorVars, executed,
                 permitMode, channelUp, jobDeaths>>

\* The job dies; the next one loads the allow-list.  Whatever mode is chosen
\* then holds for its calls.
JobDies(mode) ==
  /\ jobDeaths < MaxJobDeaths /\ jobDeaths' = jobDeaths + 1
  /\ callAt' = [c \in ToolCalls |-> IF callAt[c] \in {"new"} \union Over THEN callAt[c] ELSE "gone"]
  /\ parked' = {} /\ replyTo' = [c \in ToolCalls |-> None]
  /\ exactEntries' = savedEntries
  /\ permitMode' = mode /\ channelUp' = TRUE /\ haltSignal' = FALSE
  /\ UNCHANGED <<savedEntries, operatorVars, executed>>

GauntletStep(c) ==
  \/ Resolve(c) \/ Park(c) \/ AskTimesOut(c) \/ ResumeCall(c) \/ FinishCall(c)
  \/ \E veto \in BOOLEAN : RunPreTool(c, veto)

GauntletNext ==
  \/ \E c \in ToolCalls : GauntletStep(c) \/ \E yes, always \in BOOLEAN : AnswerQuestion(c, yes, always)
  \/ \E s \in answersSent : DeliverAnswer(s)
  \/ ChannelCloses \/ Halt
  \/ \E mode \in {"act", "plan"} : JobDies(mode)

\* Each call goes on by itself: the oracle has a clock, and so has every tool.
GauntletFairness == \A c \in ToolCalls : WF_gauntletVars(GauntletStep(c))
GauntletSpec == GauntletInit /\ [][GauntletNext]_gauntletVars /\ GauntletFairness

(***************************************************************************)
(* Properties                                                              *)
(***************************************************************************)

\* A gated action runs only when the operator said yes to that call, or
\* "always" to that very action: no glob, timeout, late answer, closed channel
\* or restart stands in for the yes.
GateHolds ==
  \A c \in ToolCalls : executed[c] \in GatedActions =>
    c \in approvedCalls \/ executed[c] \in approvedForever

\* A call that was dispatched gets its result, whatever becomes of the operator
\* and the channel.
CallReturns ==
  \A c \in ToolCalls : (callAt[c] \notin {"new"} \union Over) ~> (callAt[c] \in Over)

\* permissions.py: in plan mode mutations are denied outright.
PlanIsReadOnly ==
  [][\A c \in ToolCalls : executed'[c] # executed[c] /\ executed'[c] \in MutatingActions
       => permitMode = "act"]_gauntletVars
=============================================================================
