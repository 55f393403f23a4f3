------------------------------ MODULE MCRounds ------------------------------
(***************************************************************************)
(* What must eventually happen in a round, each component explored on its  *)
(* own: the response turns of a dialogue, and a model call that waits for  *)
(* a slot.                                                                 *)
(***************************************************************************)
EXTENDS Dialogue

VARIABLES
  policy, today, receipt, spent, day, open, lease, pc, asof, wire, crashes, resumes,
                  \* of CoordinationBudget
  part            \* which of the two components moves

budgetVars == <<policy, today, receipt, spent, day, open, lease, pc, asof, wire, crashes, resumes>>
roundVars == <<dialogueVars, budgetVars, part>>

\* Two runs of one owner, two overlapping calls in the first, one slot.
MCRuns == {"a", "b"}
MCCalls == {"a1", "a2", "b1"}
MCRunOf == [c \in MCCalls |-> IF c = "b1" THEN "b" ELSE "a"]
MCTokens == [c \in MCCalls |-> IF c = "a2" THEN 2 ELSE 1]
MCLimits == [r \in MCRuns |-> [calls |-> 2, tokens |-> 3, money |-> 3, conc |-> 2, enforce |-> TRUE]]
MCPolicies == [paused : BOOLEAN, enforce : {FALSE}, calls : {0}, tokens : {0}, conc : {1}]

B == INSTANCE CoordinationBudget WITH
  Runs <- MCRuns, Calls <- MCCalls, RunOf <- MCRunOf, Tokens <- MCTokens,
  Limits <- MCLimits, Policies <- MCPolicies, LastDay <- 0, MaxCrashes <- 1, MaxResumes <- 1

RoundsInit ==
  /\ DialogueInit /\ B!Init /\ part \in {"dialogue", "budget"}
  /\ part # "budget" => ~policy.paused
  /\ part # "dialogue" => Cardinality(members) = 1 /\ lead = CHOOSE p \in Agents : TRUE

RoundsNext ==
  /\ UNCHANGED part
  /\ \/ part = "dialogue" /\ DialogueNext /\ UNCHANGED budgetVars
     \/ part = "budget" /\ B!Next /\ UNCHANGED dialogueVars

\* DialogueFairness and BudgetFairness, each while its component moves.
RoundsFairness ==
  /\ WF_dialogueVars(part = "dialogue" /\ PickStep) /\ WF_dialogueVars(part = "dialogue" /\ AskRefused)
  /\ SF_dialogueVars(part = "dialogue" /\ Deliver) /\ WF_dialogueVars(part = "dialogue" /\ ResumeRound)
  /\ \A c \in MCCalls : /\ WF_budgetVars(part = "budget" /\ B!CallStep(c))
                       /\ WF_budgetVars(part = "budget" /\ B!ProviderEnds(c))
  /\ \A r \in MCRuns : WF_budgetVars(part = "budget" /\ B!LeaseLapses(r))

RoundsSpec == RoundsInit /\ [][RoundsNext]_roundVars /\ RoundsFairness

\* CoordinationBudget's promise to a waiting call, see there.
NoWaitForever == B!NoWaitForever
=============================================================================
