----------------------------- MODULE ForgeProofs -----------------------------
(***************************************************************************)
(* Proofs about the FORGE side, for any calls, actions, gates and hooks    *)
(* (Gauntlet), any tasks, dependencies and owner operations (ProjectTasks), *)
(* any deployments, pulls and approvals (Releases), and any jobs,          *)
(* conversations and size of the pool (Cells).                             *)
(***************************************************************************)
EXTENDS Gauntlet, ProjectTasks, Releases, Cells, FiniteSetTheorems, TLAPS

-----------------------------------------------------------------------------
(* The gauntlet.  A yes is never manufactured: whatever says yes inside the *)
(* process (an entry of the allow-list, an answer on its way, the reply a  *)
(* parked call was told, the permission it then has) traces back to one.   *)

\* The stages of a call, and the answers there are.
GauntletTyped ==
  /\ callAt \in [ToolCalls -> {"new", "ask", "asked", "consult", "consulted", "permitted", "running"} \cup Over]
  /\ replyTo \in [ToolCalls -> {None, "no", "yes", "always"}]
  /\ executed \in [ToolCalls -> {ActionOf[c] : c \in ToolCalls} \cup {HookRewrite[ActionOf[c]] : c \in ToolCalls} \cup {None}]
  /\ parked \subseteq ToolCalls
  /\ answersSent \subseteq [call : ToolCalls, yes : BOOLEAN, always : BOOLEAN]
  /\ approvedCalls \subseteq ToolCalls

\* A call waits in the oracle only while it is asking, and has no reply then.
ParkedAsks == \A c \in parked : callAt[c] \in {"asked", "consulted"} /\ replyTo[c] = None

\* The allow-list, in memory and in the file, holds what the operator approved.
ListApproved == exactEntries \subseteq approvedForever /\ savedEntries \subseteq approvedForever

\* An answer on its way says what the operator said.
AnswersApproved ==
  \A s \in answersSent :
    /\ s.yes => s.call \in approvedCalls
    /\ s.yes /\ s.always => ActionOf[s.call] \in approvedForever

\* A reply of yes or always was given by the operator.
RepliesApproved ==
  \A c \in ToolCalls :
    /\ replyTo[c] \in {"yes", "always"} => c \in approvedCalls
    /\ replyTo[c] = "always" => ActionOf[c] \in approvedForever

\* A gated call that got past the gate was approved, itself or for good.
PermitsApproved ==
  \A c \in ToolCalls : callAt[c] = "permitted" /\ ActionOf[c] \in GatedActions =>
    replyTo[c] \in {"yes", "always"} \/ ActionOf[c] \in approvedForever

GauntletInv == /\ GauntletTyped /\ ParkedAsks /\ ListApproved /\ AnswersApproved
               /\ RepliesApproved /\ PermitsApproved /\ GateHolds

LEMMA GauntletStarts == GauntletInit => GauntletInv
BY GauntletAssumption DEF GauntletInit, GauntletInv, GauntletTyped, ParkedAsks, ListApproved, AnswersApproved,
       RepliesApproved, PermitsApproved, GateHolds, None, Over

\* One step of one call.
LEMMA ResolveKeeps == ASSUME GauntletInv, NEW c \in ToolCalls, Resolve(c) PROVE GauntletInv'
BY DEF GauntletInv, GauntletTyped, ParkedAsks, ListApproved, AnswersApproved, RepliesApproved,
       PermitsApproved, GateHolds, Resolve, StageTo, Decide, Allows, AllowsExact, None, Over, operatorVars, jobVars

LEMMA ParkKeeps == ASSUME GauntletInv, NEW c \in ToolCalls, Park(c) PROVE GauntletInv'
BY DEF GauntletInv, GauntletTyped, ParkedAsks, ListApproved, AnswersApproved, RepliesApproved,
       PermitsApproved, GateHolds, Park, StageTo, None, Over, operatorVars, jobVars

LEMMA AskTimesOutKeeps == ASSUME GauntletInv, NEW c \in ToolCalls, AskTimesOut(c) PROVE GauntletInv'
BY DEF GauntletInv, GauntletTyped, ParkedAsks, ListApproved, AnswersApproved, RepliesApproved,
       PermitsApproved, GateHolds, AskTimesOut, Told, Silence, None, Over, operatorVars, jobVars

LEMMA ResumeCallKeeps == ASSUME GauntletInv, NEW c \in ToolCalls, ResumeCall(c) PROVE GauntletInv'
BY DEF GauntletInv, GauntletTyped, ParkedAsks, ListApproved, AnswersApproved, RepliesApproved,
       PermitsApproved, GateHolds, ResumeCall, Remember, StageTo, None, Over, operatorVars, jobVars

LEMMA FinishCallKeeps == ASSUME GauntletInv, NEW c \in ToolCalls, FinishCall(c) PROVE GauntletInv'
BY DEF GauntletInv, GauntletTyped, ParkedAsks, ListApproved, AnswersApproved, RepliesApproved,
       PermitsApproved, GateHolds, FinishCall, StageTo, None, Over, operatorVars, jobVars

LEMMA RunPreToolKeeps ==
  ASSUME GauntletInv, NEW c \in ToolCalls, NEW veto \in BOOLEAN, RunPreTool(c, veto) PROVE GauntletInv'
BY GauntletAssumption
   DEF GauntletInv, GauntletTyped, ParkedAsks, ListApproved, AnswersApproved, RepliesApproved,
       PermitsApproved, GateHolds, RunPreTool, StageTo, None, Over, operatorVars, jobVars

\* The operator, the channel and the process.
LEMMA AnswerQuestionKeeps ==
  ASSUME GauntletInv, NEW c \in ToolCalls, NEW yes \in BOOLEAN, NEW always \in BOOLEAN,
         AnswerQuestion(c, yes, always)
  PROVE  GauntletInv'
BY DEF GauntletInv, GauntletTyped, ParkedAsks, ListApproved, AnswersApproved, RepliesApproved,
       PermitsApproved, GateHolds, AnswerQuestion, None, Over, operatorVars, jobVars

LEMMA DeliverAnswerKeeps ==
  ASSUME GauntletInv, NEW s \in answersSent, DeliverAnswer(s) PROVE GauntletInv'
BY DEF GauntletInv, GauntletTyped, ParkedAsks, ListApproved, AnswersApproved, RepliesApproved,
       PermitsApproved, GateHolds, DeliverAnswer, Told, None, Over, operatorVars, jobVars

LEMMA ChannelClosesKeeps == ASSUME GauntletInv, ChannelCloses PROVE GauntletInv'
BY DEF GauntletInv, GauntletTyped, ParkedAsks, ListApproved, AnswersApproved, RepliesApproved,
       PermitsApproved, GateHolds, ChannelCloses, Abandoned, Silence, None, Over, operatorVars, jobVars

LEMMA JobDiesKeeps == ASSUME GauntletInv, NEW mode \in {"act", "plan"}, JobDies(mode) PROVE GauntletInv'
BY DEF GauntletInv, GauntletTyped, ParkedAsks, ListApproved, AnswersApproved, RepliesApproved,
       PermitsApproved, GateHolds, JobDies, None, Over, operatorVars, jobVars

\* Whatever happens next, the yes is still the operator's.
LEMMA GauntletGoesOn == GauntletInv /\ [GauntletNext]_gauntletVars => GauntletInv'
<1> SUFFICES ASSUME GauntletInv, [GauntletNext]_gauntletVars PROVE GauntletInv'
  OBVIOUS
<1>1. ASSUME NEW c \in ToolCalls, GauntletStep(c) PROVE GauntletInv'
  BY <1>1, ResolveKeeps, ParkKeeps, AskTimesOutKeeps, ResumeCallKeeps, FinishCallKeeps, RunPreToolKeeps DEF GauntletStep
<1>2. CASE Halt
  BY <1>2 DEF Halt, GauntletInv, GauntletTyped, ParkedAsks, ListApproved, AnswersApproved,
              RepliesApproved, PermitsApproved, GateHolds, operatorVars
<1>3. CASE UNCHANGED gauntletVars
  BY <1>3 DEF gauntletVars, GauntletInv, GauntletTyped, ParkedAsks, ListApproved, AnswersApproved,
              RepliesApproved, PermitsApproved, GateHolds
<1> QED
  BY <1>1, <1>2, <1>3, AnswerQuestionKeeps, DeliverAnswerKeeps, ChannelClosesKeeps, JobDiesKeeps DEF GauntletNext

\* permissions.py, oracle.py, allowlist.py: every yes inside the process is one
\* the operator gave, in every reachable state.
THEOREM GauntletShape == GauntletSpec => []GauntletInv
BY GauntletStarts, GauntletGoesOn, PTL DEF GauntletSpec

\* dispatch_tool(): a gated action runs only on the operator's own yes, for any
\* calls of any batches, hooks that keep their rule, and any number of deaths.
THEOREM GateAlwaysHolds == GauntletSpec => []GateHolds
<1>1. GauntletInv => GateHolds
  BY DEF GauntletInv
<1> QED BY <1>1, GauntletShape, PTL
-----------------------------------------------------------------------------
(* Project tasks.  The folder is held through the claims of the Workshop: a *)
(* Cell or an apply without a claim of its own would be a second writer.   *)

Statuses == {"none", "queued", "staging", "running", "cancelled", "blocked", "succeeded", "failed", "reconciling"}
Places == {"none", "lock", "claim", "read", "copy", "work", "record", "finish", "checkpoint"}

TaskRecords == [status : Statuses, cancelled : BOOLEAN, canon : Nat, base : Nat, rev : Nat, handoff : Nat]
OperationRecords == [at : {"none", "claim", "apply", "settle"}, status : {"none", "prepared", "complete", "reconciling"},
                     kind : {"integrate", "rollback"}, from : Claimants \cup {"none"}, before : Nat, after : Nat]

ProjectTyped ==
  /\ task \in [Tasks -> TaskRecords]
  /\ taskJob \in [Tasks -> Places]
  /\ claim \in [Claimants -> {"none", "running", "interrupted", "done"}]
  /\ cell \subseteq Tasks /\ folder \in Nat /\ written \in Nat /\ checkpointRev \in Nat
  /\ artifact \in [Tasks -> Nat]
  /\ operation \in [Operations -> OperationRecords]

\* One claim at a time covers whoever works: a task from the moment it may read
\* the folder, its Cell for as long as it may be alive, an operation that applies.
Covered ==
  /\ \A c, d \in Claimed : c = d
  /\ \A t \in cell : t \in Claimed
  /\ \A t \in Tasks : taskJob[t] \in {"read", "copy", "work", "record", "finish"} => claim[t] = "running"
  /\ \A t \in Tasks : taskJob[t] \in {"record", "finish", "checkpoint"} => t \notin cell
  /\ \A o \in Operations : operation[o].at \in {"apply", "settle"} => claim[o] = "running"

\* The status of a task fits the place its job has reached.
Placed ==
  \A t \in Tasks :
    /\ taskJob[t] \in {"lock", "claim", "read", "copy"} => task[t].status = "staging"
    /\ taskJob[t] \in {"work", "record"} => task[t].status = "running"
    /\ taskJob[t] \in {"finish", "checkpoint"} => task[t].status \in {"cancelled", "succeeded", "failed"}

\* Once a task was taken its predecessors have recorded their results for good.
Settled ==
  \A t \in Tasks : task[t].status \in {"staging", "running", "succeeded"} =>
    \A d \in DependsOn[t] : task[d].status \in {"succeeded", "reconciling"}

ProjectInv == ProjectTyped /\ Covered /\ Placed /\ Settled /\ DependentExact

LEMMA ProjectStarts == ProjectInit => ProjectInv
BY ProjectAssumption
   DEF ProjectInit, ProjectInv, ProjectTyped, TaskRecords, OperationRecords, Covered, Placed, Settled, DependentExact, Claimed, Claimants,
       NewTask, NewOperation, Statuses, Places

\* What changing two fields of one record leaves alone.
LEMMA StatusAndRev ==
  ASSUME ProjectTyped, NEW t \in Tasks, NEW w \in Statuses, NEW r \in Nat,
         task' = [task EXCEPT ![t].status = w, ![t].rev = r]
  PROVE  /\ task' \in [Tasks -> TaskRecords]
         /\ task'[t].status = w /\ task'[t].rev = r /\ task'[t].base = task[t].base
         /\ \A u \in Tasks \ {t} : task'[u] = task[u]
<1> DEFINE new == [task[t] EXCEPT !.status = w, !.rev = r]
<1>1. task[t] \in TaskRecords
  BY DEF ProjectTyped
<1>2. new \in TaskRecords /\ new.status = w /\ new.rev = r /\ new.base = task[t].base
  BY <1>1 DEF TaskRecords
<1>3. task' = [task EXCEPT ![t] = new]
  BY DEF ProjectTyped
<1> HIDE DEF new
<1> QED BY ZenonT(60), <1>2, <1>3 DEF ProjectTyped

LEMMA StatusAndBase ==
  ASSUME ProjectTyped, NEW t \in Tasks, NEW w \in Statuses, NEW b \in Nat,
         task' = [task EXCEPT ![t].status = w, ![t].base = b]
  PROVE  /\ task' \in [Tasks -> TaskRecords]
         /\ task'[t].status = w /\ task'[t].base = b /\ task'[t].rev = task[t].rev
         /\ \A u \in Tasks \ {t} : task'[u] = task[u]
<1> DEFINE new == [task[t] EXCEPT !.status = w, !.base = b]
<1>1. task[t] \in TaskRecords
  BY DEF ProjectTyped
<1>2. new \in TaskRecords /\ new.status = w /\ new.base = b /\ new.rev = task[t].rev
  BY <1>1 DEF TaskRecords
<1>3. task' = [task EXCEPT ![t] = new]
  BY DEF ProjectTyped
<1> HIDE DEF new
<1> QED BY ZenonT(60), <1>2, <1>3 DEF ProjectTyped

LEMMA StatusAndStop ==
  ASSUME ProjectTyped, NEW t \in Tasks, NEW w \in Statuses,
         task' = [task EXCEPT ![t].cancelled = TRUE, ![t].status = w]
  PROVE  /\ task' \in [Tasks -> TaskRecords]
         /\ task'[t].status = w /\ task'[t].base = task[t].base /\ task'[t].rev = task[t].rev
         /\ \A u \in Tasks \ {t} : task'[u] = task[u]
<1> DEFINE new == [task[t] EXCEPT !.cancelled = TRUE, !.status = w]
<1>1. task[t] \in TaskRecords
  BY DEF ProjectTyped
<1>2. new \in TaskRecords /\ new.status = w /\ new.base = task[t].base /\ new.rev = task[t].rev
  BY <1>1 DEF TaskRecords
<1>3. task' = [task EXCEPT ![t] = new]
  BY DEF ProjectTyped
<1> HIDE DEF new
<1> QED BY ZenonT(60), <1>2, <1>3 DEF ProjectTyped

LEMMA OperationGoes ==
  ASSUME ProjectTyped, NEW o \in Operations, NEW place \in {"none", "claim", "apply", "settle"},
         NEW w \in {"none", "prepared", "complete", "reconciling"},
         operation' = [operation EXCEPT ![o].at = place, ![o].status = w]
  PROVE  /\ operation' \in [Operations -> OperationRecords] /\ operation'[o].at = place
         /\ \A p \in Operations \ {o} : operation'[p] = operation[p]
<1> DEFINE new == [operation[o] EXCEPT !.at = place, !.status = w]
<1>1. operation[o] \in OperationRecords
  BY DEF ProjectTyped
<1>2. new \in OperationRecords /\ new.at = place
  BY <1>1 DEF OperationRecords
<1>3. operation' = [operation EXCEPT ![o] = new]
  BY DEF ProjectTyped
<1> HIDE DEF new
<1> QED BY ZenonT(60), <1>2, <1>3 DEF ProjectTyped

LEMMA DelegateKeeps == ASSUME ProjectInv, NEW t \in Tasks, Delegate(t) PROVE ProjectInv'
BY SMTT(60), ProjectAssumption
   DEF Delegate, ProjectInv, ProjectTyped, TaskRecords, OperationRecords, Covered, Placed, Settled, DependentExact, Claimed, Claimants,
       JobGoes, TaskEnds, Statuses, Places

LEMMA TakeTaskKeeps == ASSUME ProjectInv, NEW t \in Tasks, TakeTask(t) PROVE ProjectInv'
BY SMTT(60), ProjectAssumption
   DEF TakeTask, Ready, ProjectInv, ProjectTyped, TaskRecords, OperationRecords, Covered, Placed, Settled, DependentExact, Claimed, Claimants,
       JobGoes, TaskEnds, Statuses, Places

LEMMA BlockTaskKeeps == ASSUME ProjectInv, NEW t \in Tasks, BlockTask(t) PROVE ProjectInv'
BY SMTT(60), ProjectAssumption
   DEF BlockTask, Ready, ProjectInv, ProjectTyped, TaskRecords, OperationRecords, Covered, Placed, Settled, DependentExact, Claimed, Claimants,
       JobGoes, TaskEnds, Statuses, Places

LEMMA LockProjectKeeps == ASSUME ProjectInv, NEW t \in Tasks, LockProject(t) PROVE ProjectInv'
<1>1. CASE lockHolder = {} /\ lockHolder' = {t} /\ JobGoes(t, "claim") /\ UNCHANGED task
  BY <1>1, ProjectAssumption DEF LockProject, ProjectInv, ProjectTyped, TaskRecords, OperationRecords, Covered, Placed, Settled, DependentExact, Claimed, Claimants,
              JobGoes, TaskEnds, Statuses, Places
<1>2. CASE /\ task[t].cancelled
           /\ TaskEnds(t) /\ task' = [task EXCEPT ![t].status = "cancelled"]
  BY SMTT(60), <1>2, ProjectAssumption DEF LockProject, ProjectInv, ProjectTyped, TaskRecords, OperationRecords, Covered, Placed, Settled, DependentExact, Claimed, Claimants,
              JobGoes, TaskEnds, Statuses, Places
<1> QED BY <1>1, <1>2 DEF LockProject

\* A task that fails keeps its claim and loses its result.
LEMMA HoldKeeps ==
  ASSUME ProjectInv, NEW t \in Tasks, taskJob[t] \notin {"none", "lock"}, Hold(t) PROVE ProjectInv'
<1>1. /\ task' \in [Tasks -> TaskRecords] /\ task'[t].status = "reconciling" /\ task'[t].rev = 0
      /\ \A u \in Tasks \ {t} : task'[u] = task[u]
  BY ZenonT(60), StatusAndRev DEF Hold, ProjectInv, Statuses
<1>2. /\ taskJob' = [taskJob EXCEPT ![t] = "none"]
      /\ claim' = [claim EXCEPT ![t] = IF @ = "running" THEN "interrupted" ELSE @]
      /\ UNCHANGED <<cell, folder, artifact, written, operation, checkpointRev>>
  BY DEF Hold, TaskEnds, JobGoes
<1>3. ProjectTyped'
  BY <1>1, <1>2 DEF ProjectInv, ProjectTyped, Places, Claimants
<1>4. Covered'
  BY <1>2, ProjectAssumption DEF ProjectInv, ProjectTyped, Covered, Claimed, Claimants, Places
<1>5. Placed'
  BY <1>1, <1>2 DEF ProjectInv, ProjectTyped, Placed, Places
<1>6. Settled' /\ DependentExact'
  BY <1>1, ProjectAssumption DEF ProjectInv, Settled, DependentExact
<1> QED BY SMTT(60), <1>3, <1>4, <1>5, <1>6 DEF ProjectInv

LEMMA ClaimFolderKeeps == ASSUME ProjectInv, NEW t \in Tasks, ClaimFolder(t) PROVE ProjectInv'
<1>1. CASE task[t].cancelled
  <2>1. /\ task[t].status = "staging" /\ taskJob' = [taskJob EXCEPT ![t] = "none"]
        /\ task' = [task EXCEPT ![t].status = "cancelled"]
        /\ UNCHANGED <<claim, cell, folder, artifact, written, operation, checkpointRev>>
    BY <1>1 DEF ClaimFolder, TaskEnds, JobGoes, ProjectInv, Placed
  <2> QED BY <2>1, ProjectAssumption DEF ProjectInv, ProjectTyped, TaskRecords, OperationRecords, Covered, Placed, Settled, DependentExact,
              Claimed, Claimants, JobGoes, TaskEnds, Statuses, Places
<1>2. CASE ~task[t].cancelled /\ ~ClaimFree(t)
  BY <1>2, HoldKeeps DEF ClaimFolder
<1>3. CASE ~task[t].cancelled /\ ClaimFree(t)
  <2>1. /\ task' = [task EXCEPT ![t].handoff = checkpointRev] /\ claim' = [claim EXCEPT ![t] = "running"]
        /\ taskJob[t] = "claim" /\ taskJob' = [taskJob EXCEPT ![t] = "read"] /\ Claimed = {}
        /\ UNCHANGED <<cell, folder, artifact, written, operation, checkpointRev>>
    BY <1>3 DEF ClaimFolder, ClaimFree, JobGoes
  <2>2. Claimed' = {t}
    BY <2>1 DEF ProjectInv, ProjectTyped, Claimed, Claimants
  <2>3. Covered'
    BY <2>1, <2>2, ProjectAssumption DEF ProjectInv, ProjectTyped, Covered, Claimed, Claimants, Places
  <2>4. ProjectTyped' /\ Placed' /\ Settled' /\ DependentExact'
    BY <2>1, ProjectAssumption DEF ProjectInv, ProjectTyped, TaskRecords, OperationRecords, Claimants,
                                   Placed, Settled, DependentExact, Statuses, Places
  <2> QED BY <2>3, <2>4 DEF ProjectInv
<1> QED BY <1>1, <1>2, <1>3

LEMMA ReadFolderKeeps == ASSUME ProjectInv, NEW t \in Tasks, ReadFolder(t) PROVE ProjectInv'
BY SMTT(60), ProjectAssumption
   DEF ReadFolder, ProjectInv, ProjectTyped, TaskRecords, OperationRecords, Covered, Placed, Settled, DependentExact, Claimed, Claimants,
       JobGoes, TaskEnds, Statuses, Places

LEMMA CellWritesKeeps == ASSUME ProjectInv, NEW t \in Tasks, CellWrites(t) PROVE ProjectInv'
BY ProjectAssumption
   DEF CellWrites, ProjectInv, ProjectTyped, TaskRecords, OperationRecords, Covered, Placed, Settled, DependentExact, Claimed, Claimants,
       JobGoes, TaskEnds, Statuses, Places

LEMMA CellReturnsKeeps == ASSUME ProjectInv, NEW t \in Tasks, CellReturns(t) PROVE ProjectInv'
BY ProjectAssumption
   DEF CellReturns, ProjectInv, ProjectTyped, TaskRecords, OperationRecords, Covered, Placed, Settled, DependentExact, Claimed, Claimants,
       JobGoes, TaskEnds, Statuses, Places

LEMMA RecordResultKeeps == ASSUME ProjectInv, NEW t \in Tasks, RecordResult(t) PROVE ProjectInv'
<1>1. PICK w \in {"cancelled", "succeeded", "failed"} :
        task' = [task EXCEPT ![t].status = w, ![t].rev = artifact[t]]
  BY DEF RecordResult
<1>2. ProjectTyped' /\ Covered' /\ Placed'
  <2>1. artifact[t] \in Nat /\ w \in Statuses
    BY DEF ProjectInv, ProjectTyped, Statuses
  <2>2. /\ task' \in [Tasks -> TaskRecords] /\ task'[t].status = w
        /\ \A u \in Tasks \ {t} : task'[u] = task[u]
    BY <1>1, <2>1, StatusAndRev DEF ProjectInv
  <2>3. taskJob[t] = "record" /\ taskJob' = [taskJob EXCEPT ![t] = "finish"]
        /\ UNCHANGED <<claim, cell, folder, artifact, written, operation, checkpointRev>>
    BY DEF RecordResult, JobGoes
  <2> QED BY <2>2, <2>3, ProjectAssumption
       DEF ProjectInv, ProjectTyped, Covered, Placed, Claimed, Claimants, Places
<1>3. \A u \in Tasks : t \in DependsOn[u] => task[u].status \notin {"staging", "running", "succeeded"}
  BY DEF RecordResult, ProjectInv, Placed, Settled
<1>4. /\ task'[t].status = w /\ task'[t].rev = artifact[t] /\ task'[t].base = task[t].base
      /\ \A u \in Tasks \ {t} : task'[u] = task[u]
  BY <1>1 DEF ProjectInv, ProjectTyped
<1>5. task[t].status = "running" /\ t \notin DependsOn[t] /\ \A u \in Tasks : DependsOn[u] \subseteq Tasks
  BY <1>3, ProjectAssumption DEF RecordResult, ProjectInv, Placed
<1>6. Settled' /\ DependentExact'
  BY <1>3, <1>4, <1>5 DEF ProjectInv, Settled, DependentExact
<1> QED BY <1>2, <1>6 DEF ProjectInv

LEMMA FinishClaimKeeps == ASSUME ProjectInv, NEW t \in Tasks, FinishClaim(t) PROVE ProjectInv'
BY ProjectAssumption
   DEF FinishClaim, ProjectInv, ProjectTyped, TaskRecords, OperationRecords, Covered, Placed, Settled, DependentExact, Claimed, Claimants,
       JobGoes, TaskEnds, Statuses, Places

LEMMA SaveCheckpointKeeps == ASSUME ProjectInv, NEW t \in Tasks, SaveCheckpoint(t) PROVE ProjectInv'
BY ProjectAssumption
   DEF SaveCheckpoint, ProjectInv, ProjectTyped, TaskRecords, OperationRecords, Covered, Placed, Settled, DependentExact, Claimed, Claimants,
       JobGoes, TaskEnds, Statuses, Places

LEMMA StopTaskKeeps == ASSUME ProjectInv, NEW t \in Tasks, StopTask(t) PROVE ProjectInv'
<1>1. PICK w \in Statuses :
        /\ w = IF task[t].status = "queued" THEN "cancelled" ELSE task[t].status
        /\ task' = [task EXCEPT ![t].cancelled = TRUE, ![t].status = w]
  <2>1. task[t] \in TaskRecords
    BY DEF ProjectInv, ProjectTyped
  <2> QED BY <2>1 DEF StopTask, ProjectInv, ProjectTyped, TaskRecords, Statuses
<1>2. /\ task' \in [Tasks -> TaskRecords] /\ task'[t].status = w
      /\ task'[t].base = task[t].base /\ task'[t].rev = task[t].rev
      /\ \A u \in Tasks \ {t} : task'[u] = task[u]
  BY ZenonT(120), <1>1, StatusAndStop DEF ProjectInv
<1>3. UNCHANGED <<taskJob, claim, cell, folder, artifact, written, operation, checkpointRev>>
  BY DEF StopTask
<1>4. ProjectTyped' /\ Covered'
  BY <1>2, <1>3 DEF ProjectInv, ProjectTyped, Covered, Claimed
<1>5. Placed' /\ Settled' /\ DependentExact'
  BY <1>1, <1>2, <1>3, ProjectAssumption DEF ProjectInv, ProjectTyped, Placed, Settled, DependentExact
<1> QED BY <1>4, <1>5 DEF ProjectInv

LEMMA EditArtifactKeeps == ASSUME ProjectInv, NEW t \in Tasks, EditArtifact(t) PROVE ProjectInv'
BY ProjectAssumption
   DEF EditArtifact, ProjectInv, ProjectTyped, TaskRecords, OperationRecords, Covered, Placed, Settled, DependentExact, Claimed, Claimants,
       JobGoes, TaskEnds, Statuses, Places

\* A task starts from content that its predecessor's record stands for.
LEMMA SourceExact ==
  ASSUME ProjectInv, NEW t \in Tasks, SourceOf(t) # 0
  PROVE  SourceOf(t) \in Nat /\ \A d \in DependsOn[t] : task[d].rev # 0 => SourceOf(t) = task[d].rev
<1> DEFINE have == {d \in DependsOn[t] : task[d].rev # 0}
<1>1. IsFiniteSet(have) /\ have \subseteq Tasks
  <2>1. have \subseteq Tasks
    BY ProjectAssumption
  <2> QED BY <2>1, FS_Subset, ProjectAssumption
<1>2. have = {} \/ \E d \in have : have = {d}
  <2>1. Cardinality(have) \in Nat /\ (Cardinality(have) = 0 <=> have = {})
    BY <1>1, FS_EmptySet, FS_CardinalityType
  <2>2. Cardinality(have) = 1 => \E d : have = {d}
    BY <1>1, FS_Singleton
  <2>3. have = {} \/ ~(Cardinality(have) > 1)
    BY DEF SourceOf
  <2> QED BY <2>1, <2>2, <2>3
<1>3. CASE have = {}
  BY <1>3 DEF SourceOf, ProjectInv, ProjectTyped
<1>4. CASE \E d \in have : have = {d}
  <2>1. PICK d \in have : have = {d}
    BY SMTT(60), <1>4
  <2>2. (CHOOSE e \in have : TRUE) = d /\ have # {}
    BY SMTT(60), <2>1
  <2>3. SourceOf(t) = artifact[d] /\ artifact[d] = task[d].rev
    BY <2>2 DEF SourceOf
  <2>4. SourceOf(t) \in Nat
    BY <1>1, <2>1, <2>3 DEF ProjectInv, ProjectTyped
  <2> QED BY <2>1, <2>3, <2>4
<1> QED BY <1>2, <1>3, <1>4

LEMMA StageKeeps == ASSUME ProjectInv, NEW t \in Tasks, Stage(t) PROVE ProjectInv'
<1>1. CASE SourceOf(t) = 0
  BY <1>1, HoldKeeps DEF Stage
<1>2. CASE SourceOf(t) # 0
  <2>1. PICK s \in Nat : s = SourceOf(t) /\ \A d \in DependsOn[t] : task[d].rev # 0 => s = task[d].rev
    BY <1>2, SourceExact
  <2>2. /\ task' = [task EXCEPT ![t].status = "running", ![t].base = s]
        /\ artifact' = [artifact EXCEPT ![t] = s] /\ cell' = cell \union {t}
        /\ taskJob[t] = "copy" /\ taskJob' = [taskJob EXCEPT ![t] = "work"]
        /\ UNCHANGED <<claim, folder, written, operation, checkpointRev>>
    BY SMTT(60), <1>2, <2>1 DEF Stage, JobGoes
  <2>3. /\ task' \in [Tasks -> TaskRecords]
        /\ task'[t].status = "running" /\ task'[t].base = s /\ task'[t].rev = task[t].rev
        /\ \A u \in Tasks \ {t} : task'[u] = task[u]
    BY ZenonT(60), <2>2, StatusAndBase DEF ProjectInv, Statuses
  <2>4. ProjectTyped'
    BY <2>1, <2>2, <2>3 DEF ProjectInv, ProjectTyped, Places
  <2>5. Covered'
    BY <2>2, ProjectAssumption DEF ProjectInv, ProjectTyped, Covered, Claimed, Claimants, Places
  <2>6. Placed'
    BY <2>2, <2>3 DEF ProjectInv, ProjectTyped, Placed, Places
  <2>7. Settled'
    <3>1. task[t].status = "staging"
      BY <2>2 DEF ProjectInv, Placed
    <3> QED BY <2>3, <3>1, ProjectAssumption DEF ProjectInv, Settled
  <2>8. DependentExact'
    BY <2>1, <2>3, ProjectAssumption DEF ProjectInv, DependentExact
  <2> QED BY <2>4, <2>5, <2>6, <2>7, <2>8 DEF ProjectInv
<1> QED BY <1>1, <1>2

LEMMA HostDiesKeeps == ASSUME ProjectInv, HostDies PROVE ProjectInv'
<1>1. operation' \in [Operations -> OperationRecords] /\ \A o \in Operations : operation'[o].at = "none"
  BY ZenonT(60) DEF HostDies, ProjectInv, ProjectTyped, OperationRecords
<1>2. /\ taskJob' = [t \in Tasks |-> "none"]
      /\ UNCHANGED <<task, claim, cell, folder, artifact, written, checkpointRev>>
  BY DEF HostDies
<1> QED BY <1>1, <1>2 DEF ProjectInv, ProjectTyped, Covered, Placed, Settled, DependentExact, Claimed, Places

LEMMA EditFolderKeeps == ASSUME ProjectInv, EditFolder PROVE ProjectInv'
BY DEF EditFolder, ProjectInv, ProjectTyped, TaskRecords, OperationRecords, Covered, Placed, Settled, DependentExact, Claimed, Claimants,
       JobGoes, TaskEnds, Statuses, Places

LEMMA OperatorReconcilesKeeps == ASSUME ProjectInv, NEW c \in Claimants, OperatorReconciles(c) PROVE ProjectInv'
BY ProjectAssumption DEF OperatorReconciles, ProjectInv, ProjectTyped, TaskRecords, OperationRecords, Covered, Placed, Settled, DependentExact, Claimed, Claimants,
       JobGoes, TaskEnds, Statuses, Places

LEMMA ClaimForApplyKeeps == ASSUME ProjectInv, NEW o \in Operations, ClaimForApply(o) PROVE ProjectInv'
<1>1. UNCHANGED <<task, taskJob, cell, folder, artifact, written, checkpointRev>>
  BY DEF ClaimForApply
<1>2. CASE ClaimFree(o) /\ folder = operation[o].before
  <2>1. /\ operation' \in [Operations -> OperationRecords] /\ operation'[o].at = "apply"
        /\ \A p \in Operations \ {o} : operation'[p] = operation[p]
    BY <1>2, OperationGoes DEF ClaimForApply, ProjectInv
  <2>2. claim' = [claim EXCEPT ![o] = "running"] /\ Claimed = {}
    BY <1>2 DEF ClaimForApply, ClaimFree
  <2>3. Claimed' = {o}
    BY <2>2 DEF ProjectInv, ProjectTyped, Claimed, Claimants
  <2> QED BY <1>1, <2>1, <2>2, <2>3, ProjectAssumption
       DEF ProjectInv, ProjectTyped, Covered, Placed, Settled, DependentExact, Claimed, Claimants
<1>3. CASE ~(ClaimFree(o) /\ folder = operation[o].before)
  <2>1. operation' = [operation EXCEPT ![o].at = "none"] /\ UNCHANGED claim
    BY <1>3 DEF ClaimForApply
  <2> QED BY SMTT(60), <1>1, <2>1 DEF ProjectInv, ProjectTyped, OperationRecords, Covered, Placed, Settled, DependentExact, Claimed
<1> QED BY <1>2, <1>3

LEMMA ApplySnapshotKeeps == ASSUME ProjectInv, NEW o \in Operations, ApplySnapshot(o) PROVE ProjectInv'
<1>1. ProjectTyped'
  BY SMTT(60), ProjectAssumption DEF ApplySnapshot, ProjectInv, ProjectTyped, TaskRecords, OperationRecords, Claimed, Claimants, JobGoes, TaskEnds, Statuses, Places
<1>2. Covered'
  BY SMTT(60), ProjectAssumption DEF ApplySnapshot, ProjectInv, ProjectTyped, TaskRecords, OperationRecords, Claimed, Claimants, JobGoes, TaskEnds, Statuses, Places, Covered, Placed
<1>3. Placed'
  BY ProjectAssumption DEF ApplySnapshot, ProjectInv, ProjectTyped, TaskRecords, OperationRecords, Claimed, Claimants, JobGoes, TaskEnds, Statuses, Places, Placed
<1>4. Settled'
  BY ProjectAssumption DEF ApplySnapshot, ProjectInv, ProjectTyped, TaskRecords, OperationRecords, Claimed, Claimants, JobGoes, TaskEnds, Statuses, Places, Placed, Settled
<1>5. DependentExact'
  BY ProjectAssumption DEF ApplySnapshot, ProjectInv, ProjectTyped, TaskRecords, OperationRecords, Claimed, Claimants, JobGoes, TaskEnds, Statuses, Places, Placed, Settled, DependentExact
<1> QED BY <1>1, <1>2, <1>3, <1>4, <1>5 DEF ProjectInv

LEMMA SettleOperationKeeps == ASSUME ProjectInv, NEW o \in Operations, SettleOperation(o) PROVE ProjectInv'
<1>1. /\ operation' \in [Operations -> OperationRecords] /\ operation'[o].at = "none"
      /\ \A p \in Operations \ {o} : operation'[p] = operation[p]
  BY ZenonT(60), OperationGoes DEF SettleOperation, ProjectInv
<1>2. /\ claim[o] = "running" /\ claim' = [claim EXCEPT ![o] = "done"]
      /\ UNCHANGED <<task, taskJob, cell, folder, artifact, written, checkpointRev>>
  BY DEF SettleOperation, ProjectInv, Covered
<1> QED BY SMTT(60), <1>1, <1>2, ProjectAssumption
     DEF ProjectInv, ProjectTyped, Covered, Placed, Settled, DependentExact, Claimed, Claimants

LEMMA IntegrateKeeps ==
  ASSUME ProjectInv, NEW o \in Operations, NEW t \in Tasks, Integrate(o, t) PROVE ProjectInv'
BY ProjectAssumption DEF Integrate, ProjectInv, ProjectTyped, TaskRecords, OperationRecords, Covered, Placed, Settled, DependentExact, Claimed, Claimants,
       JobGoes, TaskEnds, Statuses, Places

LEMMA RollbackKeeps ==
  ASSUME ProjectInv, NEW o \in Operations, NEW p \in Operations, Rollback(o, p) PROVE ProjectInv'
BY ProjectAssumption DEF Rollback, ProjectInv, ProjectTyped, TaskRecords, OperationRecords, Covered, Placed, Settled, DependentExact, Claimed, Claimants,
       JobGoes, TaskEnds, Statuses, Places

\* Whichever party moves, the claims still cover everybody who works.
LEMMA ProjectGoesOn == ProjectInv /\ [ProjectNext]_projectVars => ProjectInv'
<1> SUFFICES ASSUME ProjectInv, [ProjectNext]_projectVars PROVE ProjectInv'
  OBVIOUS
<1>1. ASSUME NEW t \in Tasks, TaskFails(t) PROVE ProjectInv'
  BY <1>1, HoldKeeps DEF TaskFails
<1>2. CASE UNCHANGED projectVars
  BY <1>2 DEF projectVars, ProjectInv, ProjectTyped, TaskRecords, OperationRecords, Covered, Placed, Settled, DependentExact, Claimed, Claimants,
       JobGoes, TaskEnds, Statuses, Places
<1> QED
  BY <1>1, <1>2, DelegateKeeps, TakeTaskKeeps, BlockTaskKeeps, LockProjectKeeps, ClaimFolderKeeps,
     ReadFolderKeeps, StageKeeps, CellWritesKeeps, CellReturnsKeeps, RecordResultKeeps, FinishClaimKeeps,
     SaveCheckpointKeeps, StopTaskKeeps, EditArtifactKeeps, HostDiesKeeps, EditFolderKeeps,
     OperatorReconcilesKeeps, ClaimForApplyKeeps, ApplySnapshotKeeps, SettleOperationKeeps,
     IntegrateKeeps, RollbackKeeps DEF ProjectNext

\* The claim covers at most one party, so at most one works.
LEMMA CoveredAlone == ProjectInv => OneWriter
<1> DEFINE applying == {o \in Operations : operation[o].at \in {"apply", "settle"}}
           writers == cell \cup applying
<1> SUFFICES ASSUME ProjectInv PROVE Cardinality(writers) <= 1
  BY DEF OneWriter
<1>1. \A x, y \in writers : x = y
  BY DEF ProjectInv, ProjectTyped, TaskRecords, OperationRecords, Covered, Claimed, Claimants
<1>2. CASE writers = {}
  BY <1>2, FS_EmptySet
<1>3. CASE writers # {}
  <2>1. PICK x : writers = {x}
    BY <1>1, <1>3
  <2> QED BY <2>1, FS_Singleton
<1> QED BY <1>2, <1>3

\* projects.py, workshop.py: claims, places and records agree in every
\* reachable state of any tasks, dependencies and operations.
THEOREM ProjectShape == ProjectSpec => []ProjectInv
BY ProjectStarts, ProjectGoesOn, PTL DEF ProjectSpec

\* "One writer per project": a Cell that may be alive excludes every other task
\* and every integration, through failures, stops and deaths of the host.
THEOREM OneWriterAlways == ProjectSpec => []OneWriter
BY ProjectShape, CoveredAlone, PTL

\* A dependent task worked from exactly what its predecessor recorded.
THEOREM DependentAlwaysExact == ProjectSpec => []DependentExact
<1>1. ProjectInv => DependentExact
  BY DEF ProjectInv
<1> QED BY <1>1, ProjectShape, PTL

-----------------------------------------------------------------------------
(* Deployments and pull requests.  A deployment has one approval that drives *)
(* it, so what settles it speaks for it; a pull request records each phase   *)
(* before it acts, so a failure knows whether anything may have left.        *)

PlanStatus == {"none", "awaiting", "rejected", "executing", "reconciling", "complete", "failed"}
Plan == [status : PlanStatus, version : Nat, source : Nat, operator : BOOLEAN]
Pull == [status : {"none", "executing", "complete", "failed", "reconciling"},
         phase : {"none", "pushing", "opening"}, at : {"none", "commit", "push", "post", "answer"}]
Approval == [at : {"none", "commit", "deploy", "verify"}, of : Deploys \cup {"none"}]
Driving == {"deploy", "verify"}

ReleaseTyped ==
  /\ review \in [version : Nat, verdict : {"none", "accepted", "changes"}] /\ sourceRev \in Nat
  /\ release \in [Deploys -> Plan]
  /\ approval \in [Approvals -> Approval]
  /\ launched \subseteq Deploys
  /\ pull \in [Pulls -> Pull]
  /\ effects \in [Deploys \cup Pulls -> Nat]

\* A plan's status and its command say whether it may have taken effect.
DeployTrue ==
  \A r \in Deploys :
    /\ release[r].status \in {"none", "awaiting", "rejected"} =>
         effects[r] = 0 /\ r \notin launched /\ ~release[r].operator
    /\ r \in launched => effects[r] = 0 /\ release[r].status \in {"executing", "reconciling"}
    /\ effects[r] <= 1
    /\ release[r].status \in {"executing", "reconciling"} => ~release[r].operator
    /\ release[r].status = "complete" /\ ~release[r].operator => effects[r] = 1
    /\ release[r].status = "failed" => release[r].operator

\* The approval that wrote the receipt is the only one that drives the plan.
ApprovalsApart ==
  /\ \A a \in Approvals : approval[a].at # "none" => approval[a].of \in Deploys
  /\ \A a \in Approvals : approval[a].at \in Driving => release[approval[a].of].status = "executing"
  /\ \A a \in Approvals : approval[a].at = "deploy" =>
       approval[a].of \notin launched /\ effects[approval[a].of] = 0
  /\ \A a, b \in Approvals :
       approval[a].at \in Driving /\ approval[b].at \in Driving /\ approval[a].of = approval[b].of => a = b

\* Where a pull request is tells what GitHub has seen of it.
PullTrue ==
  \A p \in Pulls :
    /\ effects[p] <= 1
    /\ pull[p].status = "none" => effects[p] = 0
    /\ pull[p].at # "none" => pull[p].status = "executing"
    /\ pull[p].at = "commit" => effects[p] = 0
    /\ pull[p].at \in {"push", "post"} => effects[p] = 0 /\ pull[p].phase # "none"
    /\ pull[p].at = "answer" => effects[p] = 1 /\ pull[p].phase # "none"
    /\ pull[p].status = "complete" => effects[p] = 1
    /\ pull[p].status = "failed" => effects[p] = 0

ReleaseInv == ReleaseTyped /\ DeployTrue /\ ApprovalsApart /\ PullTrue

\* What a step leaves alone it keeps true.
LEMMA DeploysKeep ==
  ASSUME ReleaseInv, UNCHANGED <<review, sourceRev, release, approval, launched>>,
         pull' \in [Pulls -> Pull], effects' \in [Deploys \cup Pulls -> Nat],
         \A r \in Deploys : effects'[r] = effects[r], PullTrue'
  PROVE  ReleaseInv'
BY DEF ReleaseInv, ReleaseTyped, DeployTrue, ApprovalsApart

LEMMA PullsKeep ==
  ASSUME ReleaseInv, UNCHANGED pull, \A p \in Pulls : effects'[p] = effects[p]
  PROVE  PullTrue'
BY DEF ReleaseInv, PullTrue

\* One plan changes its status.
LEMMA PlanMoves ==
  ASSUME release \in [Deploys -> Plan], NEW r \in Deploys, NEW s \in PlanStatus,
         release' = [release EXCEPT ![r].status = s]
  PROVE  /\ release' \in [Deploys -> Plan]
         /\ release'[r].status = s /\ release'[r].operator = release[r].operator
         /\ \A q \in Deploys \ {r} : release'[q] = release[q]
<1>1. release[r] \in Plan /\ release'[r] = [release[r] EXCEPT !.status = s]
  OBVIOUS
<1>2. [release[r] EXCEPT !.status = s] \in Plan
      /\ [release[r] EXCEPT !.status = s].status = s
      /\ [release[r] EXCEPT !.status = s].operator = release[r].operator
  BY <1>1, Zenon DEF Plan
<1> QED BY <1>1, <1>2

\* One approval moves on.
LEMMA ApprovalMoves ==
  ASSUME approval \in [Approvals -> Approval], NEW a \in Approvals,
         NEW s \in {"none", "commit", "deploy", "verify"}, approval' = [approval EXCEPT ![a].at = s]
  PROVE  /\ approval' \in [Approvals -> Approval]
         /\ approval'[a].at = s /\ approval'[a].of = approval[a].of
         /\ \A b \in Approvals \ {a} : approval'[b] = approval[b]
BY DEF Approval

\* One approval ends.
LEMMA ApprovalEnds ==
  ASSUME approval \in [Approvals -> Approval], NEW a \in Approvals,
         approval' = [approval EXCEPT ![a] = NoApproval]
  PROVE  /\ approval' \in [Approvals -> Approval]
         /\ approval'[a].at = "none"
         /\ \A b \in Approvals \ {a} : approval'[b] = approval[b]
BY DEF Approval, NoApproval

LEMMA ReleaseStarts ==
  ASSUME ReleaseInit PROVE ReleaseInv
<1>1. ReleaseTyped
  <2>1. NoPlan \in Plan
    BY DEF NoPlan, Plan, PlanStatus
  <2>2. NoPull \in Pull /\ NoApproval \in Approval
    BY DEF NoPull, Pull, NoApproval, Approval
  <2> QED BY <2>1, <2>2 DEF ReleaseInit, ReleaseTyped
<1>2. DeployTrue
  BY DEF ReleaseInit, DeployTrue, NoPlan
<1>3. ApprovalsApart /\ PullTrue
  BY DEF ReleaseInit, ApprovalsApart, PullTrue, NoApproval, NoPull, Driving
<1> QED BY <1>1, <1>2, <1>3 DEF ReleaseInv

\* The steps of a deployment.
LEMMA DeployStep ==
  ASSUME ReleaseInv,
         \/ \E r \in Deploys : Prepare(r) \/ Reject(r) \/ DriverActs(r) \/ Reconcile(r)
         \/ \E a \in Approvals :
              CommitApproval(a) \/ Launch(a) \/ SettleDeploy(a) \/ \E r \in Deploys : CheckPlan(a, r)
  PROVE  ReleaseInv'
<1>t. /\ review \in [version : Nat, verdict : {"none", "accepted", "changes"}] /\ sourceRev \in Nat
      /\ release \in [Deploys -> Plan] /\ approval \in [Approvals -> Approval]
      /\ launched \subseteq Deploys /\ pull \in [Pulls -> Pull]
      /\ effects \in [Deploys \cup Pulls -> Nat]
      /\ DeployTrue /\ ApprovalsApart
  BY DEF ReleaseInv, ReleaseTyped
<1>d. \A r \in Deploys : r \notin Pulls
  BY ReleaseAssumption
<1>u. UNCHANGED <<review, sourceRev, pull>>
  BY DEF Prepare, Reject, DriverActs, Reconcile, CommitApproval, Launch, SettleDeploy, CheckPlan
<1>p. ASSUME effects' = effects PROVE PullTrue'
  BY <1>u, <1>p, PullsKeep
\* A step that changes one plan and no approval of it.
<1>f. ASSUME release' \in [Deploys -> Plan], approval' \in [Approvals -> Approval],
             launched' \subseteq Deploys, effects' = effects, DeployTrue', ApprovalsApart'
      PROVE  ReleaseInv'
  BY <1>t, <1>u, <1>p, <1>f DEF ReleaseInv, ReleaseTyped
<1>1. ASSUME NEW r \in Deploys, Prepare(r) PROVE ReleaseInv'
  <2> DEFINE new == [status |-> "awaiting", version |-> review.version,
                     source |-> sourceRev, operator |-> FALSE]
  <2>1. release' = [release EXCEPT ![r] = new] /\ UNCHANGED <<approval, launched, effects>>
        /\ release[r].status = "none"
    BY <1>1 DEF Prepare
  <2>2. new \in Plan /\ new.status = "awaiting" /\ ~new.operator
    BY <1>t DEF Plan, PlanStatus
  <2> HIDE DEF new
  <2>3. /\ release' \in [Deploys -> Plan] /\ release'[r] = new
        /\ \A q \in Deploys \ {r} : release'[q] = release[q]
    BY <1>t, <2>1, <2>2
  <2>4. DeployTrue'
    BY <1>t, <2>1, <2>2, <2>3 DEF DeployTrue
  <2>5. ApprovalsApart'
    BY <1>t, <2>1, <2>3 DEF ApprovalsApart, Driving
  <2> QED BY <1>f, <1>t, <2>1, <2>3, <2>4, <2>5
<1>2. ASSUME NEW r \in Deploys, Reject(r) PROVE ReleaseInv'
  <2>1. release' = [release EXCEPT ![r].status = "rejected"] /\ UNCHANGED <<approval, launched, effects>>
        /\ release[r].status = "awaiting"
    BY <1>2 DEF Reject
  <2>2. /\ release' \in [Deploys -> Plan]
        /\ release'[r].status = "rejected" /\ release'[r].operator = release[r].operator
        /\ \A q \in Deploys \ {r} : release'[q] = release[q]
    BY <1>t, <2>1, PlanMoves DEF PlanStatus
  <2>4. DeployTrue'
    BY <1>t, <2>1, <2>2 DEF DeployTrue
  <2>5. ApprovalsApart'
    BY <1>t, <2>1, <2>2 DEF ApprovalsApart, Driving
  <2> QED BY <1>f, <1>t, <2>1, <2>2, <2>4, <2>5
<1>3. ASSUME NEW r \in Deploys, DriverActs(r) PROVE ReleaseInv'
  <2>1. /\ r \in launched /\ launched' = launched \ {r} /\ UNCHANGED <<release, approval>>
        /\ effects' = effects \/ effects' = [effects EXCEPT ![r] = @ + 1]
    BY <1>3 DEF DriverActs
  <2>2. effects[r] = 0 /\ release[r].status \in {"executing", "reconciling"} /\ ~release[r].operator
    BY <1>t, <2>1 DEF DeployTrue
  <2>3. /\ effects' \in [Deploys \cup Pulls -> Nat] /\ effects'[r] \in {0, 1}
        /\ \A x \in (Deploys \cup Pulls) \ {r} : effects'[x] = effects[x]
    BY <1>t, <2>1, <2>2
  <2>4. DeployTrue'
    BY <1>t, <2>1, <2>2, <2>3 DEF DeployTrue
  <2>5. ApprovalsApart'
    BY <1>t, <2>1, <2>3 DEF ApprovalsApart
  <2>6. PullTrue'
    BY <1>u, <1>d, <2>3, PullsKeep
  <2> QED BY <1>t, <1>u, <2>1, <2>3, <2>4, <2>5, <2>6 DEF ReleaseInv, ReleaseTyped
<1>4. ASSUME NEW r \in Deploys, Reconcile(r) PROVE ReleaseInv'
  <2>1. PICK s \in {"complete", "failed"} :
          release' = [release EXCEPT ![r].status = s, ![r].operator = TRUE]
    BY <1>4 DEF Reconcile
  <2>2. /\ release[r].status = "reconciling" /\ r \notin launched
        /\ UNCHANGED <<approval, launched, effects>>
    BY <1>4 DEF Reconcile
  <2>3. release[r] \in Plan /\ release'[r] = [release[r] EXCEPT !.status = s, !.operator = TRUE]
    BY <1>t, <2>1
  <2>4. release'[r] \in Plan /\ release'[r].status = s /\ release'[r].operator
    <3>1. s \in PlanStatus
      BY DEF PlanStatus
    <3> QED BY <2>3, <3>1, Zenon DEF Plan
  <2>5. release' \in [Deploys -> Plan] /\ \A q \in Deploys \ {r} : release'[q] = release[q]
    BY <1>t, <2>1, <2>4
  <2>6. DeployTrue'
    BY <1>t, <2>2, <2>4, <2>5 DEF DeployTrue
  <2>7. ApprovalsApart'
    BY <1>t, <2>2, <2>4, <2>5 DEF ApprovalsApart, Driving
  <2> QED BY <1>f, <1>t, <2>2, <2>5, <2>6, <2>7
<1>5. ASSUME NEW a \in Approvals, NEW r \in Deploys, CheckPlan(a, r) PROVE ReleaseInv'
  <2>1. /\ approval' = [approval EXCEPT ![a] = [at |-> "commit", of |-> r]]
        /\ UNCHANGED <<release, launched, effects>>
    BY <1>5 DEF CheckPlan
  <2>2. /\ approval' \in [Approvals -> Approval]
        /\ approval'[a].at = "commit" /\ approval'[a].of = r
        /\ \A b \in Approvals \ {a} : approval'[b] = approval[b]
    BY <1>t, <2>1 DEF Approval
  <2>3. DeployTrue'
    BY <1>t, <2>1 DEF DeployTrue
  <2>4. ApprovalsApart'
    BY <1>t, <2>1, <2>2 DEF ApprovalsApart, Driving
  <2> QED BY <1>f, <1>t, <2>1, <2>2, <2>3, <2>4
<1>6. ASSUME NEW a \in Approvals, CommitApproval(a) PROVE ReleaseInv'
  <2> DEFINE r == approval[a].of
  <2>0. approval[a].at = "commit" /\ r \in Deploys /\ UNCHANGED <<launched, effects>>
    BY <1>t, <1>6 DEF CommitApproval, ApprovalsApart
  <2>1. CASE approval' = [approval EXCEPT ![a] = NoApproval] /\ UNCHANGED release
    <3>1. /\ approval' \in [Approvals -> Approval] /\ approval'[a].at = "none"
          /\ \A b \in Approvals \ {a} : approval'[b] = approval[b]
      BY ZenonT(60), <1>t, <2>1, ApprovalEnds
    <3>2. DeployTrue'
      BY <1>t, <2>0, <2>1 DEF DeployTrue
    <3>3. ApprovalsApart'
      BY <1>t, <2>0, <2>1, <3>1 DEF ApprovalsApart, Driving
    <3> QED BY <1>f, <1>t, <2>0, <2>1, <3>1, <3>2, <3>3
  <2>2. CASE /\ release[r].status = "awaiting"
             /\ release' = [release EXCEPT ![r].status = "executing"]
             /\ approval' = [approval EXCEPT ![a].at = "deploy"]
    <3>1. /\ release' \in [Deploys -> Plan]
          /\ release'[r].status = "executing" /\ release'[r].operator = release[r].operator
          /\ \A q \in Deploys \ {r} : release'[q] = release[q]
      BY <1>t, <2>0, <2>2, PlanMoves DEF PlanStatus
    <3>2. /\ approval' \in [Approvals -> Approval]
          /\ approval'[a].at = "deploy" /\ approval'[a].of = r
          /\ \A b \in Approvals \ {a} : approval'[b] = approval[b]
      BY <1>t, <2>2, ApprovalMoves
    <3>3. DeployTrue'
      BY <1>t, <2>0, <2>2, <3>1 DEF DeployTrue
    <3>4. ApprovalsApart'
      BY <1>t, <2>0, <2>2, <3>1, <3>2 DEF ApprovalsApart, DeployTrue, Driving
    <3> QED BY <1>f, <1>t, <2>0, <3>1, <3>2, <3>3, <3>4
  <2> QED BY <1>6, <2>1, <2>2 DEF CommitApproval
<1>7. ASSUME NEW a \in Approvals, Launch(a) PROVE ReleaseInv'
  <2> DEFINE r == approval[a].of
  <2>0. /\ approval[a].at = "deploy" /\ launched' = launched \cup {r}
        /\ approval' = [approval EXCEPT ![a].at = "verify"] /\ UNCHANGED <<release, effects>>
    BY <1>7 DEF Launch
  <2>1. r \in Deploys /\ effects[r] = 0 /\ release[r].status = "executing"
    BY <1>t, <2>0 DEF ApprovalsApart, Driving
  <2>2. /\ approval' \in [Approvals -> Approval]
        /\ approval'[a].at = "verify" /\ approval'[a].of = r
        /\ \A b \in Approvals \ {a} : approval'[b] = approval[b]
    BY <1>t, <2>0, ApprovalMoves
  <2>3. DeployTrue'
    BY <1>t, <2>0, <2>1 DEF DeployTrue
  <2>4. ApprovalsApart'
    BY <1>t, <2>0, <2>1, <2>2 DEF ApprovalsApart, Driving
  <2> QED BY <1>f, <1>t, <2>0, <2>1, <2>2, <2>3, <2>4
<1>8. ASSUME NEW a \in Approvals, SettleDeploy(a) PROVE ReleaseInv'
  <2> DEFINE r == approval[a].of
  <2>0. approval[a].at \in Driving /\ UNCHANGED <<launched, effects>>
        /\ approval' = [approval EXCEPT ![a] = NoApproval]
    BY <1>8 DEF SettleDeploy, Driving
  <2>1. r \in Deploys /\ release[r].status = "executing"
    BY <1>t, <2>0 DEF ApprovalsApart, Driving
  <2>2. PICK s \in {"complete", "reconciling"} :
          /\ s = "complete" => r \notin launched /\ effects[r] > 0
          /\ release' = [release EXCEPT ![r].status = s]
    BY <1>8 DEF SettleDeploy
  <2>3. /\ release' \in [Deploys -> Plan]
        /\ release'[r].status = s /\ release'[r].operator = release[r].operator
        /\ \A q \in Deploys \ {r} : release'[q] = release[q]
    BY <1>t, <2>1, <2>2, PlanMoves DEF PlanStatus
  <2>4. /\ approval' \in [Approvals -> Approval] /\ approval'[a].at = "none"
        /\ \A b \in Approvals \ {a} : approval'[b] = approval[b]
    BY <1>t, <2>0, ApprovalEnds
  <2>5. effects[r] \in Nat /\ effects[r] <= 1
    BY <1>t, <2>1 DEF DeployTrue
  <2>6. DeployTrue'
    BY <1>t, <2>0, <2>1, <2>2, <2>3, <2>5 DEF DeployTrue
  <2>7. ApprovalsApart'
    BY <1>t, <2>0, <2>1, <2>3, <2>4 DEF ApprovalsApart, Driving
  <2> QED BY <1>f, <1>t, <2>0, <2>3, <2>4, <2>6, <2>7
<1> QED BY <1>1, <1>2, <1>3, <1>4, <1>5, <1>6, <1>7, <1>8

\* The steps of a pull request.
LEMMA PullStep ==
  ASSUME ReleaseInv, NEW p \in Pulls,
         \/ OpenPull(p) \/ CommitPull(p) \/ Push(p) \/ PostPull(p) \/ SettlePull(p)
         \/ PullFails(p) \/ ReconcilePull(p)
  PROVE  ReleaseInv'
<1>t. /\ pull \in [Pulls -> Pull] /\ pull[p] \in Pull
      /\ effects \in [Deploys \cup Pulls -> Nat] /\ PullTrue
  BY DEF ReleaseInv, ReleaseTyped
<1>d. p \notin Deploys
  BY ReleaseAssumption
<1>u. UNCHANGED <<review, sourceRev, release, approval, launched>>
  BY DEF OpenPull, CommitPull, Push, PostPull, SettlePull, PullFails, ReconcilePull
<1>f. ASSUME NEW new \in Pull, pull' = [pull EXCEPT ![p] = new],
             \/ effects' = effects
             \/ pull[p].at = "post" /\ effects' = [effects EXCEPT ![p] = @ + 1],
             effects'[p] <= 1,
             new.status = "none" => effects'[p] = 0,
             new.at # "none" => new.status = "executing",
             new.at = "commit" => effects'[p] = 0,
             new.at \in {"push", "post"} => effects'[p] = 0 /\ new.phase # "none",
             new.at = "answer" => effects'[p] = 1 /\ new.phase # "none",
             new.status = "complete" => effects'[p] = 1,
             new.status = "failed" => effects'[p] = 0
      PROVE  ReleaseInv'
  <2>1. /\ pull' \in [Pulls -> Pull] /\ pull'[p] = new
        /\ \A q \in Pulls \ {p} : pull'[q] = pull[q]
    BY <1>t, <1>f
  <2>2. /\ effects' \in [Deploys \cup Pulls -> Nat]
        /\ \A x \in (Deploys \cup Pulls) \ {p} : effects'[x] = effects[x]
    BY <1>t, <1>f
  <2>3. PullTrue'
    BY <1>t, <1>f, <2>1, <2>2 DEF PullTrue
  <2> QED BY <1>d, <1>u, <2>1, <2>2, <2>3, DeploysKeep
<1>e. effects[p] \in Nat /\ effects[p] <= 1
  BY <1>t DEF PullTrue
<1>1. CASE OpenPull(p)
  <2> DEFINE new == [status |-> "executing", phase |-> "none", at |-> "commit"]
  <2>1. pull' = [pull EXCEPT ![p] = new] /\ effects' = effects /\ effects[p] = 0
    BY <1>t, <1>1 DEF OpenPull, PullTrue, NoPull
  <2>2. new \in Pull /\ new.at = "commit" /\ new.status = "executing"
    BY DEF Pull
  <2> HIDE DEF new
  <2> QED BY <1>e, <1>f, <2>1, <2>2
<1>2. CASE CommitPull(p)
  <2> DEFINE new == [pull[p] EXCEPT !.at = "push", !.phase = "pushing"]
  <2>1. pull' = [pull EXCEPT ![p] = new] /\ effects' = effects /\ pull[p].at = "commit"
    BY <1>2 DEF CommitPull
  <2>2. effects[p] = 0 /\ pull[p].status = "executing"
    BY <1>t, <2>1 DEF PullTrue
  <2>3. new \in Pull /\ new.at = "push" /\ new.phase = "pushing" /\ new.status = "executing"
    BY <1>t, <2>2 DEF Pull
  <2> HIDE DEF new
  <2> QED BY <1>e, <1>f, <2>1, <2>2, <2>3
<1>3. CASE Push(p)
  <2> DEFINE new == [pull[p] EXCEPT !.at = "post", !.phase = "opening"]
  <2>1. pull' = [pull EXCEPT ![p] = new] /\ effects' = effects /\ pull[p].at = "push"
    BY <1>3 DEF Push
  <2>2. effects[p] = 0 /\ pull[p].status = "executing"
    BY <1>t, <2>1 DEF PullTrue
  <2>3. new \in Pull /\ new.at = "post" /\ new.phase = "opening" /\ new.status = "executing"
    BY <1>t, <2>2 DEF Pull
  <2> HIDE DEF new
  <2> QED BY <1>e, <1>f, <2>1, <2>2, <2>3
<1>4. CASE PostPull(p)
  <2> DEFINE new == [pull[p] EXCEPT !.at = "answer"]
  <2>1. /\ pull' = [pull EXCEPT ![p] = new] /\ pull[p].at = "post"
        /\ effects' = [effects EXCEPT ![p] = @ + 1]
    BY <1>4 DEF PostPull
  <2>2. effects[p] = 0 /\ pull[p].status = "executing" /\ pull[p].phase # "none"
    BY <1>t, <2>1 DEF PullTrue
  <2>3. new \in Pull /\ new.at = "answer" /\ new.phase = pull[p].phase /\ new.status = "executing"
    BY <1>t, <2>2 DEF Pull
  <2>4. effects'[p] = 1
    BY <1>t, <2>1, <2>2
  <2> HIDE DEF new
  <2>5. /\ effects'[p] <= 1 /\ new.status # "none" /\ new.phase # "none"
        /\ new.at \notin {"commit", "push", "post"} /\ new.status \notin {"complete", "failed"}
    BY <2>2, <2>3, <2>4
  <2> QED BY <1>f, <2>1, <2>3, <2>4, <2>5
<1>5. CASE SettlePull(p)
  <2> DEFINE new == [pull[p] EXCEPT !.at = "none", !.status = "complete"]
  <2>1. pull' = [pull EXCEPT ![p] = new] /\ effects' = effects /\ pull[p].at = "answer"
    BY <1>5 DEF SettlePull
  <2>2. effects[p] = 1
    BY <1>t, <2>1 DEF PullTrue
  <2>3. new \in Pull /\ new.at = "none" /\ new.status = "complete"
    BY <1>t DEF Pull
  <2> HIDE DEF new
  <2> QED BY <1>e, <1>f, <2>1, <2>2, <2>3
<1>6. CASE PullFails(p)
  <2> DEFINE s == IF pull[p].phase = "none" THEN "failed" ELSE "reconciling"
             new == [pull[p] EXCEPT !.at = "none", !.status = s]
  <2>1. pull' = [pull EXCEPT ![p] = new] /\ effects' = effects /\ pull[p].at # "none"
    BY <1>6 DEF PullFails
  <2>2. s \in {"failed", "reconciling"} /\ (s = "failed" => effects[p] = 0)
    BY <1>t, <2>1 DEF PullTrue, Pull
  <2>3. new \in Pull /\ new.at = "none" /\ new.status = s
    BY <1>t, <2>2 DEF Pull
  <2> HIDE DEF new
  <2> QED BY <1>e, <1>f, <2>1, <2>2, <2>3
<1>7. CASE ReconcilePull(p)
  <2> DEFINE new == [pull[p] EXCEPT !.status = "complete"]
  <2>1. /\ pull' = [pull EXCEPT ![p] = new] /\ effects' = effects
        /\ pull[p].status = "reconciling" /\ effects[p] > 0
    BY <1>7 DEF ReconcilePull
  <2>2. pull[p].at = "none" /\ effects[p] = 1
    BY <1>t, <1>e, <2>1 DEF PullTrue
  <2>3. new \in Pull /\ new.at = "none" /\ new.status = "complete"
    BY <1>t, <2>2 DEF Pull
  <2> HIDE DEF new
  <2> QED BY <1>e, <1>f, <2>1, <2>2, <2>3
<1> QED BY <1>1, <1>2, <1>3, <1>4, <1>5, <1>6, <1>7

\* A death of the process: nothing that was under way is called anything but unknown.
LEMMA RestartKeeps ==
  ASSUME ReleaseInv, RestartReleases
  PROVE  /\ ReleaseInv' /\ effects' = effects
         /\ \A r \in Deploys : /\ release'[r].operator = release[r].operator
                               /\ release'[r].status = IF release[r].status = "executing"
                                    THEN "reconciling" ELSE release[r].status
         /\ \A p \in Pulls : pull'[p].status = IF pull[p].status = "executing"
                                    THEN "reconciling" ELSE pull[p].status
<1>t. /\ release \in [Deploys -> Plan] /\ pull \in [Pulls -> Pull]
      /\ DeployTrue /\ PullTrue
  BY DEF ReleaseInv, ReleaseTyped
<1>u. UNCHANGED <<review, sourceRev, launched, effects>>
  BY Zenon DEF RestartReleases
<1>r. release' = [r \in Deploys |-> IF release[r].status = "executing"
                   THEN [release[r] EXCEPT !.status = "reconciling"] ELSE release[r]]
  BY Zenon DEF RestartReleases
<1>p. pull' = [p \in Pulls |-> IF pull[p].status = "executing"
                THEN [pull[p] EXCEPT !.status = "reconciling", !.at = "none"]
                ELSE [pull[p] EXCEPT !.at = "none"]]
  BY Zenon DEF RestartReleases
<1>1. ASSUME NEW r \in Deploys
      PROVE  /\ release'[r] \in Plan /\ release'[r].operator = release[r].operator
             /\ release'[r].status = IF release[r].status = "executing"
                  THEN "reconciling" ELSE release[r].status
  <2>1. release[r] \in Plan
    BY <1>t
  <2>2. CASE release[r].status = "executing"
    <3>1. release'[r] = [release[r] EXCEPT !.status = "reconciling"]
      BY <1>r, <2>2, Zenon
    <3>2. "reconciling" \in PlanStatus
      BY DEF PlanStatus
    <3>3. /\ [release[r] EXCEPT !.status = "reconciling"] \in Plan
          /\ [release[r] EXCEPT !.status = "reconciling"].operator = release[r].operator
          /\ [release[r] EXCEPT !.status = "reconciling"].status = "reconciling"
      BY <2>1, <3>2, Zenon DEF Plan
    <3> QED BY <2>2, <3>1, <3>3
  <2>3. CASE release[r].status # "executing"
    <3>1. release'[r] = release[r]
      BY <1>r, <2>3, Zenon
    <3> QED BY <2>1, <2>3, <3>1
  <2> QED BY <2>2, <2>3
<1>2. ASSUME NEW p \in Pulls
      PROVE  /\ pull'[p] \in Pull /\ pull'[p].at = "none"
             /\ pull'[p].status = IF pull[p].status = "executing"
                  THEN "reconciling" ELSE pull[p].status
  <2>1. pull[p] \in Pull
    BY <1>t
  <2>2. pull'[p] = IF pull[p].status = "executing"
                   THEN [pull[p] EXCEPT !.status = "reconciling", !.at = "none"]
                   ELSE [pull[p] EXCEPT !.at = "none"]
    BY <1>p, Zenon
  <2> QED BY <2>1, <2>2 DEF Pull
<1>3. release' \in [Deploys -> Plan] /\ pull' \in [Pulls -> Pull]
  <2>1. /\ release' = [r \in Deploys |-> release'[r]] /\ pull' = [p \in Pulls |-> pull'[p]]
    BY <1>r, <1>p, Zenon
  <2> QED BY <1>1, <1>2, <2>1
<1>4. approval' \in [Approvals -> Approval] /\ \A a \in Approvals : approval'[a].at = "none"
  <2>1. approval' = [a \in Approvals |-> NoApproval]
    BY Zenon DEF RestartReleases
  <2> QED BY <2>1 DEF NoApproval, Approval
<1>5. DeployTrue'
  BY <1>t, <1>u, <1>1 DEF DeployTrue
<1>6. ApprovalsApart'
  BY <1>4 DEF ApprovalsApart, Driving
<1>7. PullTrue'
  BY <1>t, <1>u, <1>2 DEF PullTrue
<1>8. ReleaseTyped'
  BY <1>u, <1>3, <1>4 DEF ReleaseInv, ReleaseTyped
<1> QED BY <1>u, <1>1, <1>2, <1>5, <1>6, <1>7, <1>8 DEF ReleaseInv

LEMMA ReleaseGoesOn ==
  ASSUME ReleaseInv, [ReleaseNext]_releaseVars PROVE ReleaseInv'
<1>1. CASE UNCHANGED <<release, approval, launched, pull, effects>>
  <2>1. review' \in [version : Nat, verdict : {"none", "accepted", "changes"}] /\ sourceRev' \in Nat
    <3>1. CASE UNCHANGED <<review, sourceRev>>
      BY <3>1 DEF ReleaseInv, ReleaseTyped
    <3>2. CASE EditSource
      BY <3>2 DEF EditSource, ReleaseInv, ReleaseTyped
    <3>3. CASE \E v \in {"accepted", "changes"} : Review(v)
      BY <3>3 DEF Review, ReleaseInv, ReleaseTyped
    <3>4. CASE ~(EditSource \/ \E v \in {"accepted", "changes"} : Review(v))
      <4>1. RestartReleases => UNCHANGED <<review, sourceRev>>
        BY Zenon DEF RestartReleases
      <4>2. PrepareEnvironment \/ CheckEnvironment \/ PublishEnvironment \/ UNCHANGED releaseVars
              => UNCHANGED <<review, sourceRev>>
        BY DEF PrepareEnvironment, CheckEnvironment, PublishEnvironment, releaseVars
      <4>3. \A r \in Deploys : Prepare(r) \/ Reject(r) \/ DriverActs(r) \/ Reconcile(r)
              => UNCHANGED <<review, sourceRev>>
        BY DEF Prepare, Reject, DriverActs, Reconcile
      <4>4. \A a \in Approvals : CommitApproval(a) \/ Launch(a) \/ SettleDeploy(a)
              \/ (\E r \in Deploys : CheckPlan(a, r)) => UNCHANGED <<review, sourceRev>>
        BY DEF CommitApproval, Launch, SettleDeploy, CheckPlan
      <4>5. \A p \in Pulls : OpenPull(p) \/ CommitPull(p) \/ Push(p) \/ PostPull(p)
              \/ SettlePull(p) \/ PullFails(p) \/ ReconcilePull(p) => UNCHANGED <<review, sourceRev>>
        BY DEF OpenPull, CommitPull, Push, PostPull, SettlePull, PullFails, ReconcilePull
      <4> QED BY <3>1, <3>4, <4>1, <4>2, <4>3, <4>4, <4>5 DEF ReleaseNext
    <3> QED BY <3>2, <3>3, <3>4
  <2>2. ReleaseTyped' /\ DeployTrue'
    BY <1>1, <2>1 DEF ReleaseInv, ReleaseTyped, DeployTrue
  <2>3. ApprovalsApart' /\ PullTrue'
    BY <1>1 DEF ReleaseInv, ApprovalsApart, PullTrue
  <2> QED BY <2>2, <2>3 DEF ReleaseInv
<1>2. CASE \/ EditSource \/ PrepareEnvironment \/ CheckEnvironment \/ PublishEnvironment
           \/ (\E v \in {"accepted", "changes"} : Review(v)) \/ UNCHANGED releaseVars
  BY <1>1, <1>2 DEF EditSource, PrepareEnvironment, CheckEnvironment, PublishEnvironment, Review,
     releaseVars
<1> QED BY <1>2, RestartKeeps, DeployStep, PullStep DEF ReleaseNext

\* project_release.py, cloud_projects.py: in every reachable state the receipts
\* of deployments and pull requests agree with what happened outside.
THEOREM ReleaseShape == ReleaseSpec => []ReleaseInv
BY ReleaseStarts, ReleaseGoesOn, PTL DEF ReleaseSpec

\* Every step admits, performs, settles or gives up one outside effect, or none.
LEMMA PublicationStep ==
  ASSUME ReleaseInv, [ReleaseNext]_releaseVars
  PROVE  [ReleaseEffect!EffectNext]_(ReleaseEffect!effectVars)
<1> DEFINE Op == Deploys \cup Pulls
<1>t. /\ release \in [Deploys -> Plan] /\ pull \in [Pulls -> Pull]
      /\ effects \in [Op -> Nat] /\ DeployTrue /\ PullTrue /\ ApprovalsApart
  BY DEF ReleaseInv, ReleaseTyped
<1>d. \A x \in Pulls : x \notin Deploys
  BY ReleaseAssumption
<1>o. \A r \in Deploys : release[r].operator \in BOOLEAN
  BY <1>t DEF Plan
<1>q. ASSUME effects' = effects, \A x \in Op : Recorded(x)' = Recorded(x)
      PROVE  UNCHANGED ReleaseEffect!effectVars
  BY <1>q DEF ReleaseEffect!effectVars
<1>k. ASSUME UNCHANGED <<release, pull, effects>> PROVE UNCHANGED ReleaseEffect!effectVars
  BY <1>k, <1>q DEF Recorded
\* One plan or one pull request changes what its record says.
<1>r. ASSUME NEW r \in Deploys, pull' = pull, \A q \in Deploys \ {r} : release'[q] = release[q]
      PROVE  \A x \in Op \ {r} : Recorded(x)' = Recorded(x)
  BY <1>r, <1>d DEF Recorded
<1>p. ASSUME NEW p \in Pulls, release' = release, \A q \in Pulls \ {p} : pull'[q] = pull[q]
      PROVE  \A x \in Op \ {p} : Recorded(x)' = Recorded(x)
  BY <1>p DEF Recorded
<1>1. CASE UNCHANGED <<release, pull, effects>>
  BY <1>1, <1>k
<1>2. ASSUME NEW r \in Deploys, Prepare(r) PROVE UNCHANGED ReleaseEffect!effectVars
  <2> DEFINE new == [status |-> "awaiting", version |-> review.version,
                     source |-> sourceRev, operator |-> FALSE]
  <2>1. /\ release' = [release EXCEPT ![r] = new] /\ UNCHANGED <<pull, effects>>
        /\ release[r].status = "none" /\ ~release[r].operator
    BY <1>t, <1>2 DEF Prepare, DeployTrue
  <2>2. release'[r].status = "awaiting" /\ ~release'[r].operator
    BY <1>t, <2>1
  <2>3. \A q \in Deploys \ {r} : release'[q] = release[q]
    BY <1>t, <2>1
  <2>4. Recorded(r)' = Recorded(r)
    BY <2>1, <2>2 DEF Recorded
  <2> QED BY <1>q, <1>r, <2>1, <2>3, <2>4
<1>3. ASSUME NEW r \in Deploys, Reject(r) PROVE ReleaseEffect!EffectNext
  <2>1. /\ release' = [release EXCEPT ![r].status = "rejected"] /\ UNCHANGED <<pull, effects>>
        /\ release[r].status = "awaiting" /\ ~release[r].operator /\ effects[r] = 0
    BY <1>t, <1>3 DEF Reject, DeployTrue
  <2>2. /\ release'[r].status = "rejected" /\ release'[r].operator = release[r].operator
        /\ \A q \in Deploys \ {r} : release'[q] = release[q]
    BY <1>t, <2>1, PlanMoves DEF PlanStatus
  <2>3. Recorded(r) = "new" /\ Recorded(r)' = "refused"
    BY <2>1, <2>2 DEF Recorded
  <2>4. ReleaseEffect!Refuse(r)
    BY <1>r, <2>1, <2>2, <2>3 DEF ReleaseEffect!Refuse
  <2> QED BY <2>4 DEF ReleaseEffect!EffectNext
<1>4. ASSUME NEW r \in Deploys, DriverActs(r), ~UNCHANGED <<release, pull, effects>>
      PROVE  ReleaseEffect!EffectNext
  <2>1. /\ r \in launched /\ UNCHANGED <<release, pull>> /\ effects' = [effects EXCEPT ![r] = @ + 1]
    BY <1>4 DEF DriverActs
  <2>2. effects[r] = 0 /\ release[r].status \in {"executing", "reconciling"} /\ ~release[r].operator
    BY <1>t, <2>1 DEF DeployTrue
  <2>3. effects' = [effects EXCEPT ![r] = 1]
    BY <1>t, <2>1, <2>2
  <2>4. Recorded(r) \in {"admitted", "unknown"} /\ \A x \in Op : Recorded(x)' = Recorded(x)
    BY <2>1, <2>2 DEF Recorded
  <2>5. ReleaseEffect!Happen(r)
    BY <2>2, <2>3, <2>4 DEF ReleaseEffect!Happen
  <2> QED BY <2>5 DEF ReleaseEffect!EffectNext
<1>5. ASSUME NEW r \in Deploys, Reconcile(r) PROVE UNCHANGED ReleaseEffect!effectVars
  <2>1. PICK s \in {"complete", "failed"} :
          release' = [release EXCEPT ![r].status = s, ![r].operator = TRUE]
    BY <1>5 DEF Reconcile
  <2>2. release[r].status = "reconciling" /\ UNCHANGED <<pull, effects>>
    BY <1>5 DEF Reconcile
  <2>3. release[r] \in Plan /\ release'[r] = [release[r] EXCEPT !.status = s, !.operator = TRUE]
    BY <1>t, <2>1
  <2>4. release'[r].operator
    BY <2>3, Zenon DEF Plan
  <2>5. \A q \in Deploys \ {r} : release'[q] = release[q]
    BY <1>t, <2>1
  <2>6. Recorded(r) = "unknown" /\ Recorded(r)' = "unknown"
    BY <2>2, <2>4 DEF Recorded
  <2> QED BY <1>q, <1>r, <2>2, <2>5, <2>6
<1>6. ASSUME NEW a \in Approvals, CommitApproval(a), ~UNCHANGED <<release, pull, effects>>
      PROVE  ReleaseEffect!EffectNext
  <2>0. PICK r \in Deploys : r = approval[a].of
    BY <1>t, <1>6 DEF CommitApproval, ApprovalsApart
  <2>1. /\ UNCHANGED <<pull, effects>>
        /\ release[r].status = "awaiting" /\ release' = [release EXCEPT ![r].status = "executing"]
    BY <1>6, <2>0 DEF CommitApproval
  <2>2. r \in Deploys /\ ~release[r].operator
    BY <1>t, <2>1 DEF DeployTrue
  <2>3. /\ release'[r].status = "executing" /\ release'[r].operator = release[r].operator
        /\ \A q \in Deploys \ {r} : release'[q] = release[q]
    BY <1>t, <2>1, <2>2, PlanMoves DEF PlanStatus
  <2>4. Recorded(r) = "new" /\ Recorded(r)' = "admitted"
    BY <2>1, <2>2, <2>3 DEF Recorded
  <2>5. ReleaseEffect!Admit(r)
    BY <1>r, <2>1, <2>2, <2>3, <2>4 DEF ReleaseEffect!Admit
  <2> QED BY <2>2, <2>5 DEF ReleaseEffect!EffectNext
<1>7. ASSUME NEW a \in Approvals, SettleDeploy(a) PROVE ReleaseEffect!EffectNext
  <2>0. PICK r \in Deploys : r = approval[a].of
    BY <1>t, <1>7 DEF SettleDeploy, ApprovalsApart
  <2>1. approval[a].at \in Driving /\ UNCHANGED <<pull, effects>>
    BY <1>7 DEF SettleDeploy, Driving
  <2>2. r \in Deploys /\ release[r].status = "executing" /\ ~release[r].operator
    BY <1>t, <2>0, <2>1 DEF ApprovalsApart, Driving, DeployTrue
  <2>3. PICK s \in {"complete", "reconciling"} :
          /\ s = "complete" => effects[r] > 0
          /\ release' = [release EXCEPT ![r].status = s]
    BY <1>7, <2>0 DEF SettleDeploy
  <2>4. /\ release'[r].status = s /\ release'[r].operator = release[r].operator
        /\ \A q \in Deploys \ {r} : release'[q] = release[q]
    BY <1>t, <2>2, <2>3, PlanMoves DEF PlanStatus
  <2>5. s = "complete" => effects[r] = 1
    BY <1>t, <2>2, <2>3 DEF DeployTrue
  <2>6. Recorded(r) = "admitted" /\ Recorded(r)' = IF s = "complete" THEN "confirmed" ELSE "unknown"
    BY <2>2, <2>4 DEF Recorded
  <2>7. CASE s = "complete"
    <3>1. ReleaseEffect!Confirm(r)
      BY <1>r, <2>1, <2>2, <2>4, <2>5, <2>6, <2>7 DEF ReleaseEffect!Confirm
    <3> QED BY <2>2, <3>1 DEF ReleaseEffect!EffectNext
  <2>8. CASE s = "reconciling"
    <3>1. ReleaseEffect!GiveUp({r})
      BY <1>r, <2>1, <2>2, <2>4, <2>6, <2>8 DEF ReleaseEffect!GiveUp
    <3>2. {r} \in SUBSET Op
      BY <2>2
    <3> QED BY <3>1, <3>2 DEF ReleaseEffect!EffectNext
  <2> QED BY <2>7, <2>8
<1>8. ASSUME NEW p \in Pulls, OpenPull(p) PROVE ReleaseEffect!EffectNext
  <2>1. /\ pull' = [pull EXCEPT ![p] = [status |-> "executing", phase |-> "none", at |-> "commit"]]
        /\ pull[p].status = "none" /\ UNCHANGED <<release, effects>>
    BY <1>8 DEF OpenPull, NoPull
  <2>2. pull'[p].status = "executing" /\ \A q \in Pulls \ {p} : pull'[q] = pull[q]
    BY <1>t, <2>1
  <2>3. Recorded(p) = "new" /\ Recorded(p)' = "admitted"
    BY <1>d, <2>1, <2>2 DEF Recorded
  <2>4. ReleaseEffect!Admit(p)
    BY <1>p, <2>1, <2>2, <2>3 DEF ReleaseEffect!Admit
  <2> QED BY <2>4 DEF ReleaseEffect!EffectNext
<1>9. ASSUME NEW p \in Pulls, CommitPull(p) \/ Push(p) PROVE UNCHANGED ReleaseEffect!effectVars
  <2>1. /\ \E at \in {"push", "post"}, ph \in {"pushing", "opening"} :
             pull' = [pull EXCEPT ![p].at = at, ![p].phase = ph]
        /\ UNCHANGED <<release, effects>>
    BY <1>9 DEF CommitPull, Push
  <2>2. pull'[p].status = pull[p].status /\ \A q \in Pulls \ {p} : pull'[q] = pull[q]
    BY <1>t, <2>1 DEF Pull
  <2>3. Recorded(p)' = Recorded(p)
    BY <1>d, <2>2 DEF Recorded
  <2> QED BY <1>p, <1>q, <2>1, <2>2, <2>3
<1>10. ASSUME NEW p \in Pulls, PostPull(p) PROVE ReleaseEffect!EffectNext
  <2>1. /\ pull' = [pull EXCEPT ![p].at = "answer"] /\ pull[p].at = "post" /\ release' = release
        /\ effects' = [effects EXCEPT ![p] = @ + 1]
    BY <1>10 DEF PostPull
  <2>2. effects[p] = 0 /\ pull[p].status = "executing"
    BY <1>t, <2>1 DEF PullTrue
  <2>3. pull'[p].status = pull[p].status /\ \A q \in Pulls \ {p} : pull'[q] = pull[q]
    BY <1>t, <2>1 DEF Pull
  <2>4. Recorded(p) = "admitted" /\ Recorded(p)' = Recorded(p)
    BY <1>d, <2>2, <2>3 DEF Recorded
  <2>5. effects' = [effects EXCEPT ![p] = 1]
    BY <1>t, <2>1, <2>2
  <2>6. ReleaseEffect!Happen(p)
    BY <1>p, <2>1, <2>2, <2>3, <2>4, <2>5 DEF ReleaseEffect!Happen
  <2> QED BY <2>6 DEF ReleaseEffect!EffectNext
<1>11. ASSUME NEW p \in Pulls, SettlePull(p) \/ PullFails(p) PROVE ReleaseEffect!EffectNext
  <2>1. PICK s \in {"complete", "failed", "reconciling"} :
          /\ pull' = [pull EXCEPT ![p].at = "none", ![p].status = s]
          /\ s = "complete" => pull[p].at = "answer"
          /\ s = "failed" => pull[p].phase = "none"
    BY <1>11 DEF SettlePull, PullFails
  <2>2. pull[p].at # "none" /\ UNCHANGED <<release, effects>>
    BY <1>11 DEF SettlePull, PullFails
  <2>3. /\ pull[p].status = "executing"
        /\ s = "complete" => effects[p] = 1
        /\ s = "failed" => effects[p] = 0
    BY <1>t, <2>1, <2>2 DEF PullTrue, Pull
  <2>4. pull'[p].status = s /\ \A q \in Pulls \ {p} : pull'[q] = pull[q]
    BY <1>t, <2>1 DEF Pull
  <2>5. /\ Recorded(p) = "admitted"
        /\ s = "complete" => Recorded(p)' = "confirmed"
        /\ s = "failed" => Recorded(p)' = "refused"
        /\ s = "reconciling" => Recorded(p)' = "unknown"
    BY <1>d, <2>3, <2>4 DEF Recorded
  <2>6. CASE s = "complete"
    <3>1. ReleaseEffect!Confirm(p)
      BY <1>p, <2>2, <2>3, <2>4, <2>5, <2>6 DEF ReleaseEffect!Confirm
    <3> QED BY <3>1 DEF ReleaseEffect!EffectNext
  <2>7. CASE s = "failed"
    <3>1. ReleaseEffect!Refuse(p)
      BY <1>p, <2>2, <2>3, <2>4, <2>5, <2>7 DEF ReleaseEffect!Refuse
    <3> QED BY <3>1 DEF ReleaseEffect!EffectNext
  <2>8. CASE s = "reconciling"
    <3>1. ReleaseEffect!GiveUp({p})
      BY <1>p, <2>2, <2>4, <2>5, <2>8 DEF ReleaseEffect!GiveUp
    <3> QED BY <3>1 DEF ReleaseEffect!EffectNext
  <2> QED BY <2>6, <2>7, <2>8
<1>12. ASSUME NEW p \in Pulls, ReconcilePull(p) PROVE ReleaseEffect!EffectNext
  <2>1. /\ pull' = [pull EXCEPT ![p].status = "complete"] /\ UNCHANGED <<release, effects>>
        /\ pull[p].status = "reconciling" /\ effects[p] > 0
    BY <1>12 DEF ReconcilePull
  <2>2. effects[p] = 1
    BY <1>t, <2>1 DEF PullTrue
  <2>3. pull'[p].status = "complete" /\ \A q \in Pulls \ {p} : pull'[q] = pull[q]
    BY <1>t, <2>1 DEF Pull
  <2>4. Recorded(p) = "unknown" /\ Recorded(p)' = "confirmed"
    BY <1>d, <2>1, <2>3 DEF Recorded
  <2>5. ReleaseEffect!Discover(p)
    BY <1>p, <2>1, <2>2, <2>3, <2>4 DEF ReleaseEffect!Discover
  <2> QED BY <2>5 DEF ReleaseEffect!EffectNext
<1>13. CASE RestartReleases
  <2> DEFINE Lost == {x \in Op : Recorded(x) = "admitted"}
  <2>1. /\ effects' = effects
        /\ \A r \in Deploys : /\ release'[r].operator = release[r].operator
                              /\ release'[r].status = IF release[r].status = "executing"
                                    THEN "reconciling" ELSE release[r].status
        /\ \A p \in Pulls : pull'[p].status = IF pull[p].status = "executing"
                                    THEN "reconciling" ELSE pull[p].status
    BY <1>13, RestartKeeps
  <2>2. ASSUME NEW x \in Op
        PROVE  Recorded(x)' = IF x \in Lost THEN "unknown" ELSE Recorded(x)
    <3>1. CASE x \in Deploys
      BY <1>o, <2>1, <3>1 DEF Recorded
    <3>2. CASE x \in Pulls
      BY <1>d, <2>1, <3>2 DEF Recorded
    <3> QED BY <3>1, <3>2
  <2>3. ReleaseEffect!GiveUp(Lost)
    BY <2>1, <2>2 DEF ReleaseEffect!GiveUp
  <2> QED BY <2>3 DEF ReleaseEffect!EffectNext
<1>14. CASE \/ EditSource \/ PrepareEnvironment \/ CheckEnvironment \/ PublishEnvironment
            \/ (\E v \in {"accepted", "changes"} : Review(v)) \/ UNCHANGED releaseVars
            \/ \E a \in Approvals : Launch(a) \/ \E r \in Deploys : CheckPlan(a, r)
  BY <1>1, <1>14 DEF EditSource, PrepareEnvironment, CheckEnvironment, PublishEnvironment, Review,
     releaseVars, Launch, CheckPlan
<1> QED
  BY <1>1, <1>2, <1>3, <1>4, <1>5, <1>6, <1>7, <1>8, <1>9, <1>10, <1>11, <1>12, <1>13, <1>14
  DEF ReleaseNext

\* decide(), pull_request(): a deployment or a pull request takes effect at most
\* once, after its receipt; what its record says of it is true or "unknown".
THEOREM PublishesOnce == ReleaseSpec => PublishedAtMostOnce
<1>1. ReleaseInit => ReleaseEffect!EffectInit
  BY DEF ReleaseInit, ReleaseEffect!EffectInit, Recorded, NoPlan, NoPull
<1> QED BY <1>1, PublicationStep, ReleaseShape, PTL
        DEF ReleaseSpec, PublishedAtMostOnce, ReleaseEffect!EffectSpec

-----------------------------------------------------------------------------
(* The Cells of jobs.  A Cell is in one place: held by one job, free in the  *)
(* pool, or put aside by one job to be closed; a job that holds a Cell of    *)
(* the pool has it marked as used.                                           *)

Entry == [cell : Containers \cup {0}, sig : {SigOf[j] : j \in Jobs} \cup {"none"},
          use : BOOLEAN, old : BOOLEAN]

CellsTyped ==
  /\ jobAt \in [Jobs -> {"new", "probing", "throwaway", "building", "leased", "command", "over"}]
  /\ jobCell \in [Jobs -> Containers \cup {0}]
  /\ jobPooled \in [Jobs -> BOOLEAN]
  /\ jobResult \in [Jobs -> {"none", "returned", "raised", "cancelled"}]
  /\ closing \in [Jobs -> SUBSET Containers]
  /\ entries \in [Chats -> Entry]
  /\ container \in [Containers -> {"none", "up", "dead", "removed"}]
  /\ pooling \in BOOLEAN /\ poolClosed \in BOOLEAN

Holds(j) == jobAt[j] \in {"probing", "leased", "command"}

\* What a job holds nobody else holds, is free or is about to close.
HeldApart ==
  /\ \A j \in Jobs : Holds(j) => jobCell[j] # 0
  /\ \A i, j \in Jobs : Holds(i) /\ Holds(j) /\ jobCell[i] = jobCell[j] => i = j
  /\ \A i, j \in Jobs : Holds(j) => jobCell[j] \notin closing[i]
  /\ \A j \in Jobs, k \in Chats :
       Holds(j) /\ entries[k].cell = jobCell[j] => entries[k].use /\ k = ChatOf[j]

\* The pool knows a Cell under one conversation and not while it is closed.
PoolApart ==
  /\ \A k, l \in Chats : entries[k].cell # 0 /\ entries[k].cell = entries[l].cell => k = l
  /\ \A j \in Jobs, k \in Chats : entries[k].cell \notin closing[j]

\* A container that was not started is nobody's.
Unstarted ==
  \A c \in Containers : container[c] = "none" =>
    /\ \A j \in Jobs : jobCell[j] # c /\ c \notin closing[j]
    /\ \A k \in Chats : entries[k].cell # c

HeldKept == \A j \in Jobs : InCell(j) /\ container[jobCell[j]] = "removed" => poolClosed

\* A job without a pool has a Cell of its own, and answers for it.
JobsTrue ==
  /\ ~pooling => \A j \in Jobs : jobAt[j] \notin {"probing", "building"} /\ ~jobPooled[j]
  /\ \A j \in Jobs : jobAt[j] \in {"new", "building", "throwaway"} => jobCell[j] = 0
  /\ \A j \in Jobs : jobResult[j] # "none" => jobAt[j] = "over"
  /\ NothingLeftBehind

CellsInv == CellsTyped /\ HeldApart /\ PoolApart /\ Unstarted /\ HeldKept /\ JobsTrue

LEMMA CellsStart ==
  ASSUME CellsInit PROVE CellsInv
<1>1. 0 \notin Containers
  BY DEF Containers
<1>2. CellsTyped
  <2>1. NoEntry \in Entry
    BY DEF NoEntry, Entry
  <2> QED BY <2>1 DEF CellsInit, CellsTyped
<1>3. HeldApart /\ PoolApart
  BY <1>1 DEF CellsInit, HeldApart, PoolApart, Holds, NoEntry
<1>4. Unstarted /\ HeldKept
  BY <1>1 DEF CellsInit, Unstarted, HeldKept, InCell, NoEntry
<1>5. JobsTrue
  BY DEF CellsInit, JobsTrue, NothingLeftBehind
<1> QED BY <1>2, <1>3, <1>4, <1>5 DEF CellsInv

\* Closed containers are removed, or stay as they were.
LEMMA RemovedEffect ==
  ASSUME container \in [Containers -> {"none", "up", "dead", "removed"}],
         NEW cs, NEW gone, Removed(cs, gone)
  PROVE  /\ container' \in [Containers -> {"none", "up", "dead", "removed"}]
         /\ \A c \in Containers : container'[c] = IF c \in gone THEN "removed" ELSE container[c]
BY DEF Removed

\* What moves no Cell: who holds what, the pool and what is to be closed stay.
LEMMA PlacesKept ==
  ASSUME CellsInv,
         jobAt' \in [Jobs -> {"new", "probing", "throwaway", "building", "leased", "command", "over"}],
         \A j \in Jobs : Holds(j)' => Holds(j),
         UNCHANGED <<jobCell, entries>>,
         closing' \in [Jobs -> SUBSET Containers], \A j \in Jobs : closing'[j] \subseteq closing[j],
         container' \in [Containers -> {"none", "up", "dead", "removed"}],
         \A c \in Containers : container'[c] = "none" => container[c] = "none"
  PROVE  HeldApart' /\ PoolApart' /\ Unstarted'
<1>1. HeldApart'
  BY DEF CellsInv, HeldApart
<1>2. PoolApart'
  BY DEF CellsInv, PoolApart
<1>3. Unstarted'
  BY SMTT(60) DEF CellsInv, Unstarted
<1> QED BY <1>1, <1>2, <1>3

\* The entry of a conversation after free ones were taken out of the pool.
LEMMA KeptEntries ==
  ASSUME entries \in [Chats -> Entry], NEW x \in Chats
  PROVE  LET kept == [y \in Chats |-> IF y \in Idle THEN NoEntry ELSE entries[y]]
         IN  /\ kept[x] \in Entry
             /\ kept[x].cell # 0 => kept[x] = entries[x] /\ x \notin Idle
             /\ kept[x].use => kept[x] = entries[x]
<1>1. NoEntry \in Entry /\ NoEntry.cell = 0 /\ NoEntry.use = FALSE
  BY SMTT(60) DEF NoEntry, Entry
<1> QED BY SMTT(60), <1>1

LEMMA AcquireKeeps ==
  ASSUME CellsInv, NEW j \in Jobs, Acquire(j) PROVE CellsInv'
<1> DEFINE k == ChatOf[j]
           kept == [x \in Chats |-> IF x \in Idle THEN NoEntry ELSE entries[x]]
           evicted == {entries[x].cell : x \in Idle}
<1>t. /\ jobAt \in [Jobs -> {"new", "probing", "throwaway", "building", "leased", "command", "over"}]
      /\ jobCell \in [Jobs -> Containers \cup {0}]
      /\ closing \in [Jobs -> SUBSET Containers] /\ entries \in [Chats -> Entry]
      /\ HeldApart /\ PoolApart /\ Unstarted /\ HeldKept /\ JobsTrue
  BY DEF CellsInv, CellsTyped
<1>k. k \in Chats /\ 0 \notin Containers
  BY DEF Chats, Containers
<1>u. /\ UNCHANGED <<jobPooled, jobResult, container, pooling, poolClosed>>
      /\ pooling /\ jobAt[j] = "new"
  BY DEF Acquire
<1>e. \A x \in Chats : /\ kept[x] \in Entry
                       /\ kept[x].cell # 0 => kept[x] = entries[x] /\ x \notin Idle
                       /\ kept[x].use => kept[x] = entries[x]
  BY <1>t, KeptEntries
<1>i. \A x \in Chats : entries[x] \in Entry /\ entries[x].cell \in Containers \cup {0}
  BY <1>t DEF Entry
<1>v. /\ evicted \subseteq Containers
      /\ \A c \in evicted : \E x \in Chats : entries[x].cell = c /\ ~entries[x].use /\ x \in Idle
  BY <1>i DEF Idle
<1> DEFINE mine == kept[k]
<1>m. mine \in Entry /\ (mine.cell # 0 => mine = entries[k] /\ k \notin Idle)
  BY <1>e, <1>k
<1> HIDE DEF k, kept, evicted, mine
<1>1. CASE /\ mine.cell # 0 /\ ~mine.use
           /\ jobAt' = [jobAt EXCEPT ![j] = "probing"]
           /\ jobCell' = [jobCell EXCEPT ![j] = mine.cell]
           /\ entries' = [kept EXCEPT ![k].use = TRUE, ![k].old = FALSE]
           /\ closing' = [closing EXCEPT ![j] = evicted]
  <2> DEFINE c == entries[k].cell
  <2>1. mine = entries[k] /\ c # 0 /\ ~entries[k].use /\ k \notin Idle /\ c \in Containers
    BY <1>m, <1>1, <1>i, <1>k
  <2>2. /\ jobAt'[j] = "probing" /\ jobCell'[j] = c /\ closing'[j] = evicted
        /\ \A i \in Jobs \ {j} : jobAt'[i] = jobAt[i] /\ jobCell'[i] = jobCell[i] /\ closing'[i] = closing[i]
        /\ closing' \in [Jobs -> SUBSET Containers]
        /\ jobAt' \in [Jobs -> {"new", "probing", "throwaway", "building", "leased", "command", "over"}]
        /\ jobCell' \in [Jobs -> Containers \cup {0}]
    BY <1>t, <1>1, <1>v, <2>1
  <2>3. /\ entries' \in [Chats -> Entry]
        /\ entries'[k].use /\ entries'[k].cell = c
        /\ \A x \in Chats \ {k} : entries'[x] = kept[x]
    <3>1. [mine EXCEPT !.use = TRUE, !.old = FALSE] \in Entry
          /\ [mine EXCEPT !.use = TRUE, !.old = FALSE].use = TRUE
          /\ [mine EXCEPT !.use = TRUE, !.old = FALSE].cell = mine.cell
      BY <1>m, Zenon DEF Entry
    <3>2. kept \in [Chats -> Entry]
      BY <1>e DEF kept
    <3>3. entries' = [kept EXCEPT ![k] = [mine EXCEPT !.use = TRUE, !.old = FALSE]]
      BY <1>1 DEF mine
    <3> QED BY <1>k, <2>1, <3>1, <3>2, <3>3
  <2>4. \A i \in Jobs : jobCell[i] = c => ~Holds(i)
    BY <1>t, <1>k, <2>1 DEF HeldApart
  <2>5. c \notin evicted /\ \A i \in Jobs : c \notin closing[i]
    BY <1>t, <1>k, <1>v, <2>1 DEF PoolApart
  <2>6. \A i \in Jobs : Holds(i) => jobCell[i] \notin evicted
    BY <1>t, <1>v DEF HeldApart
  <2>7. HeldApart'
    <3>1. \A i \in Jobs : i # j => (Holds(i)' <=> Holds(i))
      BY <2>2 DEF Holds
    <3>2. \A i \in Jobs, x \in Chats :
            Holds(i)' /\ entries'[x].cell = jobCell'[i] => entries'[x].use /\ x = ChatOf[i]
      <4> SUFFICES ASSUME NEW i \in Jobs, NEW x \in Chats, Holds(i)', entries'[x].cell = jobCell'[i]
                   PROVE  entries'[x].use /\ x = ChatOf[i]
        OBVIOUS
      <4>1. CASE x = k
        <5>1. i = j
          BY <1>t, <2>2, <2>3, <2>4, <3>1, <4>1
        <5> QED BY <2>3, <4>1, <5>1 DEF k
      <4>2. CASE x # k
        <5>1. entries'[x] = kept[x] /\ jobCell'[i] # 0
          BY <1>t, <2>1, <2>2, <2>3, <3>1, <4>2 DEF HeldApart
        <5>2. entries'[x] = entries[x]
          BY <1>e, <5>1
        <5>3. i # j
          BY <1>t, <1>k, <2>1, <2>2, <4>2, <5>2 DEF PoolApart
        <5> QED BY <1>t, <2>2, <3>1, <5>2, <5>3 DEF HeldApart
      <4> QED BY <4>1, <4>2
    <3>3. \A i \in Jobs : Holds(i)' => jobCell'[i] # 0
      BY <1>t, <2>1, <2>2, <3>1 DEF HeldApart
    <3>4. \A i, i2 \in Jobs : Holds(i)' /\ Holds(i2)' /\ jobCell'[i] = jobCell'[i2] => i = i2
      BY <1>t, <2>2, <2>4, <3>1 DEF HeldApart
    <3>5. \A i, i2 \in Jobs : Holds(i2)' => jobCell'[i2] \notin closing'[i]
      BY <1>t, <2>2, <2>5, <2>6, <3>1 DEF HeldApart
    <3> QED BY <3>2, <3>3, <3>4, <3>5 DEF HeldApart
  <2>8. \A x \in Chats : entries'[x].cell # 0 => entries'[x].cell = entries[x].cell /\ x \notin Idle
    BY <1>e, <2>1, <2>3
  <2>9. PoolApart'
    <3>1. \A x \in Chats : entries'[x].cell \notin evicted
      BY <1>t, <1>k, <1>v, <2>8 DEF PoolApart
    <3> QED BY <1>t, <2>2, <2>8, <3>1, <1>k DEF PoolApart
  <2>10. Unstarted'
    BY <1>t, <1>u, <1>v, <1>k, <2>1, <2>2, <2>8 DEF Unstarted
  <2>11. HeldKept'
    BY <1>t, <1>u, <2>2 DEF HeldKept, InCell
  <2>12. JobsTrue'
    BY <1>t, <1>u, <2>2 DEF JobsTrue, NothingLeftBehind
  <2>13. CellsTyped'
    BY <1>u, <2>2, <2>3 DEF CellsInv, CellsTyped
  <2> QED BY <2>7, <2>9, <2>10, <2>11, <2>12, <2>13 DEF CellsInv
<1>2. ASSUME NEW s \in {"throwaway", "building"}, NEW put \in SUBSET (evicted \cup {mine.cell}),
             jobAt' = [jobAt EXCEPT ![j] = s], UNCHANGED jobCell,
             closing' = [closing EXCEPT ![j] = put \ {0}],
             entries' \in [Chats -> Entry],
             \A x \in Chats : entries'[x].cell # 0 =>
               entries'[x] = entries[x] /\ x \notin Idle /\ entries[x].cell \notin put,
             mine.cell # 0 /\ mine.cell \in put => ~mine.use
      PROVE  CellsInv'
  <2> DEFINE out == put \ {0}
  <2>1. /\ out \subseteq Containers
        /\ \A c \in out : \E x \in Chats : entries[x].cell = c /\ ~entries[x].use
    BY <1>v, <1>m, <1>i, <1>k, <1>2
  <2> HIDE DEF out
  <2>2. /\ jobAt'[j] = s /\ jobCell' = jobCell /\ closing'[j] = out
        /\ \A i \in Jobs \ {j} : jobAt'[i] = jobAt[i] /\ closing'[i] = closing[i]
        /\ closing' \in [Jobs -> SUBSET Containers]
        /\ jobAt' \in [Jobs -> {"new", "probing", "throwaway", "building", "leased", "command", "over"}]
    BY <1>t, <1>2, <2>1 DEF out
  <2>3. \A i \in Jobs : Holds(i) => jobCell[i] \notin out
    BY <1>t, <2>1 DEF HeldApart
  <2>4. \A i \in Jobs : (Holds(i)' => i # j /\ Holds(i))
    BY <2>2 DEF Holds
  <2>5. HeldApart'
    <3>1. \A i, i2 \in Jobs : Holds(i2)' => jobCell'[i2] \notin closing'[i]
      BY <1>t, <2>2, <2>3, <2>4 DEF HeldApart
    <3>2. \A i \in Jobs, x \in Chats :
            Holds(i)' /\ entries'[x].cell = jobCell'[i] => entries'[x].use /\ x = ChatOf[i]
      BY <1>t, <1>2, <2>2, <2>4 DEF HeldApart
    <3> QED BY <1>t, <2>2, <2>4, <3>1, <3>2 DEF HeldApart
  <2>6. PoolApart'
    <3>1. \A x \in Chats : entries'[x].cell \notin out
      BY <1>2 DEF out
    <3>2. \A i \in Jobs, x \in Chats : entries'[x].cell \notin closing'[i]
      BY <1>t, <1>k, <1>2, <2>2, <3>1 DEF PoolApart
    <3> QED BY <1>t, <1>2, <3>2 DEF PoolApart
  <2>7. Unstarted'
    <3>1. \A c \in Containers : container[c] = "none" => c \notin out
      BY <1>t, <2>1 DEF Unstarted
    <3> QED BY <1>t, <1>u, <1>k, <1>2, <2>2, <3>1 DEF Unstarted
  <2>8. HeldKept'
    BY <1>t, <1>u, <2>2 DEF HeldKept, InCell
  <2>9. JobsTrue'
    BY <1>t, <1>u, <2>2 DEF JobsTrue, NothingLeftBehind
  <2>10. CellsTyped'
    BY <1>u, <1>2, <2>2 DEF CellsInv, CellsTyped
  <2> QED BY <2>5, <2>6, <2>7, <2>8, <2>9, <2>10 DEF CellsInv
<1>3. CASE /\ mine.use
           /\ jobAt' = [jobAt EXCEPT ![j] = "throwaway"]
           /\ entries' = kept /\ closing' = [closing EXCEPT ![j] = evicted]
           /\ UNCHANGED jobCell
  <2>1. entries' \in [Chats -> Entry]
    BY <1>e, <1>3 DEF kept
  <2>2. \A x \in Chats : entries'[x].cell # 0 =>
          entries'[x] = entries[x] /\ x \notin Idle /\ entries[x].cell \notin evicted
    BY <1>t, <1>e, <1>v, <1>3 DEF PoolApart
  <2>3. evicted \ {0} = evicted
    BY <1>v, <1>k
  <2>4. mine.cell \notin evicted
    <3>1. mine = entries[k]
      BY <1>e, <1>k, <1>3 DEF mine
    <3>2. CASE mine.cell = 0
      BY <1>v, <1>k, <3>2
    <3>3. CASE mine.cell # 0
      BY <1>t, <1>k, <1>v, <1>m, <3>1, <3>3 DEF PoolApart
    <3> QED BY <3>2, <3>3
  <2>5. closing' = [closing EXCEPT ![j] = evicted \ {0}]
    BY <1>3, <2>3
  <2> QED BY <1>2, <1>3, <2>1, <2>2, <2>4, <2>5
<1>4. CASE /\ mine.cell = 0 \/ ~mine.use
           /\ jobAt' = [jobAt EXCEPT ![j] = "building"]
           /\ entries' = [kept EXCEPT ![k] = NoEntry]
           /\ closing' = [closing EXCEPT ![j] = (evicted \cup {mine.cell}) \ {0}]
           /\ UNCHANGED jobCell
  <2>1. NoEntry \in Entry /\ NoEntry.cell = 0
    BY DEF NoEntry, Entry
  <2>2. /\ entries' \in [Chats -> Entry] /\ entries'[k] = NoEntry
        /\ \A x \in Chats \ {k} : entries'[x] = kept[x]
    <3>1. kept \in [Chats -> Entry]
      BY <1>e DEF kept
    <3> QED BY <1>4, <1>k, <2>1, <3>1
  <2>3. \A x \in Chats : entries'[x].cell # 0 => x # k /\ entries'[x] = entries[x] /\ x \notin Idle
    BY <1>e, <2>1, <2>2
  <2>4. \A x \in Chats : entries'[x].cell # 0 => entries[x].cell \notin evicted \cup {mine.cell}
    BY <1>t, <1>k, <1>m, <1>v, <2>3 DEF PoolApart
  <2>5. mine.cell # 0 => ~mine.use
    BY <1>4
  <2> QED BY ZenonT(60), <1>2, <1>4, <2>2, <2>3, <2>4, <2>5
<1> QED BY <1>1, <1>3, <1>4 DEF Acquire, k, kept, evicted, mine

LEMMA ProbeKeeps ==
  ASSUME CellsInv, NEW j \in Jobs, Probe(j) PROVE CellsInv'
<1> DEFINE k == ChatOf[j]
           c == jobCell[j]
<1>t. /\ jobAt \in [Jobs -> {"new", "probing", "throwaway", "building", "leased", "command", "over"}]
      /\ jobCell \in [Jobs -> Containers \cup {0}] /\ jobPooled \in [Jobs -> BOOLEAN]
      /\ closing \in [Jobs -> SUBSET Containers] /\ entries \in [Chats -> Entry]
      /\ HeldApart /\ PoolApart /\ Unstarted /\ HeldKept /\ JobsTrue
  BY DEF CellsInv, CellsTyped
<1>k. k \in Chats /\ 0 \notin Containers
  BY DEF Chats, Containers
<1>u. /\ UNCHANGED <<jobResult, container, pooling, poolClosed>>
      /\ jobAt[j] = "probing" /\ Holds(j) /\ c \in Containers /\ pooling
  BY <1>t DEF Probe, Holds, HeldApart, JobsTrue
<1> HIDE DEF k, c
<1>1. CASE /\ container[c] = "up"
           /\ jobAt' = [jobAt EXCEPT ![j] = "leased"] /\ jobPooled' = [jobPooled EXCEPT ![j] = TRUE]
           /\ UNCHANGED <<jobCell, entries, closing>>
  <2>1. /\ jobAt' \in [Jobs -> {"new", "probing", "throwaway", "building", "leased", "command", "over"}]
        /\ jobAt'[j] = "leased" /\ \A i \in Jobs \ {j} : jobAt'[i] = jobAt[i]
        /\ jobPooled' \in [Jobs -> BOOLEAN]
    BY <1>t, <1>1
  <2>2. \A i \in Jobs : Holds(i)' => Holds(i)
    BY <1>u, <2>1 DEF Holds
  <2>3. HeldApart' /\ PoolApart' /\ Unstarted'
    BY <1>t, <1>u, <1>1, <2>1, <2>2, PlacesKept DEF CellsInv, CellsTyped
  <2>4. HeldKept'
    BY <1>t, <1>u, <1>1, <2>1 DEF HeldKept, InCell, c
  <2>5. JobsTrue'
    BY <1>t, <1>u, <1>1, <2>1 DEF JobsTrue, NothingLeftBehind
  <2>6. CellsTyped'
    BY <1>u, <1>1, <2>1 DEF CellsInv, CellsTyped
  <2> QED BY <2>3, <2>4, <2>5, <2>6 DEF CellsInv
<1>2. CASE /\ jobAt' = [jobAt EXCEPT ![j] = "building"] /\ jobCell' = [jobCell EXCEPT ![j] = 0]
           /\ entries' = IF entries[k].cell = c THEN [entries EXCEPT ![k] = NoEntry] ELSE entries
           /\ closing' = [closing EXCEPT ![j] = {c}]
           /\ UNCHANGED jobPooled
  <2>1. /\ jobAt' \in [Jobs -> {"new", "probing", "throwaway", "building", "leased", "command", "over"}]
        /\ jobCell' \in [Jobs -> Containers \cup {0}]
        /\ closing' \in [Jobs -> SUBSET Containers]
        /\ jobAt'[j] = "building" /\ jobCell'[j] = 0 /\ closing'[j] = {c}
        /\ \A i \in Jobs \ {j} : jobAt'[i] = jobAt[i] /\ jobCell'[i] = jobCell[i] /\ closing'[i] = closing[i]
    BY <1>t, <1>u, <1>2
  <2>2. NoEntry \in Entry /\ NoEntry.cell = 0
    BY DEF NoEntry, Entry
  <2>3. /\ entries' \in [Chats -> Entry]
        /\ \A x \in Chats : entries'[x].cell # 0 => entries'[x] = entries[x] /\ entries[x].cell # c
    <3>1. CASE entries[k].cell = c
      BY <1>t, <1>k, <1>u, <1>2, <2>2, <3>1 DEF PoolApart
    <3>2. CASE entries[k].cell # c
      BY <1>t, <1>k, <1>u, <1>2, <3>2 DEF HeldApart, k, c
    <3> QED BY <3>1, <3>2
  <2>4. \A i \in Jobs : Holds(i)' => i # j /\ Holds(i) /\ jobCell[i] # c
    BY <1>t, <1>u, <2>1 DEF Holds, HeldApart, c
  <2>5. HeldApart'
    <3>1. \A i, i2 \in Jobs : Holds(i2)' => jobCell'[i2] \notin closing'[i]
      BY <1>t, <2>1, <2>4 DEF HeldApart
    <3>2. \A i \in Jobs, x \in Chats :
            Holds(i)' /\ entries'[x].cell = jobCell'[i] => entries'[x].use /\ x = ChatOf[i]
      BY <1>t, <2>1, <2>3, <2>4 DEF HeldApart
    <3> QED BY <1>t, <2>1, <2>4, <3>1, <3>2 DEF HeldApart
  <2>6. PoolApart'
    <3>1. \A i \in Jobs, x \in Chats : entries'[x].cell \notin closing'[i]
      <4> SUFFICES ASSUME NEW i \in Jobs, NEW x \in Chats PROVE entries'[x].cell \notin closing'[i]
        OBVIOUS
      <4>1. CASE entries'[x].cell = 0
        BY <1>k, <2>1, <4>1
      <4>2. CASE entries'[x].cell # 0
        BY <1>t, <2>1, <2>3, <4>2 DEF PoolApart
      <4> QED BY <4>1, <4>2
    <3> QED BY <1>t, <2>3, <3>1 DEF PoolApart
  <2>7. Unstarted'
    <3>1. container[c] # "none"
      BY <1>t, <1>u DEF Unstarted, c
    <3> QED BY <1>t, <1>u, <1>k, <2>1, <2>3, <3>1 DEF Unstarted
  <2>8. HeldKept'
    BY <1>t, <1>u, <2>1 DEF HeldKept, InCell
  <2>9. JobsTrue'
    BY <1>t, <1>u, <1>2, <2>1 DEF JobsTrue, NothingLeftBehind
  <2>10. CellsTyped'
    BY <1>u, <1>2, <2>1, <2>3 DEF CellsInv, CellsTyped
  <2> QED BY <2>5, <2>6, <2>7, <2>8, <2>9, <2>10 DEF CellsInv
<1> QED BY <1>1, <1>2 DEF Probe, k, c

LEMMA BuiltKeeps ==
  ASSUME CellsInv, NEW j \in Jobs, NEW c \in Containers, NEW victims \in SUBSET Chats,
         Built(j, c, victims)
  PROVE  CellsInv'
<1> DEFINE k == ChatOf[j]
           out == (IF Evictable(k) THEN {entries[k].cell} ELSE {}) \cup {entries[x].cell : x \in victims}
           mine == [cell |-> c, sig |-> SigOf[j], use |-> TRUE, old |-> FALSE]
<1>t. /\ jobAt \in [Jobs -> {"new", "probing", "throwaway", "building", "leased", "command", "over"}]
      /\ jobCell \in [Jobs -> Containers \cup {0}] /\ jobPooled \in [Jobs -> BOOLEAN]
      /\ container \in [Containers -> {"none", "up", "dead", "removed"}]
      /\ closing \in [Jobs -> SUBSET Containers] /\ entries \in [Chats -> Entry]
      /\ HeldApart /\ PoolApart /\ Unstarted /\ HeldKept /\ JobsTrue
  BY DEF CellsInv, CellsTyped
<1>k. k \in Chats /\ 0 \notin Containers /\ c # 0
  BY DEF Chats, Containers
<1>i. \A x \in Chats : entries[x] \in Entry /\ entries[x].cell \in Containers \cup {0}
  BY <1>t DEF Entry
<1>u. /\ UNCHANGED <<jobResult, pooling, poolClosed>>
      /\ jobAt[j] \in {"building", "throwaway"} /\ closing[j] = {} /\ container[c] = "none"
  BY DEF Built, Starts
<1>n. /\ \A i \in Jobs : jobCell[i] # c /\ c \notin closing[i]
      /\ \A x \in Chats : entries[x].cell # c
  BY <1>t, <1>u DEF Unstarted
<1>1. /\ jobAt' \in [Jobs -> {"new", "probing", "throwaway", "building", "leased", "command", "over"}]
      /\ jobCell' \in [Jobs -> Containers \cup {0}] /\ jobPooled' \in [Jobs -> BOOLEAN]
      /\ container' \in [Containers -> {"none", "up", "dead", "removed"}]
      /\ container'[c] = "up" /\ \A d \in Containers \ {c} : container'[d] = container[d]
      /\ jobAt'[j] = "leased" /\ jobCell'[j] = c /\ jobPooled'[j] = (jobAt[j] = "building")
      /\ \A i \in Jobs \ {j} : jobAt'[i] = jobAt[i] /\ jobCell'[i] = jobCell[i] /\ jobPooled'[i] = jobPooled[i]
  BY <1>t, <1>u DEF Built
<1>2. \A i \in Jobs : Holds(i)' <=> i = j \/ Holds(i)
  BY <1>1 DEF Holds
<1> HIDE DEF k, out
<1>3. /\ closing' \in [Jobs -> SUBSET Containers] /\ entries' \in [Chats -> Entry]
      /\ \A i \in Jobs \ {j} : closing'[i] = closing[i]
      /\ \A i \in Jobs : Holds(i) => jobCell[i] \notin closing'[j]
      /\ c \notin closing'[j]
      /\ \A x \in Chats : entries'[x].cell \notin closing'[j]
      /\ \A d \in closing'[j] : \E x \in Chats : entries[x].cell = d
      /\ \A x \in Chats : entries'[x].cell # 0 =>
           entries'[x] = entries[x] \/ (x = k /\ entries'[x].cell = c /\ entries'[x].use)
  <2>1. CASE jobAt[j] = "building"
    <3>1. /\ victims \subseteq {x \in Chats \ {k} : Evictable(x)}
          /\ entries' = [x \in Chats |-> IF x = k THEN mine ELSE IF x \in victims THEN NoEntry ELSE entries[x]]
          /\ closing' = [closing EXCEPT ![j] = out]
      BY <2>1, Zenon DEF Built, Overflow, k, out
    <3>2. /\ out \subseteq Containers
          /\ \A d \in out : \E x \in Chats : entries[x].cell = d /\ ~entries[x].use /\ (x = k \/ x \in victims)
      BY <1>k, <1>i, <3>1 DEF out, Evictable
    <3>3. /\ mine \in Entry /\ mine.cell = c /\ mine.use
          /\ NoEntry \in Entry /\ NoEntry.cell = 0
      BY DEF Entry, NoEntry
    <3> HIDE DEF mine
    <3>4. /\ entries' \in [Chats -> Entry]
          /\ entries'[k] = mine
          /\ \A x \in Chats \ {k} : entries'[x] = IF x \in victims THEN NoEntry ELSE entries[x]
      BY <1>t, <1>k, <3>1, <3>3
    <3>5. closing' \in [Jobs -> SUBSET Containers] /\ closing'[j] = out
          /\ \A i \in Jobs \ {j} : closing'[i] = closing[i]
      BY <1>t, <3>1, <3>2
    <3>6. c \notin out
      BY <1>n, <3>2
    <3>7. \A i \in Jobs : Holds(i) => jobCell[i] \notin out
      BY <1>t, <3>2 DEF HeldApart
    <3>8. \A x \in Chats : entries'[x].cell \notin out
      <4> SUFFICES ASSUME NEW x \in Chats, entries'[x].cell \in out PROVE FALSE
        OBVIOUS
      <4>1. x # k /\ x \notin victims /\ entries'[x] = entries[x]
        BY <1>k, <3>2, <3>3, <3>4, <3>6
      <4> QED BY <1>t, <1>k, <3>2, <4>1 DEF PoolApart
    <3>9. \A x \in Chats : entries'[x].cell # 0 =>
           entries'[x] = entries[x] \/ (x = k /\ entries'[x].cell = c /\ entries'[x].use)
      BY <3>3, <3>4
    <3>10. \A d \in out : \E x \in Chats : entries[x].cell = d
      BY <3>2
    <3> QED BY <3>4, <3>5, <3>6, <3>7, <3>8, <3>9, <3>10
  <2>2. CASE jobAt[j] # "building"
    <3>1. UNCHANGED <<entries, closing>>
      BY <2>2 DEF Built
    <3> QED BY <1>t, <1>u, <3>1
  <2> QED BY <2>1, <2>2
<1>4. HeldApart'
  <2>1. \A i \in Jobs : Holds(i)' => jobCell'[i] # 0
    BY <1>t, <1>k, <1>1, <1>2 DEF HeldApart
  <2>2. \A i, i2 \in Jobs : Holds(i)' /\ Holds(i2)' /\ jobCell'[i] = jobCell'[i2] => i = i2
    BY <1>t, <1>n, <1>1, <1>2 DEF HeldApart
  <2>3. \A i, i2 \in Jobs : Holds(i2)' => jobCell'[i2] \notin closing'[i]
    <3> SUFFICES ASSUME NEW i \in Jobs, NEW i2 \in Jobs, Holds(i2)' PROVE jobCell'[i2] \notin closing'[i]
      OBVIOUS
    <3>1. CASE i2 = j
      BY <1>n, <1>1, <1>3, <3>1
    <3>2. CASE i2 # j
      BY <1>t, <1>1, <1>2, <1>3, <3>2 DEF HeldApart
    <3> QED BY <3>1, <3>2
  <2>4. \A i \in Jobs, x \in Chats :
          Holds(i)' /\ entries'[x].cell = jobCell'[i] => entries'[x].use /\ x = ChatOf[i]
    <3> SUFFICES ASSUME NEW i \in Jobs, NEW x \in Chats, Holds(i)', entries'[x].cell = jobCell'[i]
                 PROVE  entries'[x].use /\ x = ChatOf[i]
      OBVIOUS
    <3>1. entries'[x].cell # 0
      BY <2>1
    <3>2. CASE i = j
      BY <1>n, <1>1, <1>3, <3>1, <3>2 DEF k
    <3>3. CASE i # j
      <4>1. Holds(i) /\ jobCell'[i] = jobCell[i] /\ jobCell[i] # c
        BY <1>n, <1>1, <1>2, <3>3
      <4> QED BY <1>t, <1>3, <3>1, <4>1 DEF HeldApart
    <3> QED BY <3>2, <3>3
  <2> QED BY <2>1, <2>2, <2>3, <2>4 DEF HeldApart
<1>5. PoolApart'
  <2>1. \A x, y \in Chats : entries'[x].cell # 0 /\ entries'[x].cell = entries'[y].cell => x = y
    BY <1>t, <1>n, <1>3 DEF PoolApart
  <2>2. \A i \in Jobs, x \in Chats : entries'[x].cell \notin closing'[i]
    <3> SUFFICES ASSUME NEW i \in Jobs, NEW x \in Chats PROVE entries'[x].cell \notin closing'[i]
      OBVIOUS
    <3>1. CASE i = j
      BY <1>3, <3>1
    <3>2. CASE i # j /\ entries'[x].cell = 0
      BY <1>k, <1>3, <3>2
    <3>3. CASE i # j /\ entries'[x].cell # 0
      BY <1>t, <1>n, <1>3, <3>3 DEF PoolApart
    <3> QED BY <3>1, <3>2, <3>3
  <2> QED BY <2>1, <2>2 DEF PoolApart
<1>6. Unstarted'
  <2> SUFFICES ASSUME NEW d \in Containers, container'[d] = "none"
               PROVE  /\ \A i \in Jobs : jobCell'[i] # d /\ d \notin closing'[i]
                      /\ \A x \in Chats : entries'[x].cell # d
    BY DEF Unstarted
  <2>1. /\ d # c /\ container[d] = "none" /\ d # 0
        /\ \A i \in Jobs : jobCell[i] # d /\ d \notin closing[i]
        /\ \A x \in Chats : entries[x].cell # d
    BY <1>t, <1>k, <1>1 DEF Unstarted
  <2> QED BY <1>1, <1>3, <2>1
<1>7. HeldKept'
  <2> SUFFICES ASSUME NEW i \in Jobs, InCell(i)', container'[jobCell'[i]] = "removed" PROVE poolClosed'
    BY DEF HeldKept
  <2>1. i # j
    BY <1>1
  <2>2. InCell(i) /\ jobCell'[i] = jobCell[i]
    BY <1>1, <2>1 DEF InCell
  <2>3. jobCell[i] \in Containers \ {c}
    BY <1>t, <1>n, <2>2 DEF HeldApart, Holds, InCell
  <2> QED BY <1>t, <1>u, <1>1, <2>2, <2>3 DEF HeldKept
<1>8. JobsTrue'
  BY <1>t, <1>u, <1>n, <1>1 DEF JobsTrue, NothingLeftBehind
<1>9. CellsTyped'
  BY <1>u, <1>1, <1>3 DEF CellsInv, CellsTyped
<1> QED BY <1>4, <1>5, <1>6, <1>7, <1>8, <1>9 DEF CellsInv

\* A job gives its Cell back: parked in the pool, or closed.
LEMMA ReleaseKeeps ==
  ASSUME CellsInv, NEW j \in Jobs, NEW gone \in SUBSET {jobCell[j]}, Release(j, gone)
  PROVE  CellsInv'
<1> DEFINE k == ChatOf[j]
           c == jobCell[j]
<1>t. /\ jobAt \in [Jobs -> {"new", "probing", "throwaway", "building", "leased", "command", "over"}]
      /\ jobCell \in [Jobs -> Containers \cup {0}]
      /\ jobResult \in [Jobs -> {"none", "returned", "raised", "cancelled"}]
      /\ container \in [Containers -> {"none", "up", "dead", "removed"}]
      /\ closing \in [Jobs -> SUBSET Containers] /\ entries \in [Chats -> Entry]
      /\ HeldApart /\ PoolApart /\ Unstarted /\ HeldKept /\ JobsTrue
  BY DEF CellsInv, CellsTyped
<1>k. k \in Chats
  BY DEF Chats
<1>u. /\ UNCHANGED <<jobCell, jobPooled, closing, pooling, poolClosed>>
      /\ jobAt[j] = "leased" /\ Holds(j) /\ c \in Containers
      /\ jobAt' = [jobAt EXCEPT ![j] = "over"]
      /\ jobResult' = [jobResult EXCEPT ![j] = IF CloseRaises(gone) THEN "raised" ELSE "returned"]
  BY <1>t DEF Release, Holds, HeldApart
<1>1. /\ jobAt' \in [Jobs -> {"new", "probing", "throwaway", "building", "leased", "command", "over"}]
      /\ jobResult' \in [Jobs -> {"none", "returned", "raised", "cancelled"}]
      /\ jobAt'[j] = "over"
      /\ jobResult'[j] = IF CloseRaises(gone) THEN "raised" ELSE "returned"
      /\ \A i \in Jobs \ {j} : jobAt'[i] = jobAt[i] /\ jobResult'[i] = jobResult[i]
  BY <1>t, <1>u
<1>2. \A i \in Jobs : (Holds(i)' => Holds(i) /\ i # j) /\ (Holds(i)' => jobCell[i] # c)
  BY <1>t, <1>u, <1>1 DEF Holds, HeldApart, c
<1> HIDE DEF k, c
<1>3. CASE jobPooled[j] /\ entries[k].cell = c
  <2>1. /\ entries' = [entries EXCEPT ![k] = [entries[k] EXCEPT !.use = FALSE, !.old = FALSE]]
        /\ UNCHANGED container
    BY <1>3 DEF Release, k, c
  <2>2. /\ [entries[k] EXCEPT !.use = FALSE, !.old = FALSE] \in Entry
        /\ [entries[k] EXCEPT !.use = FALSE, !.old = FALSE].cell = entries[k].cell
    <3>1. entries[k] \in Entry
      BY <1>t, <1>k
    <3> QED BY <3>1, Zenon DEF Entry
  <2>3. /\ entries' \in [Chats -> Entry]
        /\ entries'[k].cell = c
        /\ \A x \in Chats : entries'[x].cell = entries[x].cell
        /\ \A x \in Chats \ {k} : entries'[x] = entries[x]
    BY <1>t, <1>k, <1>3, <2>1, <2>2
  <2>4. HeldApart'
    <3>1. \A i \in Jobs, x \in Chats :
            Holds(i)' /\ entries'[x].cell = jobCell'[i] => entries'[x].use /\ x = ChatOf[i]
      BY <1>t, <1>u, <1>2, <2>3 DEF HeldApart
    <3> QED BY <1>t, <1>u, <1>2, <3>1 DEF HeldApart
  <2>5. PoolApart'
    BY <1>t, <1>u, <2>3 DEF PoolApart
  <2>6. Unstarted'
    BY <1>t, <1>u, <2>1, <2>3 DEF Unstarted
  <2>7. HeldKept'
    BY <1>t, <1>u, <1>1, <2>1 DEF HeldKept, InCell
  <2>8. JobsTrue'
    BY <1>t, <1>u, <1>1, <1>3, <2>1 DEF JobsTrue, NothingLeftBehind
  <2>9. CellsTyped'
    BY <1>u, <1>1, <2>1, <2>3 DEF CellsInv, CellsTyped
  <2> QED BY <2>4, <2>5, <2>6, <2>7, <2>8, <2>9 DEF CellsInv
<1>4. CASE ~(jobPooled[j] /\ entries[k].cell = c)
  <2>1. UNCHANGED entries /\ Removed({c}, gone)
    BY <1>4 DEF Release, k, c
  <2>2. /\ container' \in [Containers -> {"none", "up", "dead", "removed"}]
        /\ \A d \in Containers : container'[d] = IF d \in gone THEN "removed" ELSE container[d]
    BY <1>t, <2>1, RemovedEffect
  <2>3. HeldApart' /\ PoolApart' /\ Unstarted'
    BY <1>t, <1>u, <1>1, <1>2, <2>1, <2>2, PlacesKept
  <2>4. HeldKept'
    <3> SUFFICES ASSUME NEW i \in Jobs, InCell(i)', container'[jobCell'[i]] = "removed" PROVE poolClosed'
      BY DEF HeldKept
    <3>1. Holds(i) /\ i # j /\ jobCell[i] # c /\ InCell(i)
      BY <1>1, <1>2 DEF Holds, InCell
    <3>2. jobCell[i] \in Containers /\ jobCell[i] \notin gone
      BY <1>t, <3>1 DEF HeldApart, c
    <3> QED BY <1>t, <1>u, <2>2, <3>1, <3>2 DEF HeldKept
  <2>5. JobsTrue'
    <3>1. NothingLeftBehind'
      <4> SUFFICES ASSUME NEW i \in Jobs, ~pooling', jobResult'[i] = "returned", jobCell'[i] # 0
                   PROVE  container'[jobCell'[i]] = "removed"
        BY DEF NothingLeftBehind
      <4>1. CASE i = j
        <5>1. gone # {}
          BY <1>1, <1>u, <4>1 DEF CloseRaises
        <5> QED BY <1>u, <2>2, <4>1, <5>1 DEF c
      <4>2. CASE i # j
        BY <1>t, <1>u, <1>1, <2>2, <4>2 DEF JobsTrue, NothingLeftBehind
      <4> QED BY <4>1, <4>2
    <3> QED BY <1>t, <1>u, <1>1, <3>1 DEF JobsTrue
  <2>6. CellsTyped'
    BY <1>u, <1>1, <2>1, <2>2 DEF CellsInv, CellsTyped
  <2> QED BY <2>3, <2>4, <2>5, <2>6 DEF CellsInv
<1> QED BY <1>3, <1>4

LEMMA BuildFailsKeeps ==
  ASSUME CellsInv, NEW j \in Jobs, NEW c \in Containers, NEW gone \in BOOLEAN, BuildFails(j, c, gone)
  PROVE  CellsInv'
<1>t. /\ jobAt \in [Jobs -> {"new", "probing", "throwaway", "building", "leased", "command", "over"}]
      /\ jobCell \in [Jobs -> Containers \cup {0}]
      /\ jobResult \in [Jobs -> {"none", "returned", "raised", "cancelled"}]
      /\ container \in [Containers -> {"none", "up", "dead", "removed"}]
      /\ closing \in [Jobs -> SUBSET Containers]
      /\ HeldApart /\ PoolApart /\ Unstarted /\ HeldKept /\ JobsTrue
  BY DEF CellsInv, CellsTyped
<1>1. /\ UNCHANGED <<jobCell, jobPooled, closing, entries, pooling, poolClosed>>
      /\ jobAt[j] \in {"building", "throwaway"} /\ container[c] = "none"
      /\ jobAt' \in [Jobs -> {"new", "probing", "throwaway", "building", "leased", "command", "over"}]
      /\ jobResult' \in [Jobs -> {"none", "returned", "raised", "cancelled"}]
      /\ container' \in [Containers -> {"none", "up", "dead", "removed"}]
      /\ container'[c] # "none" /\ \A d \in Containers \ {c} : container'[d] = container[d]
      /\ jobAt'[j] = "over" /\ \A i \in Jobs \ {j} : jobAt'[i] = jobAt[i] /\ jobResult'[i] = jobResult[i]
  BY <1>t DEF BuildFails, Starts
<1>2. \A i \in Jobs : Holds(i)' => Holds(i)
  BY <1>1 DEF Holds
<1>3. HeldApart' /\ PoolApart' /\ Unstarted'
  BY <1>t, <1>1, <1>2, PlacesKept
<1>4. \A i \in Jobs : jobCell[i] # c
  BY <1>t, <1>1 DEF Unstarted
<1>5. HeldKept'
  <2> SUFFICES ASSUME NEW i \in Jobs, InCell(i)', container'[jobCell'[i]] = "removed" PROVE poolClosed'
    BY DEF HeldKept
  <2>1. InCell(i) /\ jobCell[i] \in Containers \ {c}
    BY <1>t, <1>1, <1>4 DEF InCell, Holds, HeldApart
  <2> QED BY <1>t, <1>1, <2>1 DEF HeldKept
<1>6. JobsTrue'
  <2>1. \A i \in Jobs : jobCell'[i] # 0 => jobCell[i] \in Containers \ {c}
    BY <1>t, <1>1, <1>4
  <2>2. NothingLeftBehind'
    BY <1>t, <1>1, <2>1 DEF JobsTrue, NothingLeftBehind
  <2> QED BY <1>t, <1>1, <2>2 DEF JobsTrue
<1>7. CellsTyped'
  BY <1>1 DEF CellsInv, CellsTyped
<1> QED BY <1>3, <1>5, <1>6, <1>7 DEF CellsInv

\* Closing an evicted Cell takes no Cell a job holds.
LEMMA EvictedKeeps ==
  ASSUME CellsInv, NEW j \in Jobs, NEW c \in closing[j], CloseEvicted(j, c)
  PROVE  CellsInv'
<1>t. /\ jobAt \in [Jobs -> {"new", "probing", "throwaway", "building", "leased", "command", "over"}]
      /\ container \in [Containers -> {"none", "up", "dead", "removed"}]
      /\ jobCell \in [Jobs -> Containers \cup {0}]
      /\ closing \in [Jobs -> SUBSET Containers]
      /\ HeldApart /\ PoolApart /\ Unstarted /\ HeldKept /\ JobsTrue
  BY DEF CellsInv, CellsTyped
<1>u. /\ UNCHANGED <<jobAt, jobCell, jobPooled, jobResult, entries, pooling, poolClosed>>
      /\ closing' = [closing EXCEPT ![j] = closing[j] \ {c}]
  BY DEF CloseEvicted
<1>1. PICK gone \in SUBSET {c} : Removed({c}, gone)
  BY DEF CloseEvicted
<1>2. /\ container' \in [Containers -> {"none", "up", "dead", "removed"}]
      /\ \A d \in Containers : container'[d] = IF d \in gone THEN "removed" ELSE container[d]
  BY <1>t, <1>1, RemovedEffect
<1>3. /\ closing' \in [Jobs -> SUBSET Containers]
      /\ \A i \in Jobs : closing'[i] \subseteq closing[i]
  BY <1>t, <1>u
<1>4. HeldApart' /\ PoolApart' /\ Unstarted'
  BY <1>t, <1>u, <1>2, <1>3, PlacesKept DEF Holds
<1>5. HeldKept'
  <2> SUFFICES ASSUME NEW i \in Jobs, InCell(i)', container'[jobCell'[i]] = "removed" PROVE poolClosed'
    BY DEF HeldKept
  <2>1. InCell(i) /\ jobCell[i] \in Containers \ {c}
    BY <1>t, <1>u DEF InCell, Holds, HeldApart
  <2> QED BY <1>t, <1>u, <1>1, <1>2, <2>1 DEF HeldKept
<1>6. JobsTrue'
  BY <1>t, <1>u, <1>2 DEF JobsTrue, NothingLeftBehind
<1>7. CellsTyped'
  BY <1>u, <1>2, <1>3 DEF CellsInv, CellsTyped
<1> QED BY <1>4, <1>5, <1>6, <1>7 DEF CellsInv

\* close_all() takes every Cell out of the pool, those in use too.
LEMMA CloseAllKeeps ==
  ASSUME CellsInv, CloseAll PROVE CellsInv'
<1>t. /\ jobAt \in [Jobs -> {"new", "probing", "throwaway", "building", "leased", "command", "over"}]
      /\ jobCell \in [Jobs -> Containers \cup {0}]
      /\ container \in [Containers -> {"none", "up", "dead", "removed"}]
      /\ closing \in [Jobs -> SUBSET Containers]
      /\ HeldApart /\ PoolApart /\ Unstarted /\ HeldKept /\ JobsTrue
  BY DEF CellsInv, CellsTyped
<1>k. 0 \notin Containers
  BY DEF Containers
<1> DEFINE cells == {entries[k].cell : k \in Chats} \ {0}
<1>u. /\ UNCHANGED <<jobAt, jobCell, jobPooled, jobResult, closing, pooling>>
      /\ pooling /\ poolClosed' = TRUE /\ entries' = [k \in Chats |-> NoEntry]
  BY DEF CloseAll
<1>1. PICK gone \in SUBSET cells : Removed(cells, gone)
  BY DEF CloseAll
<1>2. /\ container' \in [Containers -> {"none", "up", "dead", "removed"}]
      /\ \A d \in Containers : container'[d] = IF d \in gone THEN "removed" ELSE container[d]
  BY <1>t, <1>1, RemovedEffect
<1>3. NoEntry \in Entry /\ NoEntry.cell = 0
  BY DEF NoEntry, Entry
<1>4. entries' \in [Chats -> Entry] /\ \A k \in Chats : entries'[k].cell = 0
  BY <1>u, <1>3
<1>5. HeldApart' /\ PoolApart'
  BY <1>t, <1>k, <1>u, <1>4 DEF HeldApart, PoolApart, Holds
<1>6. Unstarted'
  BY <1>t, <1>k, <1>u, <1>2, <1>4 DEF Unstarted
<1>7. HeldKept' /\ JobsTrue'
  BY <1>t, <1>u DEF HeldKept, JobsTrue, NothingLeftBehind
<1>8. CellsTyped'
  BY <1>u, <1>2, <1>4 DEF CellsInv, CellsTyped
<1> QED BY <1>5, <1>6, <1>7, <1>8 DEF CellsInv

\* A free entry that grows old is the same entry.
LEMMA AgingKeeps ==
  ASSUME CellsInv, NEW k \in Chats, TimePasses(k) PROVE CellsInv'
<1>t. /\ entries \in [Chats -> Entry]
      /\ HeldApart /\ PoolApart /\ Unstarted /\ HeldKept /\ JobsTrue
  BY DEF CellsInv, CellsTyped
<1>u. /\ UNCHANGED <<jobAt, jobCell, jobPooled, jobResult, closing, container, pooling, poolClosed>>
      /\ entries' = [entries EXCEPT ![k] = [entries[k] EXCEPT !.old = TRUE]]
  BY DEF TimePasses
<1>1. /\ [entries[k] EXCEPT !.old = TRUE] \in Entry
      /\ [entries[k] EXCEPT !.old = TRUE].cell = entries[k].cell
      /\ [entries[k] EXCEPT !.old = TRUE].use = entries[k].use
  <2>1. entries[k] \in Entry
    BY <1>t
  <2> QED BY <2>1, Zenon DEF Entry
<1>2. /\ entries' \in [Chats -> Entry]
      /\ \A x \in Chats : entries'[x].cell = entries[x].cell /\ entries'[x].use = entries[x].use
  BY <1>t, <1>u, <1>1
<1>3. HeldApart' /\ PoolApart' /\ Unstarted'
  BY <1>t, <1>u, <1>2 DEF HeldApart, PoolApart, Unstarted, Holds
<1>4. HeldKept' /\ JobsTrue'
  BY <1>t, <1>u DEF HeldKept, JobsTrue, NothingLeftBehind, InCell
<1>5. CellsTyped'
  BY <1>u, <1>2 DEF CellsInv, CellsTyped
<1> QED BY <1>3, <1>4, <1>5 DEF CellsInv

\* What moves jobs between commands, or lets a container die, moves no Cell.
LEMMA StagesKeep ==
  ASSUME CellsInv,
         UNCHANGED <<jobCell, jobPooled, entries, pooling, poolClosed>>,
         jobAt' \in [Jobs -> {"new", "probing", "throwaway", "building", "leased", "command", "over"}],
         jobResult' \in [Jobs -> {"none", "returned", "raised", "cancelled"}],
         container' \in [Containers -> {"none", "up", "dead", "removed"}],
         closing' \in [Jobs -> SUBSET Containers], \A j \in Jobs : closing'[j] \subseteq closing[j],
         \A c \in Containers : container'[c] = container[c] \/ (container[c] = "up" /\ container'[c] = "dead"),
         \A j \in Jobs : \/ jobAt'[j] = jobAt[j] /\ jobResult'[j] = jobResult[j]
                         \/ jobAt'[j] = "over" /\ jobResult'[j] = "cancelled"
                         \/ ~pooling /\ jobAt[j] = "new" /\ jobAt'[j] = "throwaway" /\ jobResult'[j] = jobResult[j]
                         \/ InCell(j) /\ jobAt'[j] \in {"leased", "command"} /\ jobResult'[j] = jobResult[j]
  PROVE  CellsInv'
<1>t. /\ jobCell \in [Jobs -> Containers \cup {0}]
      /\ HeldApart /\ PoolApart /\ Unstarted /\ HeldKept /\ JobsTrue
  BY DEF CellsInv, CellsTyped
<1>1. \A j \in Jobs : (Holds(j)' => Holds(j)) /\ (InCell(j)' => InCell(j))
  BY DEF Holds, InCell
<1>2. HeldApart' /\ PoolApart' /\ Unstarted'
  BY <1>1, PlacesKept
<1>3. HeldKept'
  <2> SUFFICES ASSUME NEW i \in Jobs, InCell(i)', container'[jobCell'[i]] = "removed" PROVE poolClosed'
    BY DEF HeldKept
  <2>1. InCell(i) /\ jobCell[i] \in Containers
    BY <1>t, <1>1 DEF InCell, Holds, HeldApart
  <2>2. container[jobCell[i]] = "removed"
    BY <2>1
  <2> QED BY <1>t, <2>1, <2>2 DEF HeldKept
<1>4. JobsTrue'
  <2>1. NothingLeftBehind'
    BY <1>t DEF JobsTrue, NothingLeftBehind
  <2>2. ~pooling' => \A j \in Jobs : jobAt'[j] \notin {"probing", "building"} /\ ~jobPooled'[j]
    BY <1>t DEF JobsTrue
  <2>3. \A j \in Jobs : jobAt'[j] \in {"new", "building", "throwaway"} => jobCell'[j] = 0
    BY <1>t DEF JobsTrue
  <2>4. \A j \in Jobs : jobResult'[j] # "none" => jobAt'[j] = "over"
    BY <1>t DEF JobsTrue, InCell
  <2> QED BY <2>1, <2>2, <2>3, <2>4 DEF JobsTrue
<1>5. CellsTyped'
  BY DEF CellsInv, CellsTyped
<1> QED BY <1>2, <1>3, <1>4, <1>5 DEF CellsInv

LEMMA CellsGoOn ==
  ASSUME CellsInv, [CellsNext]_cellVars PROVE CellsInv'
<1>t. /\ jobAt \in [Jobs -> {"new", "probing", "throwaway", "building", "leased", "command", "over"}]
      /\ jobResult \in [Jobs -> {"none", "returned", "raised", "cancelled"}]
      /\ container \in [Containers -> {"none", "up", "dead", "removed"}]
      /\ closing \in [Jobs -> SUBSET Containers]
  BY DEF CellsInv, CellsTyped
<1>1. ASSUME NEW j \in Jobs, JobStep(j) PROVE CellsInv'
  <2>1. CASE Acquire(j)
    BY <2>1, AcquireKeeps
  <2>2. CASE BuildAlone(j)
    BY <1>t, <2>2, StagesKeep DEF BuildAlone
  <2>3. CASE Probe(j)
    BY <2>3, ProbeKeeps
  <2>4. CASE \E c \in closing[j] : CloseEvicted(j, c)
    BY <2>4, EvictedKeeps
  <2>5. CASE \E c \in Containers, victims \in SUBSET Chats : Built(j, c, victims)
    BY <2>5, BuiltKeeps
  <2>6. CASE \E c \in Containers, gone \in BOOLEAN : BuildFails(j, c, gone)
    BY <2>6, BuildFailsKeeps
  <2>7. CASE RunCommand(j)
    BY <1>t, <2>7, StagesKeep DEF RunCommand, Working, InCell
  <2>8. CASE CommandEnds(j)
    BY <1>t, <2>8, StagesKeep DEF CommandEnds, InCell
  <2>9. CASE Worktree(j)
    BY <1>t, <2>9, StagesKeep DEF Worktree
  <2>10. CASE CancelUnsettled(j)
    BY <1>t, <2>10, StagesKeep DEF CancelUnsettled
  <2>11. CASE \E stopped \in BOOLEAN : CommandAbandoned(j, stopped)
    BY <1>t, <2>11, StagesKeep DEF CommandAbandoned, InCell
  <2>12. CASE \E gone \in SUBSET {jobCell[j]} : Release(j, gone)
    BY <2>12, ReleaseKeeps
  <2> QED BY <1>1, <2>1, <2>2, <2>3, <2>4, <2>5, <2>6, <2>7, <2>8, <2>9, <2>10, <2>11, <2>12 DEF JobStep
<1>2. ASSUME NEW c \in Containers, ContainerDies(c) PROVE CellsInv'
  BY <1>t, <1>2, StagesKeep DEF ContainerDies
<1>3. ASSUME NEW c \in Containers, NEW j \in processes[c], ProcessEnds(c, j) PROVE CellsInv'
  BY <1>t, <1>3, StagesKeep DEF ProcessEnds
<1>4. CASE \E k \in Chats : TimePasses(k)
  BY <1>4, AgingKeeps
<1>5. CASE CloseAll
  BY <1>5, CloseAllKeeps
<1>6. CASE UNCHANGED cellVars
  BY <1>t, <1>6, StagesKeep DEF cellVars
<1> QED BY <1>1, <1>2, <1>3, <1>4, <1>5, <1>6 DEF CellsNext

\* cellpool.py and run_job(): whatever jobs there are, whichever Cells the pool
\* evicts and whenever it stops, a Cell is held by one job, free, or put aside.
THEOREM CellsShape == CellsSpec => []CellsInv
<1>1. CellsInit => CellsInv
  BY CellsStart
<1>2. CellsInv /\ [CellsNext]_cellVars => CellsInv'
  BY CellsGoOn
<1> QED BY <1>1, <1>2, PTL DEF CellsSpec

\* run_job() and CellPool: nobody takes a job's Cell away while it works, short
\* of close_all(), and a job without a pool returns only when its Cell is gone.
THEOREM CellsAlwaysSound == CellsSpec => []CellsSound
<1>1. CellsInv => CellsSound
  BY DEF CellsInv, CellsSound, HeldApart, HeldKept, JobsTrue, LeaseExclusive, Holds, InCell
<1> QED BY <1>1, CellsShape, PTL

=============================================================================
