---------------------------- MODULE ProjectTasks ----------------------------
(***************************************************************************)
(* One project folder and the tasks that work on copies of it              *)
(* (services/projects.py, project_lifecycle.py, project_workspace.py and    *)
(* the claims of forge/workshop.py). A task is claimed by a compare-and-set, *)
(* claims the folder in the Workshop, copies it or its predecessor's        *)
(* artifact, works in a Cell and records its artifact. The owner integrates *)
(* artifacts and rolls integrations back. Contents are abstract revisions.  *)
(***************************************************************************)
EXTENDS Naturals, FiniteSets

CONSTANTS
  Tasks,
  DependsOn,        \* the predecessors of each task
  RunOf,            \* the run whose dispatcher executes it
  Operations,       \* integrations and rollbacks by the owner
  MaxRevisions,     \* bound on the contents ever written
  MaxHostDeaths     \* bound on process deaths

ASSUME ProjectAssumption ==
  /\ IsFiniteSet(Tasks) /\ Tasks \intersect Operations = {}
  /\ DependsOn \in [Tasks -> SUBSET Tasks]
  /\ {MaxRevisions, MaxHostDeaths} \subseteq Nat

VARIABLES
  task,             \* ProjectTask: status, cancelled and the recorded revisions
  taskJob,          \* where run_task() stands
  lockHolder,       \* project_locks: at most one task of this process
  claim,            \* Workshop runs: none, running, interrupted, done
  cell,             \* tasks whose Cell may be alive
  folder,           \* revision of the canonical folder
  artifact,         \* revision of each retained artifact
  written,          \* revisions handed out so far
  operation,        \* ProjectOperation of an integration or a rollback
  checkpointRev,    \* Workshop checkpoint revision
  hostDeaths

projectVars == <<task, taskJob, lockHolder, claim, cell, folder, artifact, written, operation,
                 checkpointRev, hostDeaths>>

Claimants == Tasks \union Operations
NewTask == [status |-> "none", cancelled |-> FALSE, canon |-> 0, base |-> 0, rev |-> 0,
            handoff |-> 0]
NewOperation == [at |-> "none", status |-> "none", kind |-> "integrate", from |-> "none",
                 before |-> 0, after |-> 0]

ProjectInit ==
  /\ task = [t \in Tasks |-> NewTask]
  /\ taskJob = [t \in Tasks |-> "none"]
  /\ lockHolder = {}
  /\ claim = [c \in Claimants |-> "none"]
  /\ cell = {} /\ folder = 1 /\ written = 1
  /\ artifact = [t \in Tasks |-> 0]
  /\ operation = [o \in Operations |-> NewOperation]
  /\ checkpointRev = 0 /\ hostDeaths = 0

JobGoes(t, place) == taskJob' = [taskJob EXCEPT ![t] = place]
TaskEnds(t) == JobGoes(t, "none") /\ lockHolder' = lockHolder \ {t}
Claimed == {c \in Claimants : claim[c] \in {"running", "interrupted"}}

(***************************************************************************)
(* Delegation and dispatch                                                 *)
(***************************************************************************)
Delegate(t) ==
  /\ task[t].status = "none"
  /\ \A d \in DependsOn[t] : task[d].status # "none"
  /\ task' = [task EXCEPT ![t].status = "queued"]
  /\ UNCHANGED <<taskJob, lockHolder, claim, cell, folder, artifact, written, operation,
                 checkpointRev, hostDeaths>>

Ready(t) == task[t].status = "queued" /\ \A d \in DependsOn[t] : task[d].status = "succeeded"

\* _drain(): one task of a run at a time, taken by a compare-and-set.
TakeTask(t) ==
  /\ Ready(t)
  /\ \A u \in Tasks : RunOf[u] = RunOf[t] => taskJob[u] = "none"
  /\ task' = [task EXCEPT ![t].status = "staging"]
  /\ JobGoes(t, "lock")
  /\ UNCHANGED <<lockHolder, claim, cell, folder, artifact, written, operation,
                 checkpointRev, hostDeaths>>

\* A task whose predecessor did not succeed is blocked once nothing is ready.
BlockTask(t) ==
  /\ task[t].status = "queued" /\ \A u \in Tasks : RunOf[u] = RunOf[t] => ~Ready(u)
  /\ \E d \in DependsOn[t] : task[d].status \notin {"queued", "staging", "running", "succeeded"}
  /\ task' = [task EXCEPT ![t].status = "blocked"]
  /\ UNCHANGED <<taskJob, lockHolder, claim, cell, folder, artifact, written, operation,
                 checkpointRev, hostDeaths>>

\* run_task() waits for the lock of the project, or learns that it was stopped.
LockProject(t) ==
  /\ taskJob[t] = "lock"
  /\ \/ lockHolder = {} /\ lockHolder' = {t} /\ JobGoes(t, "claim") /\ UNCHANGED task
     \/ /\ task[t].cancelled
        /\ TaskEnds(t) /\ task' = [task EXCEPT ![t].status = "cancelled"]
  /\ UNCHANGED <<claim, cell, folder, artifact, written, operation, checkpointRev, hostDeaths>>

\* A mistake: an exception gives the folder free.
HoldReleased(t) ==
  /\ claim' = [claim EXCEPT ![t] = IF @ = "running" THEN "done" ELSE @]
  /\ task' = [task EXCEPT ![t].status = "reconciling", ![t].rev = 0]
  /\ TaskEnds(t)
  /\ UNCHANGED <<cell, folder, artifact, written, operation, checkpointRev, hostDeaths>>

\* The except branch of _run_task(): the claim stays, the outcome is open.
Hold(t) ==
  /\ claim' = [claim EXCEPT ![t] = IF @ = "running" THEN "interrupted" ELSE @]
  /\ task' = [task EXCEPT ![t].status = "reconciling", ![t].rev = 0]
  /\ TaskEnds(t)
  /\ UNCHANGED <<cell, folder, artifact, written, operation, checkpointRev, hostDeaths>>

\* A mistake: Workshop.claim() ignores interrupted claims.
ClaimFreeRunning(c) == \A o \in Claimants : claim[o] # "running"

\* Workshop.claim(): neither a running nor an interrupted claim may overlap.
ClaimFree(c) == Claimed = {} /\ claim[c] = "none"

\* _run_task() up to the claim of the folder.
ClaimFolder(t) ==
  /\ taskJob[t] = "claim"
  /\ IF task[t].cancelled
     THEN /\ TaskEnds(t) /\ task' = [task EXCEPT ![t].status = "cancelled"]
          /\ UNCHANGED <<claim, cell, folder, artifact, written, operation, checkpointRev, hostDeaths>>
     ELSE IF ~ClaimFree(t) THEN Hold(t)
     ELSE /\ claim' = [claim EXCEPT ![t] = "running"]
          /\ task' = [task EXCEPT ![t].handoff = checkpointRev]
          /\ JobGoes(t, "read")
          /\ UNCHANGED <<lockHolder, cell, folder, artifact, written, operation,
                         checkpointRev, hostDeaths>>

\* The revision of the folder is read before anything is copied.
ReadFolder(t) ==
  /\ taskJob[t] = "read"
  /\ task' = [task EXCEPT ![t].canon = folder]
  /\ JobGoes(t, "copy")
  /\ UNCHANGED <<lockHolder, claim, cell, folder, artifact, written, operation,
                 checkpointRev, hostDeaths>>

\* A mistake: a predecessor's artifact is copied as it is found.
SourceFoundAsIs(t) ==
  IF \A d \in DependsOn[t] : task[d].rev = 0 THEN folder
  ELSE artifact[CHOOSE d \in DependsOn[t] : TRUE]

\* What the task starts from: the folder, or the exact artifact of the single
\* predecessor that has one while the folder is still the one that predecessor
\* saw; else 0, a refusal.
SourceOf(t) ==
  LET have == {d \in DependsOn[t] : task[d].rev # 0}
  IN  IF have = {} THEN folder
      ELSE IF Cardinality(have) > 1 THEN 0
      ELSE LET d == CHOOSE d \in have : TRUE
           IN  IF task[t].canon \in {task[d].rev, task[d].canon} /\ artifact[d] = task[d].rev
               THEN artifact[d] ELSE 0

\* snapshot() into the task's workspace, and the Cell starts.
Stage(t) ==
  /\ taskJob[t] = "copy"
  /\ IF SourceOf(t) = 0 THEN Hold(t)
     ELSE /\ artifact' = [artifact EXCEPT ![t] = SourceOf(t)]
          /\ task' = [task EXCEPT ![t].status = "running", ![t].base = SourceOf(t)]
          /\ JobGoes(t, "work")
          /\ cell' = cell \union {t}
          /\ UNCHANGED <<lockHolder, claim, folder, written, operation, checkpointRev, hostDeaths>>

(***************************************************************************)
(* Execution                                                               *)
(***************************************************************************)

\* The Cell writes; a Cell that lost its supervisor does so as well.
CellWrites(t) ==
  /\ t \in cell /\ written < MaxRevisions
  /\ written' = written + 1
  /\ artifact' = [artifact EXCEPT ![t] = written']
  /\ UNCHANGED <<task, taskJob, lockHolder, claim, cell, folder, operation,
                 checkpointRev, hostDeaths>>

\* execute() returns after a verified teardown of the Cell.
CellReturns(t) ==
  /\ taskJob[t] = "work"
  /\ cell' = cell \ {t}
  /\ JobGoes(t, "record")
  /\ UNCHANGED <<task, lockHolder, claim, folder, artifact, written, operation,
                 checkpointRev, hostDeaths>>

RecordResult(t) ==
  /\ taskJob[t] = "record"
  /\ \E s \in {IF task[t].cancelled THEN "cancelled" ELSE "succeeded", "failed"} :
       task' = [task EXCEPT ![t].status = s, ![t].rev = artifact[t]]
  /\ JobGoes(t, "finish")
  /\ UNCHANGED <<lockHolder, claim, cell, folder, artifact, written, operation,
                 checkpointRev, hostDeaths>>

\* Workshop.finish() releases the folder,
FinishClaim(t) ==
  /\ taskJob[t] = "finish"
  /\ claim' = [claim EXCEPT ![t] = "done"]
  /\ JobGoes(t, "checkpoint")
  /\ UNCHANGED <<task, lockHolder, cell, folder, artifact, written, operation,
                 checkpointRev, hostDeaths>>

\* and the checkpoint is saved unless a newer one is there.
SaveCheckpoint(t) ==
  /\ taskJob[t] = "checkpoint"
  /\ checkpointRev' = checkpointRev + (IF checkpointRev = task[t].handoff THEN 1 ELSE 0)
  /\ TaskEnds(t)
  /\ UNCHANGED <<task, claim, cell, folder, artifact, written, operation, hostDeaths>>

\* An exception: a model error, an unknown receipt, a Cell that will not close.
TaskFails(t) == taskJob[t] \notin {"none", "lock", "claim"} /\ Hold(t)

\* stop_task(), stop_run().
StopTask(t) ==
  /\ task[t].status \in {"queued", "staging", "running"} /\ ~task[t].cancelled
  /\ task' = [task EXCEPT ![t].cancelled = TRUE,
                          ![t].status = IF @ = "queued" THEN "cancelled" ELSE @]
  /\ UNCHANGED <<taskJob, lockHolder, claim, cell, folder, artifact, written, operation,
                 checkpointRev, hostDeaths>>

HostDies ==
  /\ hostDeaths < MaxHostDeaths
  /\ hostDeaths' = hostDeaths + 1
  /\ taskJob' = [t \in Tasks |-> "none"] /\ lockHolder' = {}
  /\ operation' = [o \in Operations |-> [operation[o] EXCEPT !.at = "none"]]
  /\ UNCHANGED <<task, claim, cell, folder, artifact, written, checkpointRev>>

\* The operator closes the Cell and then the claim (forge/workshop.py main).
OperatorReconciles(c) ==
  /\ claim[c] \in {"running", "interrupted"}
  /\ IF c \in Tasks THEN taskJob[c] = "none" ELSE operation[c].at = "none"
  /\ claim' = [claim EXCEPT ![c] = "done"]
  /\ cell' = cell \ {c}
  /\ UNCHANGED <<task, taskJob, lockHolder, folder, artifact, written, operation,
                 checkpointRev, hostDeaths>>

(***************************************************************************)
(* The owner: edits, integration, rollback                                 *)
(***************************************************************************)
EditFolder ==
  /\ written < MaxRevisions
  /\ written' = written + 1 /\ folder' = written'
  /\ UNCHANGED <<task, taskJob, lockHolder, claim, cell, artifact, operation,
                 checkpointRev, hostDeaths>>

\* Retained artifacts are ordinary files of the host.
EditArtifact(t) ==
  /\ task[t].status = "succeeded" /\ written < MaxRevisions
  /\ written' = written + 1 /\ artifact' = [artifact EXCEPT ![t] = written']
  /\ UNCHANGED <<task, taskJob, lockHolder, claim, cell, folder, operation,
                 checkpointRev, hostDeaths>>

\* integrate(): changes() compared the folder with the task's source.
Integrate(o, t) ==
  /\ operation[o] = NewOperation
  /\ task[t].status = "succeeded" /\ artifact[t] = task[t].rev
  /\ folder = task[t].canon
  /\ operation' = [operation EXCEPT ![o] =
       [at |-> "claim", status |-> "none", kind |-> "integrate", from |-> t,
        before |-> folder, after |-> artifact[t]]]
  /\ UNCHANGED <<task, taskJob, lockHolder, claim, cell, folder, artifact, written,
                 checkpointRev, hostDeaths>>

\* rollback() of a completed operation, from its retained backup.
Rollback(o, p) ==
  /\ operation[o] = NewOperation
  /\ operation[p].status = "complete"
  /\ operation' = [operation EXCEPT ![o] =
       [at |-> "claim", status |-> "none", kind |-> "rollback", from |-> p,
        before |-> folder, after |-> operation[p].before]]
  /\ UNCHANGED <<task, taskJob, lockHolder, claim, cell, folder, artifact, written,
                 checkpointRev, hostDeaths>>

\* _apply(): the claim, then the backup and the operation's row.
ClaimForApply(o) ==
  /\ operation[o].at = "claim"
  /\ IF ClaimFree(o) /\ folder = operation[o].before
     THEN /\ claim' = [claim EXCEPT ![o] = "running"]
          /\ operation' = [operation EXCEPT ![o].at = "apply", ![o].status = "prepared"]
     ELSE operation' = [operation EXCEPT ![o].at = "none"] /\ UNCHANGED claim
  /\ UNCHANGED <<task, taskJob, lockHolder, cell, folder, artifact, written,
                 checkpointRev, hostDeaths>>

\* apply_snapshot() compares both sides again before it writes; an error on
\* the way leaves a mixture and holds the operation.
ApplySnapshot(o) ==
  /\ operation[o].at = "apply"
  /\ \/ /\ folder = operation[o].before
        /\ operation[o].kind = "integrate" => artifact[operation[o].from] = operation[o].after
        /\ folder' = operation[o].after
        /\ operation' = [operation EXCEPT ![o].at = "settle"]
        /\ UNCHANGED <<claim, written>>
     \/ /\ \/ folder' = folder /\ UNCHANGED written
           \/ /\ written < MaxRevisions /\ folder = operation[o].before
              /\ written' = written + 1 /\ folder' = written'
        /\ claim' = [claim EXCEPT ![o] = "interrupted"]
        /\ operation' = [operation EXCEPT ![o].at = "none", ![o].status = "reconciling"]
  /\ UNCHANGED <<task, taskJob, lockHolder, cell, artifact, checkpointRev, hostDeaths>>

SettleOperation(o) ==
  /\ operation[o].at = "settle"
  /\ claim' = [claim EXCEPT ![o] = "done"]
  /\ operation' = [operation EXCEPT ![o].at = "none", ![o].status = "complete"]
  /\ UNCHANGED <<task, taskJob, lockHolder, cell, folder, artifact, written,
                 checkpointRev, hostDeaths>>

ProjectNext ==
  \/ HostDies \/ EditFolder
  \/ \E t \in Tasks :
       \/ Delegate(t) \/ TakeTask(t) \/ BlockTask(t) \/ LockProject(t) \/ ClaimFolder(t)
       \/ ReadFolder(t) \/ Stage(t) \/ CellWrites(t) \/ CellReturns(t) \/ RecordResult(t)
       \/ FinishClaim(t) \/ SaveCheckpoint(t) \/ TaskFails(t) \/ StopTask(t)
       \/ EditArtifact(t)
  \/ \E c \in Claimants : OperatorReconciles(c)
  \/ \E o \in Operations :
       \/ ClaimForApply(o) \/ ApplySnapshot(o) \/ SettleOperation(o)
       \/ \E t \in Tasks : Integrate(o, t)
       \/ \E p \in Operations : Rollback(o, p)

ProjectSpec == ProjectInit /\ [][ProjectNext]_projectVars

(***************************************************************************)
(* Properties                                                              *)
(***************************************************************************)

\* Whoever fails, stops or dies, at most one party works from the folder: a
\* Cell that may be alive excludes every other task and every integration
\* until the operator has closed it ("one writer per project").
OneWriter ==
  Cardinality(cell \union {o \in Operations : operation[o].at \in {"apply", "settle"}}) <= 1

\* A dependent task that runs or has succeeded started from exactly the
\* content its predecessor recorded, as long as that record stands.
DependentExact ==
  \A t \in Tasks : task[t].status \in {"running", "succeeded"} =>
    \A d \in DependsOn[t] : task[d].rev # 0 => task[t].base = task[d].rev
=============================================================================
