------------------------ MODULE CoordinationProofs --------------------------
(***************************************************************************)
(* Proofs about module Coordination, for any number of processes, rooms,   *)
(* runs and contributions, with and without stalls, crashes and overlap.   *)
(***************************************************************************)
EXTENDS Coordination, TLAPS

\* Changing a field of a task to a value of the field's type keeps it a task.
LEMMA TaskFields ==
  ASSUME NEW t \in Tasks
  PROVE  /\ \A v \in PCs : [t EXCEPT !.pc = v] \in Tasks
         /\ \A v \in Ordinals : [t EXCEPT !.cur = v] \in Tasks
         /\ \A v \in {"error", "cancelled"} : [t EXCEPT !.exc = v] \in Tasks
         /\ \A v \in BOOLEAN : [t EXCEPT !.kids = v] \in Tasks
         /\ \A v \in BOOLEAN : [t EXCEPT !.beat = v] \in Tasks
         /\ \A v \in BOOLEAN : [t EXCEPT !.settle = v] \in Tasks
<1>1. \A v \in PCs : [t EXCEPT !.pc = v] \in Tasks BY DEF Tasks
<1>2. \A v \in Ordinals : [t EXCEPT !.cur = v] \in Tasks BY DEF Tasks
<1>3. \A v \in {"error", "cancelled"} : [t EXCEPT !.exc = v] \in Tasks BY DEF Tasks
<1>4. \A v \in BOOLEAN : [t EXCEPT !.kids = v] \in Tasks BY DEF Tasks
<1>5. \A v \in BOOLEAN : [t EXCEPT !.beat = v] \in Tasks BY DEF Tasks
<1>6. \A v \in BOOLEAN : [t EXCEPT !.settle = v] \in Tasks BY DEF Tasks
<1> QED BY <1>1, <1>2, <1>3, <1>4, <1>5, <1>6

LEMMA ZeroOrdinal == 0 \in Ordinals
BY CoordinationAssumption DEF Ordinals

LEMMA IdleTaskType == IdleTask \in Tasks
BY ZeroOrdinal DEF IdleTask, Tasks, PCs

\* The records the except branch, settle(), finally and a cancellation leave.
LEMMA TaskRecords ==
  ASSUME NEW t \in Tasks
  PROVE  /\ \A e \in {"error", "cancelled"} : Raising(t, e) \in Tasks
         /\ Settled(t) \in Tasks
         /\ Ended(t) \in Tasks
         /\ Interrupted(t) \subseteq Tasks
         /\ Interrupted(t) # {}
<1>1. ASSUME NEW e \in {"error", "cancelled"} PROVE Raising(t, e) \in Tasks
  BY ZeroOrdinal DEF Raising, Tasks, PCs
<1>2. Settled(t) \in Tasks
  BY DEF Settled, Tasks, PCs
<1>3. Ended(t) \in Tasks
  BY ZeroOrdinal DEF Ended, IdleTask, Tasks, PCs
<1>4. \A v \in PCs : [t EXCEPT !.pc = v] \in Tasks
  BY TaskFields
<1>5. [t EXCEPT !.pc = "finally", !.exc = "error"] \in Tasks
  BY DEF Tasks, PCs
<1>6. /\ "none" \in PCs /\ "finally" \in PCs
  BY DEF PCs
<1>7. Raising(t, "cancelled") \in Tasks
  BY <1>1
<1>8. Interrupted(t) \subseteq Tasks /\ Interrupted(t) # {}
  BY <1>3, <1>4, <1>5, <1>6, <1>7 DEF Interrupted
<1> QED BY <1>1, <1>2, <1>3, <1>8

\* What the helpers of the tasks of one process return.
LEMMA TaskFunctions ==
  ASSUME TypeOK, NEW p \in Procs, NEW r \in Runs
  PROVE  /\ task[p] \in [Runs -> Tasks] /\ task[p][r] \in Tasks
         /\ \A pc \in PCs : Goto(p, r, pc) \in [Runs -> Tasks]
         /\ \A e \in {"error", "cancelled"} : Raised(p, r, e) \in [Runs -> Tasks]
         /\ \A ts \in [Runs -> Tasks], S \in SUBSET Runs :
              Launched(p, ts, S) \in [Runs -> Tasks]
         /\ \A ts \in [Runs -> Tasks] :
              SetTasks(p, ts) => task' \in [Procs -> [Runs -> Tasks]]
<1>1. task \in [Procs -> [Runs -> Tasks]]
  BY DEF TypeOK
<1>2. \A pc \in PCs : Goto(p, r, pc) \in [Runs -> Tasks]
  BY ZenonT(60), <1>1, TaskFields DEF Goto
<1>3. \A e \in {"error", "cancelled"} : Raised(p, r, e) \in [Runs -> Tasks]
  BY <1>1, TaskRecords DEF Raised
<1>4. \A ts \in [Runs -> Tasks], S \in SUBSET Runs : Launched(p, ts, S) \in [Runs -> Tasks]
  BY TaskFields DEF Launched, PCs
<1>5. \A ts \in [Runs -> Tasks] : SetTasks(p, ts) => task' \in [Procs -> [Runs -> Tasks]]
  BY <1>1 DEF SetTasks
<1> QED BY <1>1, <1>2, <1>3, <1>4, <1>5

-----------------------------------------------------------------------------
(* Type correctness. *)

\* advance_room keeps the types of the variables it writes.
LEMMA AdvanceRoomType ==
  ASSUME TypeOK, NEW p \in Procs, NEW rm \in Rooms, NEW ts \in [Runs -> Tasks],
         AdvanceRoom(p, rm, ts)
  PROVE  /\ status' \in [Runs -> RunStatus]
         /\ active' \in [Rooms -> Runs \cup {NoRun}]
         /\ task' \in [Procs -> [Runs -> Tasks]]
<1>1. task \in [Procs -> [Runs -> Tasks]]
  BY DEF TypeOK
<1>2. \A S \in SUBSET Runs : Launched(p, ts, S) \in [Runs -> Tasks]
  BY TaskFields DEF Launched, PCs
<1>3. task' \in [Procs -> [Runs -> Tasks]]
  <2>1. SetTasks(p, ts) \/ \E n \in Runs : SetTasks(p, Launched(p, ts, {n}))
    BY DEF AdvanceRoom, Waiting
  <2> QED BY ZenonT(60), <1>1, <1>2, <2>1 DEF SetTasks
<1>4. status' \in [Runs -> RunStatus]
  BY ZenonT(60) DEF AdvanceRoom, TypeOK, RunStatus
<1>5. active' \in [Rooms -> Runs \cup {NoRun}]
  BY DEF AdvanceRoom, TypeOK, Waiting
<1> QED BY <1>3, <1>4, <1>5

\* recover() keeps the types of the variables it writes.
LEMMA RecoveredType ==
  ASSUME TypeOK, NEW p \in Procs, Recovered(p)
  PROVE  /\ status' \in [Runs -> RunStatus]
         /\ worker' \in [Runs -> WorkerStatus]
         /\ active' \in [Rooms -> Runs \cup {NoRun}]
         /\ task' \in [Procs -> [Runs -> Tasks]]
         /\ recovering' \in [Procs -> SUBSET Rooms]
<1>1. task \in [Procs -> [Runs -> Tasks]]
  BY DEF TypeOK
<1>2. \A S \in SUBSET Runs : Launched(p, task[p], S) \in [Runs -> Tasks]
  BY <1>1, TaskFields DEF Launched, PCs
<1>3. task' \in [Procs -> [Runs -> Tasks]]
  BY <1>1, <1>2 DEF Recovered, SetTasks
<1>4. status' \in [Runs -> RunStatus] /\ worker' \in [Runs -> WorkerStatus]
  BY DEF Recovered, TypeOK, RunStatus, WorkerStatus
<1>5. active' \in [Rooms -> Runs \cup {NoRun}]
  BY DEF Recovered, SlotsWithout, TypeOK
<1>6. recovering' \in [Procs -> SUBSET Rooms]
  BY DEF Recovered, TypeOK
<1> QED BY <1>3, <1>4, <1>5, <1>6

\* Holding a receipt keeps receipts receipts.
LEMMA HeldType ==
  ASSUME TypeOK, NEW p \in Procs, NEW r \in Runs
  PROVE  /\ \A k \in Ordinals : Held(r, k) \in [Runs -> [Ordinals -> ReceiptStatus]]
         /\ HeldBy(p, r) \in [Runs -> [Ordinals -> ReceiptStatus]]
<1>1. receipt \in [Runs -> [Ordinals -> ReceiptStatus]]
  BY DEF TypeOK
<1>2. \A k \in Ordinals : Held(r, k) \in [Runs -> [Ordinals -> ReceiptStatus]]
  BY <1>1 DEF Held, ReceiptStatus
<1>3. task[p][r].cur \in Ordinals
  BY TaskFunctions DEF Tasks
<1> QED BY <1>1, <1>2, <1>3 DEF HeldBy

\* The slot after a run gives it up is a slot.
LEMMA FreedType ==
  ASSUME TypeOK, NEW r \in Runs
  PROVE  Freed(r) \in [Rooms -> Runs \cup {NoRun}]
BY DEF Freed, TypeOK

\* Writing the status of one step, or counting its answer, keeps the types.
LEMMA StepWrite ==
  ASSUME TypeOK, NEW r \in Runs, NEW k \in Ordinals, NEW v \in StepStatus
  PROVE  [step EXCEPT ![r][k] = v] \in [Runs -> [Ordinals -> StepStatus]]
BY DEF TypeOK

LEMMA DeliveredWrite ==
  ASSUME TypeOK, NEW r \in Runs, NEW k \in Ordinals
  PROVE  [delivered EXCEPT ![r][k] = @ + 1] \in [Runs -> [Ordinals -> Nat]]
<1>1. delivered \in [Runs -> [Ordinals -> Nat]] /\ delivered[r][k] + 1 \in Nat
  BY DEF TypeOK
<1> QED BY <1>1

\* The steps of an execute() task keep the types.
LEMMA TaskStepType ==
  ASSUME TypeOK, NEW p \in Procs, NEW r \in Runs, TaskStep(p, r)
  PROVE  TypeOK'
<1> DEFINE T == [Procs -> [Runs -> Tasks]]
<1>a. /\ task[p] \in [Runs -> Tasks] /\ task[p][r] \in Tasks /\ task[p][r].cur \in Ordinals
  BY TaskFunctions DEF Tasks
<1>b. RoomOf[r] \in Rooms
  BY CoordinationAssumption
<1>s. /\ step \in [Runs -> [Ordinals -> StepStatus]]
      /\ delivered \in [Runs -> [Ordinals -> Nat]]
      /\ {"running", "cancelled", "succeeded"} \subseteq StepStatus
  BY DEF TypeOK, StepStatus
<1>w. /\ [step EXCEPT ![r][task[p][r].cur] = "cancelled"] \in [Runs -> [Ordinals -> StepStatus]]
      /\ [step EXCEPT ![r][task[p][r].cur] = "succeeded"] \in [Runs -> [Ordinals -> StepStatus]]
      /\ [delivered EXCEPT ![r][task[p][r].cur] = @ + 1] \in [Runs -> [Ordinals -> Nat]]
  BY <1>a, <1>s, StepWrite, DeliveredWrite
<1>1. CASE Claim(p, r)
  <2>1. Goto(p, r, "finally") \in [Runs -> Tasks] /\ Goto(p, r, "loop") \in [Runs -> Tasks]
    BY TaskFunctions DEF PCs
  <2>2. [Goto(p, r, "loop") EXCEPT ![r].beat = TRUE] \in [Runs -> Tasks]
    BY <2>1, TaskFields
  <2>3. task' \in T
    BY <1>1, <2>1, <2>2, TaskFunctions DEF Claim
  <2> QED BY ZenonT(60), <1>1, <2>3 DEF Claim, TypeOK, RunStatus
<1>2. CASE PickStep(p, r)
  <2>1. \A k \in Ordinals : [Goto(p, r, "speak") EXCEPT ![r].cur = k] \in [Runs -> Tasks]
    BY ZenonT(120), TaskFunctions, TaskFields DEF PCs
  <2>2. Goto(p, r, "finish") \in [Runs -> Tasks] /\ Raised(p, r, "error") \in [Runs -> Tasks]
    BY TaskFunctions DEF PCs
  <2>3. task' \in T
    BY <1>2, <2>1, <2>2, TaskFunctions DEF PickStep
  <2>4. step' \in [Runs -> [Ordinals -> StepStatus]]
    <3>1. CASE UNCHANGED step
      BY <1>s, <3>1
    <3>2. CASE step' # step
      <4>1. PICK k \in Ordinals : step' = [step EXCEPT ![r][k] = "running"]
        BY <1>2, <3>2 DEF PickStep
      <4>2. [step EXCEPT ![r][k] = "running"] \in [Runs -> [Ordinals -> StepStatus]]
        BY <1>s, StepWrite
      <4> QED BY <4>1, <4>2
    <3> QED BY <3>1, <3>2
  <2> QED BY <1>2, <2>3, <2>4 DEF PickStep, TypeOK
<1>3. CASE SendCall(p, r)
  <2>1. task' \in T
    BY <1>3, TaskFunctions DEF SendCall, PCs
  <2>2. receipt' \in [Runs -> [Ordinals -> ReceiptStatus]]
    BY <1>3 DEF SendCall, TypeOK, ReceiptStatus
  <2>3. sends' \in [Runs -> [Ordinals -> Nat]]
    BY <1>a, <1>3 DEF SendCall, TypeOK
  <2> QED BY <1>3, <2>1, <2>2, <2>3 DEF SendCall, TypeOK
<1>4. CASE ReplayCall(p, r)
  <2>1. task' \in T
    BY <1>4, TaskFunctions DEF ReplayCall, PCs
  <2> QED BY <1>4, <2>1 DEF ReplayCall, TypeOK, dbVars
<1>c. [Goto(p, r, "loop") EXCEPT ![r].cur = 0] \in [Runs -> Tasks]
  BY ZenonT(120), TaskFunctions, TaskFields, ZeroOrdinal DEF PCs
<1>d. ASSUME SpeakError(p, r)
      PROVE  task' \in T /\ step' \in [Runs -> [Ordinals -> StepStatus]]
  <2>1. task' \in T
    BY <1>c, <1>d, TaskFunctions DEF SpeakError
  <2>2. step' \in [Runs -> [Ordinals -> StepStatus]]
    BY <1>d, <1>s, <1>w DEF SpeakError
  <2> QED BY <2>1, <2>2
<1>5. CASE CallRefused(p, r)
  BY <1>d, <1>5 DEF CallRefused, TypeOK
<1>6. CASE CallCompletes(p, r)
  <2>1. task' \in T
    BY <1>6, TaskFunctions DEF CallCompletes, PCs
  <2>2. receipt' \in [Runs -> [Ordinals -> ReceiptStatus]]
    BY <1>a, <1>6 DEF CallCompletes, TypeOK, ReceiptStatus
  <2> QED BY <1>6, <2>1, <2>2 DEF CallCompletes, TypeOK
<1>7. CASE CallFails(p, r)
  <2>1. receipt' \in [Runs -> [Ordinals -> ReceiptStatus]]
    BY <1>a, <1>7, HeldType DEF CallFails
  <2> QED BY <1>d, <1>7, <2>1 DEF CallFails, TypeOK
<1>8. CASE Collaborate(p, r)
  BY <1>8 DEF Collaborate, TypeOK, StepStatus
<1>9. CASE Delegate(p, r)
  BY <1>9 DEF Delegate, TypeOK, WorkerStatus
<1>10. CASE Deliver(p, r)
  <2>1. task' \in T
    BY <1>c, <1>10, TaskFunctions DEF Deliver
  <2>2. step' \in [Runs -> [Ordinals -> StepStatus]]
    BY <1>10, <1>s, <1>w DEF Deliver
  <2>3. delivered' \in [Runs -> [Ordinals -> Nat]]
    BY <1>10, <1>s, <1>w DEF Deliver
  <2> QED BY <1>10, <2>1, <2>2, <2>3 DEF Deliver, TypeOK
<1>11. CASE Finish(p, r)
  <2> DEFINE kids == (worker[r] = "active")
  <2>k. kids \in BOOLEAN
    OBVIOUS
  <2>g. Goto(p, r, "advance") \in [Runs -> Tasks]
    BY TaskFunctions DEF PCs
  <2> HIDE DEF kids
  <2>1. [Goto(p, r, "advance") EXCEPT ![r].kids = kids] \in [Runs -> Tasks]
    BY <2>k, <2>g, TaskFields
  <2>2. task' \in T
    BY <1>11, <2>1, TaskFunctions DEF Finish, kids
  <2>3. status' \in [Runs -> RunStatus]
    BY <1>11 DEF Finish, TypeOK, RunStatus
  <2>4. active' \in [Rooms -> Runs \cup {NoRun}]
    BY <1>11, FreedType DEF Finish
  <2> QED BY <1>11, <2>2, <2>3, <2>4 DEF Finish, TypeOK
<1>12. CASE AdvanceAfterFinish(p, r)
  <2>1. Goto(p, r, IF task[p][r].kids THEN "wait" ELSE "finally") \in [Runs -> Tasks]
    BY TaskFunctions DEF PCs
  <2> QED BY <1>b, <1>12, <2>1, AdvanceRoomType DEF AdvanceAfterFinish, TypeOK
<1>13. CASE WorkersFinished(p, r)
  <2>1. [Goto(p, r, "finally") EXCEPT ![r].kids = FALSE] \in [Runs -> Tasks]
    BY ZenonT(120), TaskFunctions, TaskFields DEF PCs
  <2>2. task' \in T
    BY <1>13, <2>1, TaskFunctions DEF WorkersFinished
  <2>3. status' \in [Runs -> RunStatus]
    BY <1>13 DEF WorkersFinished, TypeOK, RunStatus
  <2> QED BY <1>13, <2>2, <2>3 DEF WorkersFinished, TypeOK
<1>14. CASE StopChildren(p, r)
  <2>1. [Goto(p, r, "settling") EXCEPT ![r].settle = TRUE] \in [Runs -> Tasks]
    BY ZenonT(120), TaskFunctions, TaskFields DEF PCs
  <2>2. task' \in T
    BY <1>14, <2>1, TaskFunctions DEF StopChildren
  <2>3. worker' \in [Runs -> WorkerStatus]
    BY <1>14 DEF StopChildren, StopWorkers, TypeOK, WorkerStatus
  <2> QED BY <1>14, <2>2, <2>3 DEF StopChildren, TypeOK
<1>15. CASE Settle(p, r)
  <2>1. [task[p] EXCEPT ![r] = Settled(@)] \in [Runs -> Tasks]
    BY <1>a, TaskRecords
  <2>2. task' \in T
    BY <1>15, <2>1, TaskFunctions DEF Settle
  <2>3. status' \in [Runs -> RunStatus] /\ active' \in [Rooms -> Runs \cup {NoRun}]
    BY ZenonT(60), <1>15, FreedType DEF Settle, TypeOK, RunStatus
  <2> QED BY <1>15, <2>2, <2>3 DEF Settle, TypeOK
<1>16. CASE Finally(p, r)
  <2>1. [task[p] EXCEPT ![r] = Ended(@)] \in [Runs -> Tasks]
    BY <1>a, TaskRecords
  <2> QED BY <1>b, <1>16, <2>1, AdvanceRoomType DEF Finally, TypeOK
<1> QED
  BY <1>1, <1>2, <1>3, <1>4, <1>5, <1>6, <1>7, <1>8, <1>9, <1>10, <1>11, <1>12,
     <1>13, <1>14, <1>15, <1>16 DEF TaskStep

\* Heartbeats, workers, time, owner requests and process events keep the types.
LEMMA OtherStepType ==
  ASSUME TypeOK, NEW p \in Procs, NEW r \in Runs,
         \/ WorkerEnds(p, r) \/ Heartbeat(p, r) \/ OwnerStep(p, r) \/ CancelGoesOn(p, r)
         \/ ProcessStep(p) \/ LeaseLapses(r) \/ DeadlinePasses(r)
  PROVE  TypeOK'
<1> DEFINE T == [Procs -> [Runs -> Tasks]]
<1>a. task[p] \in [Runs -> Tasks] /\ task[p][r] \in Tasks
  BY TaskFunctions
<1>b. RoomOf[r] \in Rooms
  BY CoordinationAssumption
<1>c. ASSUME NEW t \in Interrupted(task[p][r]), SetTasks(p, [task[p] EXCEPT ![r] = t])
      PROVE  task' \in T
  <2>1. [task[p] EXCEPT ![r] = t] \in [Runs -> Tasks]
    BY <1>a, <1>c, TaskRecords
  <2> QED BY <1>c, <2>1, TaskFunctions
<1>1. CASE WorkerEnds(p, r)
  BY <1>1 DEF WorkerEnds, TypeOK, WorkerStatus
<1>2. CASE Heartbeat(p, r)
  <2>1. [task[p] EXCEPT ![r].beat = FALSE] \in [Runs -> Tasks]
    BY <1>a, TaskFields
  <2>2. [task[p][r] EXCEPT !.beat = FALSE] \in Tasks
    BY <1>a, TaskFields
  <2>3. \A t \in Interrupted([task[p][r] EXCEPT !.beat = FALSE]) :
          [task[p] EXCEPT ![r] = t] \in [Runs -> Tasks]
    BY <1>a, <2>2, TaskRecords
  <2>4. task' \in T
    BY <1>2, <2>1, <2>3, TaskFunctions DEF Heartbeat, TypeOK
  <2>5. receipt' \in [Runs -> [Ordinals -> ReceiptStatus]]
    BY <1>2, HeldType DEF Heartbeat, TypeOK
  <2>6. lease' \in [Runs -> BOOLEAN]
    BY <1>2 DEF Heartbeat, TypeOK
  <2> QED BY <1>2, <2>4, <2>5, <2>6 DEF Heartbeat, TypeOK
<1>3. CASE Start(p, r)
  <2>0. Launched(p, task[p], {r}) \in [Runs -> Tasks]
    BY <1>a, TaskFunctions
  <2>1. task' \in T
    BY <1>3, <2>0, TaskFunctions DEF Start, TypeOK
  <2>2. status' \in [Runs -> RunStatus] /\ active' \in [Rooms -> Runs \cup {NoRun}]
    BY ZenonT(60), <1>b, <1>3 DEF Start, TypeOK, RunStatus
  <2>3. step' \in [Runs -> [Ordinals -> StepStatus]]
    BY <1>3, ZeroOrdinal DEF Start, TypeOK, StepStatus
  <2> QED BY <1>3, <2>1, <2>2, <2>3 DEF Start, TypeOK
<1>4. CASE Cancel(p, r)
  <2>1. status' \in [Runs -> RunStatus] /\ active' \in [Rooms -> Runs \cup {NoRun}]
    BY ZenonT(60), <1>4, FreedType DEF Cancel, TypeOK, RunStatus
  <2>2. step' \in [Runs -> [Ordinals -> StepStatus]]
    <3>1. step \in [Runs -> [Ordinals -> StepStatus]]
      BY DEF TypeOK
    <3>2. [k \in Ordinals |-> IF step[r][k] = "queued" THEN "cancelled" ELSE step[r][k]]
            \in [Ordinals -> StepStatus]
      BY <3>1 DEF StepStatus
    <3> QED BY <1>4, <3>1, <3>2 DEF Cancel
  <2>3. cancelled' \in [Runs -> BOOLEAN] /\ cancelling' \in [Procs -> SUBSET Runs]
    BY <1>4 DEF Cancel, TypeOK
  <2> QED BY <1>4, <2>1, <2>2, <2>3 DEF Cancel, TypeOK
<1>5. CASE Resume(p, r)
  <2>1. task' \in T
    BY ZenonT(60), <1>5, TaskFunctions DEF Resume, TypeOK
  <2>2. step' \in [Runs -> [Ordinals -> StepStatus]]
    BY <1>5 DEF Resume, Requeued, TypeOK, StepStatus
  <2>3. /\ status' \in [Runs -> RunStatus] /\ active' \in [Rooms -> Runs \cup {NoRun}]
        /\ executor' \in [Runs -> Procs \cup {NoProc}]
    BY <1>b, <1>5 DEF Resume, TypeOK, RunStatus
  <2> QED BY <1>5, <2>1, <2>2, <2>3 DEF Resume, TypeOK
<1>6. CASE CancelGoesOn(p, r)
  <2>1. cancelling' \in [Procs -> SUBSET Runs]
    BY <1>6 DEF CancelGoesOn, TypeOK
  <2>2. CASE task[p][r].pc # "none"
    <3>1. task' \in T
      BY <1>6, <2>2, <1>c DEF CancelGoesOn
    <3>2. receipt' \in [Runs -> [Ordinals -> ReceiptStatus]]
      BY <1>6, <2>2, HeldType DEF CancelGoesOn
    <3>3. worker' \in [Runs -> WorkerStatus]
      BY ZenonT(60), <1>6, <2>2 DEF CancelGoesOn, StopWorkers, TypeOK, WorkerStatus
    <3> QED BY <1>6, <2>1, <2>2, <3>1, <3>2, <3>3 DEF CancelGoesOn, TypeOK
  <2>3. CASE task[p][r].pc = "none"
    BY <1>6, <2>1, <2>3, RecoveredType DEF CancelGoesOn, TypeOK
  <2> QED BY <2>2, <2>3
<1>7. CASE Recover(p)
  BY <1>7, RecoveredType DEF Recover, TypeOK
<1>8. CASE Boot(p)
  BY <1>8, RecoveredType DEF Boot, TypeOK
<1>9. CASE Shutdown(p)
  <2>1. PICK ts \in [Runs -> UNION {Interrupted(task[p][q]) : q \in Runs}] :
          (\A q \in Runs : ts[q] \in Interrupted(task[p][q])) /\ SetTasks(p, ts)
    BY <1>9 DEF Shutdown
  <2>2. \A q \in Runs : Interrupted(task[p][q]) \subseteq Tasks
    BY <1>a, TaskRecords
  <2>3. ts \in [Runs -> Tasks]
    BY <2>1, <2>2
  <2>4. task' \in T
    BY <2>1, <2>3, TaskFunctions
  <2>5. \A q \in Runs : HeldBy(p, q) \in [Runs -> [Ordinals -> ReceiptStatus]]
    BY HeldType
  <2>6. receipt' \in [Runs -> [Ordinals -> ReceiptStatus]]
    BY <1>9, <2>5 DEF Shutdown
  <2> QED BY <1>9, <2>4, <2>6 DEF Shutdown, TypeOK
<1>10. CASE Exit(p)
  <2>1. [q \in Runs |-> IdleTask] \in [Runs -> Tasks]
    BY IdleTaskType
  <2>2. task' \in T
    BY <1>10, <2>1, TaskFunctions DEF Exit
  <2> QED BY <1>10, <2>2 DEF Exit, TypeOK, dbVars
<1>11. CASE LeaseLapses(r)
  BY <1>11 DEF LeaseLapses, TypeOK
<1>12. CASE DeadlinePasses(r)
  BY <1>12 DEF DeadlinePasses, TypeOK
<1> QED
  BY <1>1, <1>2, <1>3, <1>4, <1>5, <1>6, <1>7, <1>8, <1>9, <1>10, <1>11, <1>12
  DEF OwnerStep, ProcessStep

\* TypeOK is an invariant of the specification.
THEOREM TypeCorrect == Spec => []TypeOK
<1>1. Init => TypeOK
  BY CoordinationAssumption, IdleTaskType
  DEF Init, TypeOK, RunStatus, StepStatus, ReceiptStatus, WorkerStatus
<1>2. TypeOK /\ [Next]_vars => TypeOK'
  <2> SUFFICES ASSUME TypeOK, [Next]_vars PROVE TypeOK'
    OBVIOUS
  <2>1. CASE \E p \in Procs, r \in Runs :
               TaskStep(p, r) \/ WorkerEnds(p, r) \/ Heartbeat(p, r)
               \/ OwnerStep(p, r) \/ CancelGoesOn(p, r)
    BY <2>1, TaskStepType, OtherStepType
  <2>2. CASE \E p \in Procs : ProcessStep(p)
    <3>1. 1 \in Runs
      BY CoordinationAssumption DEF Runs
    <3> QED BY <2>2, <3>1, OtherStepType
  <2>3. CASE \E p \in Procs, rm \in Rooms : RecoverAdvances(p, rm)
    <3>1. PICK p \in Procs, rm \in Rooms : RecoverAdvances(p, rm)
      BY <2>3
    <3>2. task[p] \in [Runs -> Tasks]
      BY DEF TypeOK
    <3>3. recovering' \in [Procs -> SUBSET Rooms]
      BY <3>1 DEF RecoverAdvances, TypeOK
    <3> QED BY <3>1, <3>2, <3>3, AdvanceRoomType DEF RecoverAdvances, TypeOK
  <2>4. CASE \E r \in Runs : LeaseLapses(r) \/ DeadlinePasses(r)
    BY ZenonT(60), <2>4 DEF LeaseLapses, DeadlinePasses, TypeOK
  <2>5. CASE \E r \in Runs, k \in Ordinals : StopReply(r, k)
    <3>1. PICK r \in Runs, k \in Ordinals : StopReply(r, k)
      BY <2>5
    <3>2. Stopped(step[r][k]) \in StepStatus
      BY DEF Stopped, StepStatus
    <3>3. [step EXCEPT ![r][k] = Stopped(step[r][k])] \in [Runs -> [Ordinals -> StepStatus]]
      BY <3>2, StepWrite
    <3>4. step' \in [Runs -> [Ordinals -> StepStatus]]
      BY <3>1, <3>3 DEF StopReply
    <3> QED BY <3>1, <3>4 DEF StopReply, TypeOK
  <2>6. CASE UNCHANGED vars
    BY <2>6 DEF vars, dbVars, TypeOK
  <2> QED BY <2>1, <2>2, <2>3, <2>4, <2>5, <2>6 DEF Next
<1> QED BY <1>1, <1>2, PTL DEF Spec

-----------------------------------------------------------------------------
(* The speaking slot. *)

\* advance_room gives a free slot to one waiting run.
LEMMA AdvanceRoomSlot ==
  ASSUME TypeOK, SlotHeld, NEW p \in Procs, NEW rm \in Rooms, NEW ts,
         AdvanceRoom(p, rm, ts)
  PROVE  SlotHeld'
<1>1. CASE UNCHANGED <<status, active>>
  BY <1>1 DEF SlotHeld, Slotted
<1>2. CASE /\ active[rm] = NoRun
           /\ \E n \in Waiting(rm) :
                /\ status' = [q \in Runs |->
                     IF q = n THEN "queued"
                     ELSE IF q \in Waiting(rm) /\ q < n
                          THEN IF cancelled[q] THEN "cancelled" ELSE "expired"
                          ELSE status[q]]
                /\ active' = [active EXCEPT ![rm] = n]
  <2>1. PICK n \in Waiting(rm) :
          /\ status' = [q \in Runs |->
               IF q = n THEN "queued"
               ELSE IF q \in Waiting(rm) /\ q < n
                    THEN IF cancelled[q] THEN "cancelled" ELSE "expired"
                    ELSE status[q]]
          /\ active' = [active EXCEPT ![rm] = n]
    BY <1>2
  <2> SUFFICES ASSUME NEW r \in Runs, status'[r] \in Slotted
               PROVE  active'[RoomOf[r]] = r
    BY DEF SlotHeld
  <2>2. CASE r = n
    BY <2>1, <2>2 DEF Waiting, TypeOK
  <2>3. CASE r # n
    <3>1. status[r] \in Slotted
      BY <2>1, <2>3 DEF Slotted
    <3>2. active[RoomOf[r]] = r
      BY <3>1 DEF SlotHeld
    <3>3. RoomOf[r] # rm
      BY <1>2, <3>2 DEF NoRun, Runs
    <3> QED BY <2>1, <3>2, <3>3, CoordinationAssumption DEF TypeOK
  <2> QED BY <2>2, <2>3
<1>3. CASE /\ status' = [q \in Runs |->
                IF q \in Waiting(rm) THEN IF cancelled[q] THEN "cancelled" ELSE "expired"
                ELSE status[q]]
           /\ UNCHANGED active
  BY <1>3 DEF SlotHeld, Slotted
<1> QED BY <1>1, <1>2, <1>3 DEF AdvanceRoom

\* A run that leaves the slotted statuses and gives its slot up hurts no other.
LEMMA FreedSlot ==
  ASSUME TypeOK, SlotHeld, NEW r \in Runs, NEW s, s \notin Slotted,
         status' = [status EXCEPT ![r] = s],
         active' = Freed(r) \/ active' = active
  PROVE  SlotHeld'
<1> SUFFICES ASSUME NEW q \in Runs, status'[q] \in Slotted
             PROVE  active'[RoomOf[q]] = q
  BY DEF SlotHeld
<1>1. q # r /\ status[q] \in Slotted
  BY DEF TypeOK
<1>2. active[RoomOf[q]] = q
  BY <1>1 DEF SlotHeld
<1> QED BY <1>1, <1>2, CoordinationAssumption DEF Freed, TypeOK

\* recover() takes a slot only from the runs it sends to reconciliation.
LEMMA RecoveredSlot ==
  ASSUME TypeOK, SlotHeld, NEW p \in Procs, Recovered(p)
  PROVE  SlotHeld'
<1> SUFFICES ASSUME NEW q \in Runs, status'[q] \in Slotted
             PROVE  active'[RoomOf[q]] = q
  BY DEF SlotHeld
<1>1. ~LeaseLost(q) /\ status[q] \in Slotted
  BY DEF Recovered, Slotted
<1>2. active[RoomOf[q]] = q /\ RoomOf[q] \in Rooms
  BY <1>1, CoordinationAssumption DEF SlotHeld
<1> QED BY <1>1, <1>2 DEF Recovered, SlotsWithout

\* A run that takes a free slot becomes its only holder.
LEMMA TakenSlot ==
  ASSUME TypeOK, SlotHeld, NEW r \in Runs, active[RoomOf[r]] = NoRun,
         status' = [status EXCEPT ![r] = "queued"],
         active' = [active EXCEPT ![RoomOf[r]] = r]
  PROVE  SlotHeld'
<1> SUFFICES ASSUME NEW q \in Runs, status'[q] \in Slotted
             PROVE  active'[RoomOf[q]] = q
  BY DEF SlotHeld
<1>1. CASE q = r
  BY <1>1, CoordinationAssumption DEF TypeOK
<1>2. CASE q # r
  <2>1. active[RoomOf[q]] = q
    BY <1>2 DEF SlotHeld, TypeOK
  <2>2. RoomOf[q] # RoomOf[r]
    BY <2>1 DEF NoRun, Runs
  <2> QED BY <2>1, <2>2, CoordinationAssumption DEF TypeOK
<1> QED BY <1>1, <1>2

\* Every step of the specification keeps the slot with the run that speaks.
LEMMA SlotStep ==
  ASSUME TypeOK, SlotHeld, [Next]_vars
  PROVE  SlotHeld'
<1>1. CASE UNCHANGED <<status, active>>
  BY <1>1 DEF SlotHeld, Slotted
<1>2. ASSUME NEW p \in Procs, NEW r \in Runs, Claim(p, r) PROVE SlotHeld'
  <2>1. CASE status[r] = "queued"
    BY <1>2, <2>1 DEF Claim, SlotHeld, Slotted, TypeOK
  <2>2. CASE status[r] # "queued"
    BY <1>1, <1>2, <2>2 DEF Claim
  <2> QED BY <2>1, <2>2
<1>3. ASSUME NEW p \in Procs, NEW r \in Runs, Finish(p, r) PROVE SlotHeld'
  BY <1>3, FreedSlot DEF Finish, Slotted
<1>4. ASSUME NEW p \in Procs, NEW r \in Runs, WorkersFinished(p, r) PROVE SlotHeld'
  <2>1. \A q \in Runs : status'[q] \in Slotted => status[q] \in Slotted
    BY <1>4 DEF WorkersFinished, Slotted, TypeOK
  <2>2. active' = active
    BY <1>4 DEF WorkersFinished
  <2> QED BY <2>1, <2>2 DEF SlotHeld
<1>5. ASSUME NEW p \in Procs, NEW r \in Runs, Settle(p, r) PROVE SlotHeld'
  <2>1. CASE executor[r] = p
    BY <1>5, <2>1, FreedSlot DEF Settle, Slotted
  <2>2. CASE executor[r] # p
    BY <1>1, <1>5, <2>2 DEF Settle
  <2> QED BY <2>1, <2>2
<1>6. ASSUME NEW p \in Procs, NEW r \in Runs, AdvanceAfterFinish(p, r) \/ Finally(p, r)
      PROVE  SlotHeld'
  BY <1>6, AdvanceRoomSlot, CoordinationAssumption DEF AdvanceAfterFinish, Finally
<1>7. ASSUME NEW p \in Procs, NEW rm \in Rooms, RecoverAdvances(p, rm) PROVE SlotHeld'
  BY <1>7, AdvanceRoomSlot DEF RecoverAdvances
<1>8. ASSUME NEW p \in Procs, NEW r \in Runs, Start(p, r) PROVE SlotHeld'
  <2>1. CASE active[RoomOf[r]] = NoRun
    BY <1>8, <2>1, TakenSlot DEF Start
  <2>2. CASE active[RoomOf[r]] # NoRun
    BY <1>8, <2>2, FreedSlot DEF Start, Slotted
  <2> QED BY <2>1, <2>2
<1>9. ASSUME NEW p \in Procs, NEW r \in Runs, Cancel(p, r) PROVE SlotHeld'
  <2>1. CASE status[r] \in {"queued", "waiting_room"}
    BY <1>9, <2>1, FreedSlot DEF Cancel, Slotted
  <2>2. CASE status[r] \notin {"queued", "waiting_room"}
    BY <1>1, <1>9, <2>2 DEF Cancel
  <2> QED BY <2>1, <2>2
<1>10. ASSUME NEW p \in Procs, NEW r \in Runs, Resume(p, r) PROVE SlotHeld'
  BY <1>10, TakenSlot DEF Resume
<1>11. ASSUME NEW p \in Procs, Recovered(p) PROVE SlotHeld'
  BY <1>11, RecoveredSlot
<1>12. ASSUME NEW p \in Procs, NEW r \in Runs, CancelGoesOn(p, r) PROVE SlotHeld'
  BY <1>1, <1>11, <1>12 DEF CancelGoesOn
<1>13. ASSUME NEW p \in Procs, NEW r \in Runs, TaskStep(p, r) PROVE SlotHeld'
  <2>1. PickStep(p, r) \/ Deliver(p, r) => UNCHANGED <<status, active>>
    BY DEF PickStep, Deliver
  <2>2. SendCall(p, r) \/ ReplayCall(p, r) \/ CallRefused(p, r) => UNCHANGED <<status, active>>
    BY DEF SendCall, ReplayCall, CallRefused, dbVars
  <2>3. CallCompletes(p, r) \/ CallFails(p, r) => UNCHANGED <<status, active>>
    BY DEF CallCompletes, CallFails
  <2>4. Collaborate(p, r) \/ Delegate(p, r) \/ StopChildren(p, r) => UNCHANGED <<status, active>>
    BY DEF Collaborate, Delegate, StopChildren
  <2> QED BY <1>1, <1>2, <1>3, <1>4, <1>5, <1>6, <1>13, <2>1, <2>2, <2>3, <2>4 DEF TaskStep
<1>14. ASSUME NEW p \in Procs, ProcessStep(p) PROVE SlotHeld'
  <2>1. Recover(p) \/ Boot(p) => Recovered(p)
    BY DEF Recover, Boot
  <2>2. Shutdown(p) => UNCHANGED <<status, active>>
    BY DEF Shutdown
  <2>3. Exit(p) => UNCHANGED <<status, active>>
    BY DEF Exit, dbVars
  <2> QED BY <1>1, <1>11, <1>14, <2>1, <2>2, <2>3 DEF ProcessStep
<1>15. ASSUME NEW p \in Procs, NEW r \in Runs, WorkerEnds(p, r) \/ Heartbeat(p, r) PROVE SlotHeld'
  BY <1>1, <1>15 DEF WorkerEnds, Heartbeat
<1>16. ASSUME NEW r \in Runs,
              LeaseLapses(r) \/ DeadlinePasses(r) \/ \E k \in Ordinals : StopReply(r, k)
       PROVE  SlotHeld'
  BY <1>1, <1>16 DEF LeaseLapses, DeadlinePasses, StopReply
<1>17. CASE UNCHANGED vars
  BY <1>1, <1>17 DEF vars, dbVars
<1> QED
  BY <1>7, <1>8, <1>9, <1>10, <1>12, <1>13, <1>14, <1>15, <1>16, <1>17
  DEF Next, OwnerStep

\* Whatever crashes, stalls, cancels and overlapping processes do, a run that is
\* queued or running holds its room's slot, so a room never has two speakers.
THEOREM SpeakingSlot == Spec => []SlotHeld
<1>1. Init => SlotHeld
  BY DEF Init, SlotHeld, Slotted
<1> QED BY <1>1, SlotStep, TypeCorrect, PTL DEF Spec

-----------------------------------------------------------------------------
(* At most one dispatch of a model call. *)

\* The strengthening: a call without a receipt has never left.
CallLedger ==
  \A r \in Runs, k \in Ordinals :
    sends[r][k] <= 1 /\ (receipt[r][k] = "none" => sends[r][k] = 0)

\* No step erases a receipt: hold() turns only a started one to unknown.
LEMMA HeldKeeps ==
  ASSUME TypeOK, NEW p \in Procs, NEW q \in Runs, NEW j \in Ordinals
  PROVE  \A r \in Runs, k \in Ordinals :
           /\ Held(q, j)[r][k] = "none" => receipt[r][k] = "none"
           /\ HeldBy(p, q)[r][k] = "none" => receipt[r][k] = "none"
<1>1. \A i \in Ordinals, r \in Runs, k \in Ordinals :
         Held(q, i)[r][k] = "none" => receipt[r][k] = "none"
  BY DEF Held, TypeOK
<1>2. task[p][q].cur \in Ordinals
  BY TaskFunctions DEF Tasks
<1> QED BY <1>1, <1>2 DEF HeldBy

\* A step that sends nothing and erases no receipt keeps the ledger.
LEMMA LedgerKept ==
  ASSUME CallLedger, UNCHANGED sends,
         \A r \in Runs, k \in Ordinals : receipt'[r][k] = "none" => receipt[r][k] = "none"
  PROVE  CallLedger'
BY DEF CallLedger

\* Every step of the specification keeps the ledger of calls.
LEMMA LedgerStep ==
  ASSUME TypeOK, CallLedger, [Next]_vars
  PROVE  CallLedger'
<1>1. CASE UNCHANGED <<receipt, sends>>
  BY <1>1, LedgerKept
<1>2. ASSUME NEW p \in Procs, NEW r \in Runs, SendCall(p, r) PROVE CallLedger'
  <2>1. task[p][r].cur \in Ordinals
    BY TaskFunctions DEF Tasks
  <2> DEFINE k == task[p][r].cur
  <2>2. sends[r][k] = 0
    BY <1>2, <2>1 DEF SendCall, MayDispatch, CallLedger
  <2>3. /\ receipt' = [receipt EXCEPT ![r][k] = "started"]
        /\ sends' = [sends EXCEPT ![r][k] = @ + 1]
    BY <1>2 DEF SendCall
  <2> QED BY <2>1, <2>2, <2>3 DEF CallLedger, TypeOK
<1>3. ASSUME NEW p \in Procs, NEW r \in Runs, CallCompletes(p, r) PROVE CallLedger'
  <2>1. task[p][r].cur \in Ordinals
    BY TaskFunctions DEF Tasks
  <2> QED BY <1>3, <2>1, LedgerKept DEF CallCompletes, TypeOK
<1>4. ASSUME NEW p \in Procs, NEW r \in Runs, CallFails(p, r) PROVE CallLedger'
  <2>1. task[p][r].cur \in Ordinals
    BY TaskFunctions DEF Tasks
  <2> QED BY <1>4, <2>1, HeldKeeps, LedgerKept DEF CallFails
<1>5. ASSUME NEW p \in Procs, NEW r \in Runs, Heartbeat(p, r) PROVE CallLedger'
  <2>1. receipt' = receipt \/ receipt' = HeldBy(p, r)
    BY <1>5 DEF Heartbeat
  <2> QED BY <1>5, <2>1, ZeroOrdinal, HeldKeeps, LedgerKept DEF Heartbeat
<1>6. ASSUME NEW p \in Procs, NEW r \in Runs, CancelGoesOn(p, r) PROVE CallLedger'
  <2>1. receipt' = receipt \/ receipt' = HeldBy(p, r)
    BY <1>6 DEF CancelGoesOn
  <2> QED BY <1>6, <2>1, ZeroOrdinal, HeldKeeps, LedgerKept DEF CancelGoesOn
<1>7. ASSUME NEW p \in Procs, Shutdown(p) PROVE CallLedger'
  <2>1. \A r \in Runs, k \in Ordinals : receipt'[r][k] = "none" => receipt[r][k] = "none"
    BY <1>7, ZeroOrdinal, HeldKeeps DEF Shutdown
  <2> QED BY <1>7, <2>1, LedgerKept DEF Shutdown
<1>8. ASSUME NEW p \in Procs, NEW r \in Runs, TaskStep(p, r) PROVE CallLedger'
  <2>1. Claim(p, r) \/ PickStep(p, r) \/ Deliver(p, r) => UNCHANGED <<receipt, sends>>
    BY DEF Claim, PickStep, Deliver
  <2>2. ReplayCall(p, r) \/ CallRefused(p, r) => UNCHANGED <<receipt, sends>>
    BY DEF ReplayCall, CallRefused, dbVars
  <2>3. Collaborate(p, r) \/ Delegate(p, r) \/ StopChildren(p, r) => UNCHANGED <<receipt, sends>>
    BY DEF Collaborate, Delegate, StopChildren
  <2>4. Finish(p, r) \/ WorkersFinished(p, r) \/ Settle(p, r) => UNCHANGED <<receipt, sends>>
    BY DEF Finish, WorkersFinished, Settle
  <2>5. AdvanceAfterFinish(p, r) \/ Finally(p, r) => UNCHANGED <<receipt, sends>>
    BY DEF AdvanceAfterFinish, Finally
  <2> QED BY <1>1, <1>2, <1>3, <1>4, <1>8, <2>1, <2>2, <2>3, <2>4, <2>5 DEF TaskStep
<1>9. ASSUME NEW p \in Procs, NEW r \in Runs, OwnerStep(p, r) \/ WorkerEnds(p, r) PROVE CallLedger'
  BY <1>1, <1>9 DEF OwnerStep, Start, Cancel, Resume, WorkerEnds
<1>10. ASSUME NEW p \in Procs, ProcessStep(p) PROVE CallLedger'
  BY <1>1, <1>7, <1>10 DEF ProcessStep, Recover, Boot, Exit, dbVars
<1>11. ASSUME NEW p \in Procs, NEW rm \in Rooms, RecoverAdvances(p, rm) PROVE CallLedger'
  BY <1>1, <1>11 DEF RecoverAdvances
<1>12. ASSUME NEW r \in Runs,
              LeaseLapses(r) \/ DeadlinePasses(r) \/ \E k \in Ordinals : StopReply(r, k)
       PROVE  CallLedger'
  BY <1>1, <1>12 DEF LeaseLapses, DeadlinePasses, StopReply
<1>13. CASE UNCHANGED vars
  BY <1>1, <1>13 DEF vars, dbVars
<1> QED
  BY <1>5, <1>6, <1>8, <1>9, <1>10, <1>11, <1>12, <1>13 DEF Next

\* A paid model call is dispatched at most once, for every number of processes
\* and any crash, stall, cancellation, recovery and resumption.
THEOREM NeverResent == Spec => []DispatchedOnce
<1>1. Init => CallLedger
  BY DEF Init, CallLedger
<1>2. CallLedger => DispatchedOnce
  BY DEF CallLedger, DispatchedOnce
<1> QED BY <1>1, <1>2, LedgerStep, TypeCorrect, PTL DEF Spec

-----------------------------------------------------------------------------
(* What advance_room and recover() do to statuses and tasks, run by run. *)

\* A task after launch(): unchanged, or new for a run that is queued.
MayLaunch(p, q, t) ==
  \/ task'[p][q] = t
  \/ /\ t.pc = "none" /\ proc[p] # "closing" /\ status'[q] = "queued"
     /\ task'[p][q] = [t EXCEPT !.pc = "claim"]

\* Waiting runs are queued or settled; everything else keeps its status.
LEMMA AdvanceRoomEffect ==
  ASSUME TypeOK, NEW p \in Procs, NEW rm \in Rooms, NEW ts \in [Runs -> Tasks],
         AdvanceRoom(p, rm, ts)
  PROVE  /\ \A q \in Runs : \/ status'[q] = status[q]
                            \/ /\ status[q] = "waiting_room"
                               /\ status'[q] \in {"queued", "cancelled", "expired"}
         /\ \A q \in Runs : MayLaunch(p, q, ts[q])
         /\ \A p2 \in Procs : p2 # p => task'[p2] = task[p2]
<1>t. task \in [Procs -> [Runs -> Tasks]] /\ status \in [Runs -> RunStatus]
  BY DEF TypeOK
<1>1. CASE /\ SetTasks(p, ts) /\ UNCHANGED status
  BY <1>t, <1>1 DEF SetTasks, MayLaunch
<1>2. CASE \E n \in Waiting(rm) :
             /\ status' = [q \in Runs |->
                  IF q = n THEN "queued"
                  ELSE IF q \in Waiting(rm) /\ q < n
                       THEN IF cancelled[q] THEN "cancelled" ELSE "expired"
                       ELSE status[q]]
             /\ SetTasks(p, Launched(p, ts, {n}))
  <2>1. PICK n \in Waiting(rm) :
             /\ status' = [q \in Runs |->
                  IF q = n THEN "queued"
                  ELSE IF q \in Waiting(rm) /\ q < n
                       THEN IF cancelled[q] THEN "cancelled" ELSE "expired"
                       ELSE status[q]]
             /\ SetTasks(p, Launched(p, ts, {n}))
    BY <1>2
  <2>2. \A q \in Runs : \/ status'[q] = status[q]
                        \/ /\ status[q] = "waiting_room"
                           /\ status'[q] \in {"queued", "cancelled", "expired"}
    BY <2>1 DEF Waiting
  <2>3. \A q \in Runs : task'[p][q] = Launched(p, ts, {n})[q]
    BY <1>t, <2>1 DEF SetTasks
  <2>4. \A q \in Runs : MayLaunch(p, q, ts[q])
    BY <2>1, <2>3 DEF Launched, MayLaunch, Waiting
  <2>5. \A p2 \in Procs : p2 # p => task'[p2] = task[p2]
    BY <1>t, <2>1 DEF SetTasks
  <2> QED BY <2>2, <2>4, <2>5
<1>3. CASE /\ status' = [q \in Runs |->
                IF q \in Waiting(rm) THEN IF cancelled[q] THEN "cancelled" ELSE "expired"
                ELSE status[q]]
           /\ SetTasks(p, ts)
  BY <1>t, <1>3 DEF SetTasks, MayLaunch, Waiting
<1> QED BY <1>1, <1>2, <1>3 DEF AdvanceRoom

\* Lost runs go to reconciliation; queued runs without a task get one.
LEMMA RecoveredEffect ==
  ASSUME TypeOK, NEW p \in Procs, Recovered(p)
  PROVE  /\ \A q \in Runs : \/ status'[q] = status[q]
                            \/ LeaseLost(q) /\ status'[q] = "reconciling"
         /\ \A q \in Runs : LeaseLost(q) => status'[q] = "reconciling"
         /\ \A q \in Runs : MayLaunch(p, q, task[p][q])
         /\ \A p2 \in Procs : p2 # p => task'[p2] = task[p2]
<1>t. task \in [Procs -> [Runs -> Tasks]] /\ status \in [Runs -> RunStatus]
  BY DEF TypeOK
<1>1. status' = [r \in Runs |-> IF LeaseLost(r) THEN "reconciling" ELSE status[r]]
  BY DEF Recovered
<1>2. SetTasks(p, Launched(p, task[p], {r \in Runs : status[r] = "queued"}))
  BY DEF Recovered
<1>3. \A q \in Runs : status[q] = "queued" => status'[q] = "queued"
  BY <1>1 DEF LeaseLost, Admitted
<1>4. \A q \in Runs : task'[p][q] = Launched(p, task[p], {r \in Runs : status[r] = "queued"})[q]
  BY <1>t, <1>2 DEF SetTasks
<1>5. \A q \in Runs : MayLaunch(p, q, task[p][q])
  BY <1>3, <1>4 DEF Launched, MayLaunch
<1>6. \A p2 \in Procs : p2 # p => task'[p2] = task[p2]
  BY <1>t, <1>2 DEF SetTasks
<1> QED BY <1>1, <1>5, <1>6

-----------------------------------------------------------------------------
(* Unknown paid outcomes. *)

Unknown == {"started", "unknown"}

\* The strengthening: an unknown outcome is there only while the run is being
\* worked on or awaits reconciliation, never while it is queued again.
OutcomesKept ==
  \A r \in Runs : Unresolved(r) => status[r] \in {"running", "waiting_tasks", "reconciling"}

\* hold() makes no outcome unknown that was known.
LEMMA HeldResolves ==
  ASSUME TypeOK, NEW p \in Procs, NEW q \in Runs, NEW j \in Ordinals
  PROVE  \A r \in Runs, k \in Ordinals :
           /\ Held(q, j)[r][k] \in Unknown => receipt[r][k] \in Unknown
           /\ HeldBy(p, q)[r][k] \in Unknown => receipt[r][k] \in Unknown
<1>1. \A i \in Ordinals, r \in Runs, k \in Ordinals :
         Held(q, i)[r][k] \in Unknown => receipt[r][k] \in Unknown
  BY DEF Held, TypeOK, Unknown
<1>2. task[p][q].cur \in Ordinals
  BY TaskFunctions DEF Tasks
<1> QED BY <1>1, <1>2 DEF HeldBy

\* A step that makes no outcome unknown, and gives an open status up only when
\* every outcome is known, keeps outcomes explicit.
LEMMA OutcomesFrame ==
  ASSUME OutcomesKept,
         \A r \in Runs, k \in Ordinals : receipt'[r][k] \in Unknown => receipt[r][k] \in Unknown,
         \A r \in Runs :
           \/ status'[r] = status[r]
           \/ status'[r] \in {"running", "waiting_tasks", "reconciling"}
           \/ ~Unresolved(r)
  PROVE  OutcomesKept'
<1>1. \A r \in Runs : Unresolved(r)' => Unresolved(r)
  BY DEF Unresolved, Unknown
<1> QED BY <1>1 DEF OutcomesKept

\* Every step of the specification keeps outcomes explicit.
LEMMA OutcomesStep ==
  ASSUME TypeOK, OutcomesKept, [Next]_vars
  PROVE  OutcomesKept'
<1> DEFINE Moved == \A r \in Runs :
              \/ status'[r] = status[r]
              \/ status'[r] \in {"running", "waiting_tasks", "reconciling"}
              \/ ~Unresolved(r)
<1>a. \A r \in Runs : status[r] \in {"none", "waiting_room", "queued"} => ~Unresolved(r)
  BY DEF OutcomesKept
<1>0. ASSUME UNCHANGED receipt, Moved PROVE OutcomesKept'
  BY <1>0, OutcomesFrame
<1>1. CASE UNCHANGED <<status, receipt>>
  BY <1>1, <1>0
<1>2. ASSUME NEW p \in Procs, NEW r \in Runs, SendCall(p, r) PROVE OutcomesKept'
  <2>1. status[r] \in {"running", "waiting_tasks"} /\ UNCHANGED status
    BY <1>2 DEF SendCall, Owns, Admitted
  <2>2. \A q \in Runs : q # r => receipt'[q] = receipt[q]
    BY <1>2 DEF SendCall, TypeOK
  <2> QED BY <2>1, <2>2 DEF OutcomesKept, Unresolved
<1>3. ASSUME NEW p \in Procs, NEW r \in Runs, CallCompletes(p, r) PROVE OutcomesKept'
  <2>1. task[p][r].cur \in Ordinals
    BY TaskFunctions DEF Tasks
  <2>2. \A q \in Runs, k \in Ordinals : receipt'[q][k] \in Unknown => receipt[q][k] \in Unknown
    BY <1>3, <2>1 DEF CallCompletes, TypeOK, Unknown
  <2>3. UNCHANGED status
    BY <1>3 DEF CallCompletes
  <2> QED BY <2>2, <2>3, OutcomesFrame
<1>4. ASSUME NEW p \in Procs, NEW r \in Runs, CallFails(p, r) PROVE OutcomesKept'
  <2>1. task[p][r].cur \in Ordinals
    BY TaskFunctions DEF Tasks
  <2> QED BY <1>4, <2>1, HeldResolves, OutcomesFrame DEF CallFails
<1>5. ASSUME NEW p \in Procs, NEW r \in Runs, Heartbeat(p, r) PROVE OutcomesKept'
  <2>1. receipt' = receipt \/ receipt' = HeldBy(p, r)
    BY <1>5 DEF Heartbeat
  <2> QED BY <1>5, <2>1, ZeroOrdinal, HeldResolves, OutcomesFrame DEF Heartbeat
<1>6. ASSUME NEW p \in Procs, Recovered(p) PROVE Moved
  BY <1>6, RecoveredEffect
<1>7. ASSUME NEW p \in Procs, NEW r \in Runs, CancelGoesOn(p, r) PROVE OutcomesKept'
  <2>1. CASE Recovered(p) /\ UNCHANGED receipt
    BY <1>0, <1>6, <2>1
  <2>2. CASE receipt' = HeldBy(p, r) /\ UNCHANGED status
    BY <2>2, ZeroOrdinal, HeldResolves, OutcomesFrame
  <2> QED BY <1>7, <2>1, <2>2 DEF CancelGoesOn
<1>8. ASSUME NEW p \in Procs, ProcessStep(p) PROVE OutcomesKept'
  <2>1. Recover(p) \/ Boot(p) => Recovered(p) /\ UNCHANGED receipt
    BY DEF Recover, Boot
  <2>2. ASSUME Shutdown(p) PROVE OutcomesKept'
    <3>1. \A r \in Runs, k \in Ordinals : receipt'[r][k] \in Unknown => receipt[r][k] \in Unknown
      BY <2>2, ZeroOrdinal, HeldResolves DEF Shutdown
    <3> QED BY <2>2, <3>1, OutcomesFrame DEF Shutdown
  <2>3. Exit(p) => UNCHANGED <<status, receipt>>
    BY DEF Exit, dbVars
  <2> QED BY <1>0, <1>1, <1>6, <1>8, <2>1, <2>2, <2>3 DEF ProcessStep
<1>9. ASSUME NEW p \in Procs, NEW rm \in Rooms, NEW ts \in [Runs -> Tasks],
             AdvanceRoom(p, rm, ts), UNCHANGED receipt
      PROVE  OutcomesKept'
  BY <1>0, <1>9, <1>a, AdvanceRoomEffect
<1>10. ASSUME NEW p \in Procs, NEW r \in Runs, AdvanceAfterFinish(p, r) \/ Finally(p, r)
       PROVE  OutcomesKept'
  <2>1. Goto(p, r, IF task[p][r].kids THEN "wait" ELSE "finally") \in [Runs -> Tasks]
    BY TaskFunctions DEF PCs
  <2>2. [task[p] EXCEPT ![r] = Ended(@)] \in [Runs -> Tasks]
    BY TaskFunctions, TaskRecords
  <2> QED BY <1>9, <1>10, <2>1, <2>2, CoordinationAssumption DEF AdvanceAfterFinish, Finally
<1>11. ASSUME NEW p \in Procs, NEW rm \in Rooms, RecoverAdvances(p, rm) PROVE OutcomesKept'
  <2>1. task[p] \in [Runs -> Tasks]
    BY DEF TypeOK
  <2> QED BY <1>9, <1>11, <2>1 DEF RecoverAdvances
<1>12. ASSUME NEW p \in Procs, NEW r \in Runs,
              Claim(p, r) \/ Finish(p, r) \/ WorkersFinished(p, r) \/ Settle(p, r)
       PROVE  OutcomesKept'
  <2>1. Claim(p, r) => Moved /\ UNCHANGED receipt
    BY DEF Claim, TypeOK
  <2>2. Finish(p, r) => Moved /\ UNCHANGED receipt
    BY DEF Finish, TypeOK
  <2>3. WorkersFinished(p, r) => Moved /\ UNCHANGED receipt
    BY DEF WorkersFinished, TypeOK
  <2>4. Settle(p, r) => Moved /\ UNCHANGED receipt
    BY DEF Settle, TypeOK
  <2> QED BY <1>0, <1>12, <2>1, <2>2, <2>3, <2>4
<1>13. ASSUME NEW p \in Procs, NEW r \in Runs, OwnerStep(p, r) PROVE OutcomesKept'
  <2>1. Start(p, r) => Moved /\ UNCHANGED receipt
    BY <1>a DEF Start, TypeOK
  <2>2. Cancel(p, r) => Moved /\ UNCHANGED receipt
    BY <1>a DEF Cancel, TypeOK
  <2>3. Resume(p, r) => Moved /\ UNCHANGED receipt
    BY DEF Resume, TypeOK
  <2> QED BY <1>0, <1>13, <2>1, <2>2, <2>3 DEF OwnerStep
<1>14. ASSUME NEW p \in Procs, NEW r \in Runs, TaskStep(p, r) PROVE OutcomesKept'
  <2>1. PickStep(p, r) \/ Deliver(p, r) => UNCHANGED <<status, receipt>>
    BY DEF PickStep, Deliver
  <2>2. ReplayCall(p, r) \/ CallRefused(p, r) => UNCHANGED <<status, receipt>>
    BY DEF ReplayCall, CallRefused, dbVars
  <2>3. Collaborate(p, r) \/ Delegate(p, r) \/ StopChildren(p, r) => UNCHANGED <<status, receipt>>
    BY DEF Collaborate, Delegate, StopChildren
  <2> QED BY <1>1, <1>2, <1>3, <1>4, <1>10, <1>12, <1>14, <2>1, <2>2, <2>3 DEF TaskStep
<1>15. ASSUME NEW p \in Procs, NEW r \in Runs, WorkerEnds(p, r) PROVE OutcomesKept'
  BY <1>1, <1>15 DEF WorkerEnds
<1>16. ASSUME NEW r \in Runs,
              LeaseLapses(r) \/ DeadlinePasses(r) \/ \E k \in Ordinals : StopReply(r, k)
       PROVE  OutcomesKept'
  BY <1>1, <1>16 DEF LeaseLapses, DeadlinePasses, StopReply
<1>17. CASE UNCHANGED vars
  BY <1>1, <1>17 DEF vars, dbVars
<1> QED
  BY <1>5, <1>7, <1>8, <1>11, <1>13, <1>14, <1>15, <1>16, <1>17 DEF Next

\* Unknown paid outcomes stay explicit: no run that has ended, not even one that
\* was cancelled while queued again after a crash, has an unknown model call.
THEOREM OutcomesStayExplicit == Spec => []OutcomesExplicit
<1>1. Init => OutcomesKept
  BY DEF Init, OutcomesKept, Unresolved
<1>2. OutcomesKept => OutcomesExplicit
  BY DEF OutcomesKept, OutcomesExplicit, Unresolved, Terminal
<1> QED BY <1>1, <1>2, OutcomesStep, TypeCorrect, PTL DEF Spec

-----------------------------------------------------------------------------
(* What one step of the specification may do to one run and to one task. *)

Early == {"none", "waiting_room", "queued"}

\* The run goes from nothing or the queue to the slot, or is resumed.
RunMove(q) ==
  /\ status'[q] \in {"none", "waiting_room"} =>
       status[q] \in {"none", "waiting_room"} /\ executor'[q] = executor[q]
  /\ status'[q] = "none" => status[q] = "none"
  /\ status'[q] = "queued" =>
       \/ status[q] \in Early /\ executor'[q] = executor[q]
       \/ /\ status[q] = "reconciling" /\ executor'[q] = NoProc
          /\ ~cancelled'[q] /\ ~late[q]
  /\ cancelled[q] => cancelled'[q]
  /\ cancelled'[q] => cancelled[q] \/ status'[q] \notin Early
  /\ late[q] => late'[q]
  /\ \A p \in Procs : executor'[q] = p => executor[q] = p \/ Claim(p, q)

\* A step that writes neither executor, cancelled nor deadline and lets no run
\* enter the queue but from the room's waiting list is such a move.
LEMMA PlainMove ==
  ASSUME TypeOK, NEW q \in Runs, UNCHANGED <<executor, cancelled>>,
         late[q] => late'[q],
         \/ status'[q] = status[q]
         \/ status[q] = "waiting_room" /\ status'[q] = "queued"
         \/ status'[q] \notin Early
  PROVE  RunMove(q)
BY DEF RunMove, Early

LEMMA RunMoves ==
  ASSUME TypeOK, [Next]_vars, NEW q \in Runs
  PROVE  RunMove(q)
<1>0. CASE UNCHANGED <<status, executor, cancelled, late>>
  BY <1>0, PlainMove
<1>1. ASSUME NEW p \in Procs, NEW r \in Runs, Claim(p, r) PROVE RunMove(q)
  <2>1. CASE status[r] = "queued"
    <3>1. /\ status' = [status EXCEPT ![r] = "running"]
          /\ executor' = [executor EXCEPT ![r] = p]
          /\ UNCHANGED <<cancelled, late>>
      BY <1>1, <2>1 DEF Claim
    <3>2. \A p2 \in Procs : executor'[q] = p2 => executor[q] = p2 \/ Claim(p2, q)
      BY <1>1, <3>1 DEF TypeOK
    <3>3. \/ status'[q] = status[q] /\ executor'[q] = executor[q]
          \/ status'[q] = "running"
      BY <3>1 DEF TypeOK
    <3> QED BY <3>1, <3>2, <3>3 DEF RunMove, Early
  <2>2. CASE status[r] # "queued"
    BY <1>0, <1>1, <2>2 DEF Claim
  <2> QED BY <2>1, <2>2
<1>2. ASSUME NEW p \in Procs, NEW rm \in Rooms, NEW ts \in [Runs -> Tasks],
             AdvanceRoom(p, rm, ts), UNCHANGED <<executor, cancelled, late>>
      PROVE  RunMove(q)
  BY <1>2, AdvanceRoomEffect, PlainMove DEF Early
<1>3. ASSUME NEW p \in Procs, NEW r \in Runs, AdvanceAfterFinish(p, r) \/ Finally(p, r)
      PROVE  RunMove(q)
  <2>1. Goto(p, r, IF task[p][r].kids THEN "wait" ELSE "finally") \in [Runs -> Tasks]
    BY TaskFunctions DEF PCs
  <2>2. [task[p] EXCEPT ![r] = Ended(@)] \in [Runs -> Tasks]
    BY TaskFunctions, TaskRecords
  <2> QED BY <1>2, <1>3, <2>1, <2>2, CoordinationAssumption DEF AdvanceAfterFinish, Finally
<1>4. ASSUME NEW p \in Procs, NEW rm \in Rooms, RecoverAdvances(p, rm) PROVE RunMove(q)
  <2>1. task[p] \in [Runs -> Tasks]
    BY DEF TypeOK
  <2> QED BY <1>2, <1>4, <2>1 DEF RecoverAdvances
<1>5. ASSUME NEW p \in Procs, NEW r \in Runs,
             Finish(p, r) \/ WorkersFinished(p, r) \/ Settle(p, r)
      PROVE  RunMove(q)
  <2>1. UNCHANGED <<executor, cancelled, late>>
    BY <1>5 DEF Finish, WorkersFinished, Settle
  <2>2. status'[q] = status[q] \/ status'[q] \notin Early
    <3>1. Finish(p, r) => status'[q] = status[q] \/ status'[q] \notin Early
      BY DEF Finish, Early, TypeOK
    <3>2. WorkersFinished(p, r) => status'[q] = status[q] \/ status'[q] \notin Early
      BY DEF WorkersFinished, Early, TypeOK
    <3>3. Settle(p, r) => status'[q] = status[q] \/ status'[q] \notin Early
      BY DEF Settle, Early, TypeOK
    <3> QED BY <1>5, <3>1, <3>2, <3>3
  <2> QED BY <2>1, <2>2, PlainMove
<1>6. ASSUME NEW p \in Procs, Recovered(p), UNCHANGED <<executor, cancelled, late>>
      PROVE  RunMove(q)
  BY <1>6, RecoveredEffect, PlainMove DEF Early
<1>7. ASSUME NEW p \in Procs, NEW r \in Runs, Start(p, r) PROVE RunMove(q)
  <2>1. UNCHANGED <<executor, cancelled, late>>
    BY <1>7 DEF Start
  <2>2. \/ status'[q] = status[q]
        \/ status[q] = "none" /\ status'[q] \in {"queued", "waiting_room"}
    BY <1>7 DEF Start, TypeOK
  <2> QED BY <2>1, <2>2 DEF RunMove, Early
<1>8. ASSUME NEW p \in Procs, NEW r \in Runs, Cancel(p, r) PROVE RunMove(q)
  <2>1. UNCHANGED <<executor, late>> /\ cancelled' = [cancelled EXCEPT ![r] = TRUE]
    BY <1>8 DEF Cancel
  <2>2. CASE q # r
    <3>1. status'[q] = status[q] /\ cancelled'[q] = cancelled[q]
      BY <1>8, <2>1, <2>2 DEF Cancel, TypeOK
    <3> QED BY <2>1, <3>1 DEF RunMove, Early
  <2>3. CASE q = r
    <3>1. status[r] # "none" /\ (status'[r] = status[r] \/ status'[r] = "cancelled")
      BY <1>8 DEF Cancel, TypeOK
    <3>2. status'[r] \notin Early
      BY <1>8 DEF Cancel, TypeOK, Early
    <3>3. cancelled'[q]
      BY <2>1, <2>3 DEF TypeOK
    <3> QED BY <2>1, <2>3, <3>1, <3>2, <3>3 DEF RunMove, Early
  <2> QED BY <2>2, <2>3
<1>9. ASSUME NEW p \in Procs, NEW r \in Runs, Resume(p, r) PROVE RunMove(q)
  <2>1. /\ UNCHANGED <<cancelled, late>> /\ status[r] = "reconciling"
        /\ ~cancelled[r] /\ ~late[r]
        /\ status' = [status EXCEPT ![r] = "queued"]
        /\ executor' = [executor EXCEPT ![r] = NoProc]
    BY <1>9 DEF Resume
  <2>2. CASE q = r
    <3>1. status'[q] = "queued" /\ executor'[q] = NoProc
      BY <2>1, <2>2 DEF TypeOK
    <3> QED BY <2>1, <2>2, <3>1, CoordinationAssumption DEF RunMove, Early
  <2>3. CASE q # r
    <3>1. status'[q] = status[q] /\ executor'[q] = executor[q]
      BY <2>1, <2>3 DEF TypeOK
    <3> QED BY <2>1, <3>1 DEF RunMove, Early
  <2> QED BY <2>2, <2>3
<1>10. ASSUME NEW p \in Procs, NEW r \in Runs, CancelGoesOn(p, r) PROVE RunMove(q)
  BY <1>0, <1>6, <1>10 DEF CancelGoesOn
<1>11. ASSUME NEW p \in Procs, ProcessStep(p) PROVE RunMove(q)
  <2>1. Recover(p) \/ Boot(p) => Recovered(p) /\ UNCHANGED <<executor, cancelled, late>>
    BY DEF Recover, Boot
  <2>2. Shutdown(p) \/ Exit(p) => UNCHANGED <<status, executor, cancelled, late>>
    BY DEF Shutdown, Exit, dbVars
  <2> QED BY <1>0, <1>6, <1>11, <2>1, <2>2 DEF ProcessStep
<1>12. ASSUME NEW p \in Procs, NEW r \in Runs, TaskStep(p, r) PROVE RunMove(q)
  <2>1. PickStep(p, r) \/ Deliver(p, r) => UNCHANGED <<status, executor, cancelled, late>>
    BY DEF PickStep, Deliver
  <2>2. SendCall(p, r) \/ ReplayCall(p, r) \/ CallRefused(p, r)
          => UNCHANGED <<status, executor, cancelled, late>>
    BY DEF SendCall, ReplayCall, CallRefused, dbVars
  <2>3. CallCompletes(p, r) \/ CallFails(p, r)
          => UNCHANGED <<status, executor, cancelled, late>>
    BY DEF CallCompletes, CallFails
  <2>4. Collaborate(p, r) \/ Delegate(p, r) \/ StopChildren(p, r)
          => UNCHANGED <<status, executor, cancelled, late>>
    BY DEF Collaborate, Delegate, StopChildren
  <2> QED BY <1>0, <1>1, <1>3, <1>5, <1>12, <2>1, <2>2, <2>3, <2>4 DEF TaskStep
<1>13. ASSUME NEW p \in Procs, NEW r \in Runs, WorkerEnds(p, r) \/ Heartbeat(p, r)
       PROVE  RunMove(q)
  BY <1>0, <1>13 DEF WorkerEnds, Heartbeat
<1>14. ASSUME NEW r \in Runs, DeadlinePasses(r) PROVE RunMove(q)
  <2>1. UNCHANGED <<status, executor, cancelled>> /\ (late[q] => late'[q])
    BY <1>14 DEF DeadlinePasses, TypeOK
  <2> QED BY <2>1, PlainMove
<1>15. ASSUME NEW r \in Runs, LeaseLapses(r) \/ \E k \in Ordinals : StopReply(r, k)
       PROVE  RunMove(q)
  BY <1>0, <1>15 DEF LeaseLapses, StopReply
<1>16. CASE UNCHANGED vars
  BY <1>0, <1>16 DEF vars, dbVars
<1> QED
  BY <1>4, <1>7, <1>8, <1>9, <1>10, <1>11, <1>12, <1>13, <1>14, <1>15, <1>16
  DEF Next, OwnerStep

\* The task is left alone, its process perhaps starting; launched; cut off by a
\* cancellation, a deadline or a shutdown; left by its heartbeat; or gone.
Left(p, q) ==
  /\ task'[p][q] = task[p][q]
  /\ proc'[p] = proc[p] \/ (proc[p] = "new" /\ proc'[p] = "up")
Begun(p, q) ==
  /\ task[p][q].pc = "none" /\ proc[p] \in {"new", "up"} /\ proc'[p] = "up"
  /\ status'[q] = "queued" /\ task'[p][q] = [task[p][q] EXCEPT !.pc = "claim"]
Cut(p, q) ==
  /\ Alive(p)
  /\ \/ proc'[p] = "closing"
     \/ proc'[p] = proc[p] /\ q \in cancelling[p]
     \/ /\ proc'[p] = proc[p] /\ executor[q] = p /\ status[q] \in Admitted
        /\ cancelled[q] \/ late[q]
  /\ \/ task'[p][q] \in Interrupted(task[p][q])
     \/ task'[p][q] \in Interrupted([task[p][q] EXCEPT !.beat = FALSE])
Unwatched(p, q) ==
  /\ executor[q] # p \/ status[q] \notin Admitted
  /\ task'[p][q] = [task[p][q] EXCEPT !.beat = FALSE]
  /\ proc'[p] = proc[p]
Gone(p, q) == task'[p][q] = IdleTask /\ proc'[p] = "dead"

TaskMove(p, q) ==
  Left(p, q) \/ TaskStep(p, q) \/ Begun(p, q) \/ Cut(p, q) \/ Unwatched(p, q) \/ Gone(p, q)

\* launch() leaves a task alone or begins it.
LEMMA LaunchMoves ==
  ASSUME NEW p \in Procs, NEW q \in Runs, MayLaunch(p, q, task[p][q]),
         \/ proc'[p] = proc[p] /\ Alive(p)
         \/ proc[p] = "new" /\ proc'[p] = "up"
  PROVE  Left(p, q) \/ Begun(p, q)
BY DEF MayLaunch, Left, Begun, Alive

\* A task step moves its own task; of the others it can only begin some.
LEMMA TaskStepElsewhere ==
  ASSUME TypeOK, NEW p \in Procs, NEW r \in Runs, TaskStep(p, r),
         NEW p2 \in Procs, NEW q \in Runs, p2 # p \/ q # r
  PROVE  /\ Alive(p) /\ UNCHANGED proc
         /\ IF p2 = p THEN MayLaunch(p, q, task[p][q]) ELSE task'[p2] = task[p2]
<1> DEFINE Goal == IF p2 = p THEN MayLaunch(p, q, task[p][q]) ELSE task'[p2] = task[p2]
<1>t. task \in [Procs -> [Runs -> Tasks]]
  BY DEF TypeOK
<1>a. Alive(p) /\ UNCHANGED proc
  <2>1. Claim(p, r) \/ PickStep(p, r) \/ SendCall(p, r) => Alive(p) /\ UNCHANGED proc
    BY DEF Claim, PickStep, SendCall, At
  <2>2. ReplayCall(p, r) \/ CallRefused(p, r) \/ CallCompletes(p, r) => Alive(p) /\ UNCHANGED proc
    BY DEF ReplayCall, CallRefused, CallCompletes, At
  <2>3. CallFails(p, r) \/ Collaborate(p, r) \/ Delegate(p, r) => Alive(p) /\ UNCHANGED proc
    BY DEF CallFails, Collaborate, Delegate, At
  <2>4. Deliver(p, r) \/ Finish(p, r) \/ AdvanceAfterFinish(p, r) => Alive(p) /\ UNCHANGED proc
    BY DEF Deliver, Finish, AdvanceAfterFinish, At
  <2>5. WorkersFinished(p, r) \/ StopChildren(p, r) => Alive(p) /\ UNCHANGED proc
    BY DEF WorkersFinished, StopChildren, At
  <2>6. Settle(p, r) \/ Finally(p, r) => Alive(p) /\ UNCHANGED proc
    BY DEF Settle, Finally, At
  <2> QED BY <2>1, <2>2, <2>3, <2>4, <2>5, <2>6 DEF TaskStep
<1> SUFFICES Goal
  BY <1>a
<1>1. ASSUME NEW ts, SetTasks(p, ts), q # r => ts[q] = task[p][q] PROVE Goal
  BY <1>t, <1>1 DEF SetTasks, MayLaunch
<1>2. ASSUME NEW ts \in [Runs -> Tasks], NEW rm \in Rooms, AdvanceRoom(p, rm, ts),
             q # r => ts[q] = task[p][q]
      PROVE  Goal
  BY <1>2, AdvanceRoomEffect
<1>g. \A pc \in PCs : q # r => Goto(p, r, pc)[q] = task[p][q]
  BY <1>t DEF Goto
<1>e. \A e : q # r => Raised(p, r, e)[q] = task[p][q]
  BY <1>t DEF Raised
<1>gt. \A pc \in PCs : Goto(p, r, pc) \in [Runs -> Tasks]
  BY TaskFunctions
<1>c. ASSUME NEW pc \in PCs
      PROVE  /\ \A v : q # r => [Goto(p, r, pc) EXCEPT ![r].cur = v][q] = task[p][q]
             /\ \A v : q # r => [Goto(p, r, pc) EXCEPT ![r].kids = v][q] = task[p][q]
             /\ \A v : q # r => [Goto(p, r, pc) EXCEPT ![r].beat = v][q] = task[p][q]
             /\ \A v : q # r => [Goto(p, r, pc) EXCEPT ![r].settle = v][q] = task[p][q]
  BY <1>g, <1>gt
<1>p. {"loop", "finally", "speak", "finish", "calling", "spoken", "advance", "wait",
       "settling"} \subseteq PCs
  BY DEF PCs
<1>3. CASE Claim(p, r)
  BY ZenonT(60), <1>1, <1>3, <1>c, <1>g, <1>p DEF Claim
<1>4. CASE PickStep(p, r)
  BY ZenonT(60), <1>1, <1>4, <1>c, <1>g, <1>e, <1>p DEF PickStep
<1>5. CASE SendCall(p, r) \/ ReplayCall(p, r) \/ CallCompletes(p, r)
  BY <1>1, <1>5, <1>g, <1>p DEF SendCall, ReplayCall, CallCompletes
<1>6. CASE CallRefused(p, r) \/ CallFails(p, r)
  <2>1. SpeakError(p, r)
    BY <1>6 DEF CallRefused, CallFails
  <2> QED BY ZenonT(60), <1>1, <1>c, <1>e, <1>p, <2>1 DEF SpeakError
<1>7. CASE Collaborate(p, r) \/ Delegate(p, r)
  BY <1>7 DEF Collaborate, Delegate, MayLaunch
<1>8. CASE Deliver(p, r)
  BY ZenonT(60), <1>1, <1>8, <1>c, <1>e, <1>p DEF Deliver
<1>9. CASE Finish(p, r)
  BY ZenonT(60), <1>1, <1>9, <1>c, <1>p DEF Finish
<1>10. CASE AdvanceAfterFinish(p, r)
  BY <1>2, <1>10, <1>g, <1>gt, <1>p, CoordinationAssumption DEF AdvanceAfterFinish
<1>11. CASE WorkersFinished(p, r)
  BY ZenonT(60), <1>1, <1>11, <1>c, <1>p DEF WorkersFinished
<1>12. CASE StopChildren(p, r)
  BY <1>1, <1>12, <1>c, <1>p DEF StopChildren
<1>13. CASE Settle(p, r)
  <2>1. q # r => [task[p] EXCEPT ![r] = Settled(@)][q] = task[p][q]
    BY <1>t
  <2> QED BY <1>1, <1>13, <2>1 DEF Settle
<1>14. CASE Finally(p, r)
  <2>1. [task[p] EXCEPT ![r] = Ended(@)] \in [Runs -> Tasks]
    BY TaskFunctions, TaskRecords
  <2>2. q # r => [task[p] EXCEPT ![r] = Ended(@)][q] = task[p][q]
    BY <1>t
  <2> QED BY <1>2, <1>14, <2>1, <2>2, CoordinationAssumption DEF Finally
<1> QED
  BY <1>3, <1>4, <1>5, <1>6, <1>7, <1>8, <1>9, <1>10, <1>11, <1>12, <1>13, <1>14
  DEF TaskStep

LEMMA TaskMoves ==
  ASSUME TypeOK, [Next]_vars, NEW p \in Procs, NEW q \in Runs
  PROVE  TaskMove(p, q)
<1>t. task \in [Procs -> [Runs -> Tasks]] /\ proc \in [Procs -> {"new", "up", "closing", "dead"}]
  BY DEF TypeOK
<1>0. CASE UNCHANGED <<task, proc>>
  BY <1>0 DEF TaskMove, Left
<1>1. ASSUME NEW p1 \in Procs, NEW r \in Runs, TaskStep(p1, r) PROVE TaskMove(p, q)
  <2>1. CASE p = p1 /\ q = r
    BY <1>1, <2>1 DEF TaskMove
  <2>2. CASE p # p1 \/ q # r
    <3>1. Alive(p1) /\ UNCHANGED proc
      BY <1>1, <2>2, TaskStepElsewhere
    <3>2. IF p = p1 THEN MayLaunch(p, q, task[p][q]) ELSE task'[p] = task[p]
      BY <1>1, <2>2, TaskStepElsewhere
    <3> QED BY <3>1, <3>2, LaunchMoves DEF TaskMove, Left
  <2> QED BY <2>1, <2>2
<1>2. ASSUME NEW p1 \in Procs, NEW r \in Runs, Heartbeat(p1, r) PROVE TaskMove(p, q)
  <2>0. UNCHANGED proc
    BY <1>2 DEF Heartbeat
  <2>1. CASE p # p1 \/ q # r
    <3>1. task'[p][q] = task[p][q]
      BY <1>t, <1>2, <2>1 DEF Heartbeat, SetTasks
    <3> QED BY <2>0, <3>1 DEF TaskMove, Left
  <2>2. CASE p = p1 /\ q = r
    <3>1. CASE /\ executor[r] # p1 \/ status[r] \notin Admitted
               /\ SetTasks(p1, [task[p1] EXCEPT ![r].beat = FALSE])
      BY <1>t, <2>0, <2>2, <3>1 DEF SetTasks, TaskMove, Unwatched
    <3>2. CASE /\ executor[r] = p1 /\ status[r] \in Admitted /\ (cancelled[r] \/ late[r])
               /\ \E t \in Interrupted([task[p1][r] EXCEPT !.beat = FALSE]) :
                    SetTasks(p1, [task[p1] EXCEPT ![r] = t])
      <4>1. task'[p][q] \in Interrupted([task[p][q] EXCEPT !.beat = FALSE])
        BY <1>t, <2>2, <3>2 DEF SetTasks
      <4>2. Alive(p)
        BY <1>2, <2>2 DEF Heartbeat
      <4> QED BY <2>0, <2>2, <3>2, <4>1, <4>2 DEF TaskMove, Cut
    <3>3. CASE UNCHANGED task
      BY <1>0, <2>0, <3>3
    <3> QED BY <1>2, <3>1, <3>2, <3>3 DEF Heartbeat
  <2> QED BY <2>1, <2>2
<1>3. ASSUME NEW p1 \in Procs, Recovered(p1),
             \/ UNCHANGED proc /\ Alive(p1)
             \/ proc[p1] = "new" /\ proc' = [proc EXCEPT ![p1] = "up"]
      PROVE  TaskMove(p, q)
  <2>1. CASE p # p1
    <3>1. task'[p] = task[p] /\ proc'[p] = proc[p]
      BY <1>t, <1>3, <2>1, RecoveredEffect
    <3> QED BY <3>1 DEF TaskMove, Left
  <2>2. CASE p = p1
    <3>1. MayLaunch(p, q, task[p][q])
      BY <1>3, <2>2, RecoveredEffect
    <3>2. \/ proc'[p] = proc[p] /\ Alive(p)
          \/ proc[p] = "new" /\ proc'[p] = "up"
      BY <1>t, <1>3, <2>2
    <3> QED BY <3>1, <3>2, LaunchMoves DEF TaskMove
  <2> QED BY <2>1, <2>2
<1>4. ASSUME NEW p1 \in Procs, NEW r \in Runs, CancelGoesOn(p1, r) PROVE TaskMove(p, q)
  <2>0. UNCHANGED proc /\ Alive(p1) /\ r \in cancelling[p1]
    BY <1>4 DEF CancelGoesOn
  <2>1. CASE Recovered(p1)
    BY <1>3, <2>0, <2>1
  <2>2. CASE \E t \in Interrupted(task[p1][r]) : SetTasks(p1, [task[p1] EXCEPT ![r] = t])
    <3>1. CASE p # p1 \/ q # r
      <4>1. task'[p][q] = task[p][q]
        BY <1>t, <2>2, <3>1 DEF SetTasks
      <4> QED BY <2>0, <4>1 DEF TaskMove, Left
    <3>2. CASE p = p1 /\ q = r
      <4>1. task'[p][q] \in Interrupted(task[p][q])
        BY <1>t, <2>2, <3>2 DEF SetTasks
      <4> QED BY <2>0, <3>2, <4>1 DEF TaskMove, Cut
    <3> QED BY <3>1, <3>2
  <2> QED BY <1>4, <2>1, <2>2 DEF CancelGoesOn
<1>5. ASSUME NEW p1 \in Procs, ProcessStep(p1) PROVE TaskMove(p, q)
  <2>1. ASSUME Recover(p1) \/ Boot(p1) PROVE TaskMove(p, q)
    BY <1>3, <2>1 DEF Recover, Boot, Alive
  <2>2. ASSUME Shutdown(p1) PROVE TaskMove(p, q)
    <3>1. CASE p # p1
      <4>1. task'[p] = task[p] /\ proc'[p] = proc[p]
        BY <1>t, <2>2, <3>1 DEF Shutdown, SetTasks
      <4> QED BY <4>1 DEF TaskMove, Left
    <3>2. CASE p = p1
      <4>1. task'[p][q] \in Interrupted(task[p][q])
        BY <1>t, <2>2, <3>2 DEF Shutdown, SetTasks
      <4>2. Alive(p) /\ proc'[p] = "closing"
        BY <1>t, <2>2, <3>2 DEF Shutdown, Alive
      <4> QED BY <4>1, <4>2 DEF TaskMove, Cut
    <3> QED BY <3>1, <3>2
  <2>3. ASSUME Exit(p1) PROVE TaskMove(p, q)
    <3>1. CASE p # p1
      <4>1. task'[p] = task[p] /\ proc'[p] = proc[p]
        BY <1>t, <2>3, <3>1 DEF Exit, SetTasks
      <4> QED BY <4>1 DEF TaskMove, Left
    <3>2. CASE p = p1
      BY <1>t, <2>3, <3>2 DEF Exit, SetTasks, TaskMove, Gone
    <3> QED BY <3>1, <3>2
  <2> QED BY <1>5, <2>1, <2>2, <2>3 DEF ProcessStep
<1>6. ASSUME NEW p1 \in Procs, NEW rm \in Rooms, RecoverAdvances(p1, rm) PROVE TaskMove(p, q)
  <2>1. task[p1] \in [Runs -> Tasks] /\ AdvanceRoom(p1, rm, task[p1])
    BY <1>t, <1>6 DEF RecoverAdvances
  <2>2. UNCHANGED proc /\ Alive(p1)
    BY <1>6 DEF RecoverAdvances
  <2>3. /\ MayLaunch(p1, q, task[p1][q])
        /\ p # p1 => task'[p] = task[p]
    BY <2>1, AdvanceRoomEffect
  <2> QED BY <2>2, <2>3, LaunchMoves DEF TaskMove, Left
<1>7. ASSUME NEW p1 \in Procs, NEW r \in Runs, Start(p1, r) \/ Resume(p1, r)
      PROVE  TaskMove(p, q)
  <2>1. /\ UNCHANGED proc /\ proc[p1] = "up"
        /\ \/ UNCHANGED task
           \/ SetTasks(p1, Launched(p1, task[p1], {r})) /\ status'[r] = "queued"
    BY <1>7 DEF Start, Resume, TypeOK
  <2>2. CASE SetTasks(p1, Launched(p1, task[p1], {r})) /\ status'[r] = "queued"
    <3>1. MayLaunch(p1, q, task[p1][q]) /\ (p # p1 => task'[p] = task[p])
      BY <1>t, <2>2 DEF SetTasks, Launched, MayLaunch
    <3> QED BY <2>1, <3>1, LaunchMoves DEF TaskMove, Left, Alive
  <2> QED BY <1>0, <2>1, <2>2
<1>8. ASSUME NEW p1 \in Procs, NEW r \in Runs, Cancel(p1, r) \/ WorkerEnds(p1, r)
      PROVE  TaskMove(p, q)
  BY <1>0, <1>8 DEF Cancel, WorkerEnds
<1>9. ASSUME NEW r \in Runs,
             LeaseLapses(r) \/ DeadlinePasses(r) \/ \E k \in Ordinals : StopReply(r, k)
      PROVE  TaskMove(p, q)
  BY <1>0, <1>9 DEF LeaseLapses, DeadlinePasses, StopReply
<1>10. CASE UNCHANGED vars
  BY <1>0, <1>10 DEF vars, dbVars
<1> QED
  BY <1>1, <1>2, <1>4, <1>5, <1>6, <1>7, <1>8, <1>9, <1>10 DEF Next, OwnerStep

\* Where an interruption leaves a task; a settle() under way goes on.
LEMMA InterruptedEffect ==
  ASSUME NEW t \in Tasks, NEW u \in Interrupted(t)
  PROVE  /\ u \in Tasks /\ u.pc \in {"none", "stopping", "finally"}
         /\ u.settle = t.settle
         /\ t.pc = "none" => u = t
         /\ t.pc = "finally" => u.pc = "none"
         /\ t.pc \in {"stopping", "settling"} => u.pc = "finally"
<1>1. u \in Tasks
  BY TaskRecords
<1>2. CASE t.pc = "none"
  BY <1>1, <1>2 DEF Interrupted
<1>3. CASE t.pc = "claim"
  BY <1>1, <1>3 DEF Interrupted, Raising, Tasks
<1>4. CASE t.pc = "stopping"
  BY <1>1, <1>4 DEF Interrupted, Tasks
<1>5. CASE t.pc = "settling"
  BY <1>1, <1>5 DEF Interrupted, Tasks
<1>6. CASE t.pc = "finally"
  <2>1. u = Ended(t)
    BY <1>6 DEF Interrupted
  <2>2. u.pc = "none" /\ u.settle = t.settle
    BY <2>1 DEF Ended, IdleTask, Tasks
  <2> QED BY <1>1, <1>6, <2>2
<1>7. CASE t.pc \notin {"none", "claim", "stopping", "settling", "finally"}
  <2>1. u = Raising(t, "cancelled")
    BY <1>7 DEF Interrupted
  <2>2. u.pc = "stopping" /\ u.settle = t.settle
    BY <2>1 DEF Raising, Tasks
  <2> QED BY <1>1, <1>7, <2>2
<1> QED BY <1>2, <1>3, <1>4, <1>5, <1>6, <1>7

\* What a cut leaves, whether or not the heartbeat made it.
LEMMA CutEffect ==
  ASSUME TypeOK, NEW p \in Procs, NEW q \in Runs, Cut(p, q)
  PROVE  /\ task'[p][q].pc \in {"none", "stopping", "finally"}
         /\ task'[p][q].settle = task[p][q].settle
         /\ task[p][q].pc = "none" => task'[p][q].pc = "none"
         /\ task[p][q].pc = "finally" => task'[p][q].pc = "none"
         /\ task[p][q].pc \in {"stopping", "settling"} => task'[p][q].pc = "finally"
<1>1. task[p][q] \in Tasks /\ [task[p][q] EXCEPT !.beat = FALSE] \in Tasks
  BY TaskFunctions, TaskFields
<1>2. /\ [task[p][q] EXCEPT !.beat = FALSE].pc = task[p][q].pc
      /\ [task[p][q] EXCEPT !.beat = FALSE].settle = task[p][q].settle
  BY <1>1 DEF Tasks
<1>3. PICK t \in Tasks : /\ t.pc = task[p][q].pc /\ t.settle = task[p][q].settle
                        /\ task'[p][q] \in Interrupted(t)
  <2>1. CASE task'[p][q] \in Interrupted(task[p][q])
    BY <1>1, <2>1
  <2>2. CASE task'[p][q] \in Interrupted([task[p][q] EXCEPT !.beat = FALSE])
    BY <1>1, <1>2, <2>2
  <2> QED BY <2>1, <2>2 DEF Cut
<1>4. t.pc = "none" => task'[p][q].pc = "none"
  BY <1>3, InterruptedEffect
<1> QED BY <1>3, <1>4, InterruptedEffect

\* The steps of a run are written by its tasks, its admission, its cancellation
\* while it waits, its resumption and the owner's stops; answers by Deliver.
StepMove(q) ==
  \/ step'[q] = step[q] /\ delivered'[q] = delivered[q]
  \/ \E p \in Procs : TaskStep(p, q)
  \/ /\ delivered'[q] = delivered[q]
     /\ \/ status[q] = "none" /\ step'[q] = [step[q] EXCEPT ![0] = "queued"]
        \/ /\ status[q] \in {"queued", "waiting_room"} /\ status'[q] = "cancelled"
           /\ \A k \in Ordinals :
                step'[q][k] = IF step[q][k] = "queued" THEN "cancelled" ELSE step[q][k]
        \/ /\ status[q] = "reconciling"
           /\ \A k \in Ordinals : step'[q][k] = Requeued(step[q][k])
        \/ /\ "stop" \in Ops
           /\ \E k \in Ordinals :
                /\ step[q][k] \in {"queued", "running"}
                /\ step'[q] = [step[q] EXCEPT ![k] = Stopped(step[q][k])]

LEMMA StepMoves ==
  ASSUME TypeOK, [Next]_vars, NEW q \in Runs
  PROVE  StepMove(q)
<1>t. step \in [Runs -> [Ordinals -> StepStatus]] /\ status \in [Runs -> RunStatus]
  BY DEF TypeOK
<1>0. CASE UNCHANGED <<step, delivered>>
  BY <1>0 DEF StepMove
<1>1. ASSUME NEW p \in Procs, NEW r \in Runs, TaskStep(p, r) PROVE StepMove(q)
  <2>1. CASE q = r
    BY <1>1, <2>1 DEF StepMove
  <2>2. CASE q # r
    <3> DEFINE Same == step'[q] = step[q] /\ delivered'[q] = delivered[q]
    <3>1. Claim(p, r) \/ SendCall(p, r) \/ ReplayCall(p, r) \/ CallCompletes(p, r) => Same
      BY DEF Claim, SendCall, ReplayCall, CallCompletes, dbVars
    <3>2. SpeakError(p, r) => step'[q] = step[q]
      BY <1>t, <2>2 DEF SpeakError
    <3>3. CallRefused(p, r) \/ CallFails(p, r) => Same
      BY <3>2 DEF CallRefused, CallFails
    <3>4. PickStep(p, r) \/ Collaborate(p, r) \/ Delegate(p, r) => Same
      BY <1>t, <2>2 DEF PickStep, Collaborate, Delegate
    <3>5. Deliver(p, r) => Same
      <4>1. delivered \in [Runs -> [Ordinals -> Nat]]
        BY DEF TypeOK
      <4> QED BY <1>t, <2>2, <4>1 DEF Deliver
    <3>6. Finish(p, r) \/ AdvanceAfterFinish(p, r) \/ WorkersFinished(p, r) => Same
      BY DEF Finish, AdvanceAfterFinish, WorkersFinished
    <3>7. StopChildren(p, r) \/ Settle(p, r) \/ Finally(p, r) => Same
      BY DEF StopChildren, Settle, Finally
    <3> QED BY <1>1, <3>1, <3>3, <3>4, <3>5, <3>6, <3>7 DEF TaskStep, StepMove
  <2> QED BY <2>1, <2>2
<1>2. ASSUME NEW p \in Procs, NEW r \in Runs, Start(p, r) PROVE StepMove(q)
  <2>1. /\ UNCHANGED delivered /\ status[r] = "none"
        /\ step' = [step EXCEPT ![r][0] = "queued"]
    BY <1>2 DEF Start
  <2> QED BY <1>t, <2>1 DEF StepMove
<1>3. ASSUME NEW p \in Procs, NEW r \in Runs, Cancel(p, r) PROVE StepMove(q)
  <2>1. UNCHANGED delivered
    BY <1>3 DEF Cancel
  <2>2. CASE status[r] \in {"queued", "waiting_room"} /\ q = r
    <3>1. /\ status' = [status EXCEPT ![r] = "cancelled"]
          /\ step' = [step EXCEPT ![r] = [k \in Ordinals |->
                        IF @[k] = "queued" THEN "cancelled" ELSE @[k]]]
      BY <1>3, <2>2 DEF Cancel
    <3> QED BY <1>t, <2>1, <2>2, <3>1 DEF StepMove
  <2>3. CASE status[r] \notin {"queued", "waiting_room"} \/ q # r
    <3>1. step'[q] = step[q]
      BY <1>t, <1>3, <2>3 DEF Cancel
    <3> QED BY <2>1, <3>1 DEF StepMove
  <2> QED BY <2>2, <2>3
<1>4. ASSUME NEW p \in Procs, NEW r \in Runs, Resume(p, r) PROVE StepMove(q)
  <2>1. /\ UNCHANGED delivered /\ status[r] = "reconciling"
        /\ step' = [step EXCEPT ![r] = [k \in Ordinals |-> Requeued(@[k])]]
    BY <1>4 DEF Resume
  <2> QED BY <1>t, <2>1 DEF StepMove
<1>5. ASSUME NEW r \in Runs, NEW k \in Ordinals, StopReply(r, k) PROVE StepMove(q)
  <2>1. /\ UNCHANGED delivered /\ step[r][k] \in {"queued", "running"} /\ "stop" \in Ops
        /\ step' = [step EXCEPT ![r][k] = Stopped(@)]
    BY <1>5 DEF StopReply
  <2> QED BY <1>t, <2>1 DEF StepMove
<1>6. ASSUME NEW p \in Procs, NEW r \in Runs,
             WorkerEnds(p, r) \/ Heartbeat(p, r) \/ CancelGoesOn(p, r)
      PROVE  StepMove(q)
  BY <1>0, <1>6 DEF WorkerEnds, Heartbeat, CancelGoesOn
<1>7. ASSUME NEW p \in Procs, ProcessStep(p) PROVE StepMove(q)
  BY <1>0, <1>7 DEF ProcessStep, Recover, Boot, Shutdown, Exit, dbVars
<1>8. ASSUME NEW p \in Procs, NEW rm \in Rooms, RecoverAdvances(p, rm) PROVE StepMove(q)
  BY <1>0, <1>8 DEF RecoverAdvances
<1>9. ASSUME NEW r \in Runs, LeaseLapses(r) \/ DeadlinePasses(r) PROVE StepMove(q)
  BY <1>0, <1>9 DEF LeaseLapses, DeadlinePasses
<1>10. CASE UNCHANGED vars
  BY <1>0, <1>10 DEF vars, dbVars
<1> QED
  BY <1>1, <1>2, <1>3, <1>4, <1>5, <1>6, <1>7, <1>8, <1>9, <1>10 DEF Next, OwnerStep

-----------------------------------------------------------------------------
(* At most one publication of a contribution. *)

AtCall == {"speak", "calling", "spoken"}

\* A run in the queue has no executor: the claim is what makes one.
Unclaimed == \A r \in Runs : status[r] \in Early => executor[r] = NoProc

\* A published step stays published, and what the executor is still working on
\* has not been published.
PublishedInv ==
  /\ \A r \in Runs, k \in Ordinals :
        /\ delivered[r][k] <= 1
        /\ delivered[r][k] # 0 => step[r][k] = "succeeded"
  /\ \A r \in Runs : status[r] = "none" => \A k \in Ordinals : delivered[r][k] = 0
  /\ \A p \in Procs, r \in Runs :
        task[p][r].pc \in AtCall /\ executor[r] = p => step[r][task[p][r].cur] # "succeeded"

LEMMA UnclaimedStep ==
  ASSUME TypeOK, Unclaimed, [Next]_vars
  PROVE  Unclaimed'
BY RunMoves DEF Unclaimed, RunMove, Early

\* What a task step of the run does to a step's status and its publications.
LEMMA TaskStepPublishes ==
  ASSUME TypeOK, NEW p \in Procs, NEW r \in Runs, TaskStep(p, r), NEW k \in Ordinals
  PROVE  \/ /\ delivered'[r][k] = delivered[r][k]
            /\ step[r][k] = "succeeded" <=> step'[r][k] = "succeeded"
         \/ /\ delivered'[r][k] = delivered[r][k] + 1
            /\ step'[r][k] = "succeeded"
            /\ k = task[p][r].cur /\ task[p][r].pc = "spoken" /\ task'[p][r].pc = "loop"
            /\ ~Fenced(p, r)
<1> DEFINE c == task[p][r].cur
           Kept == /\ delivered'[r][k] = delivered[r][k]
                   /\ step[r][k] = "succeeded" <=> step'[r][k] = "succeeded"
           Published == /\ delivered'[r][k] = delivered[r][k] + 1
                        /\ step'[r][k] = "succeeded"
                        /\ k = c /\ task[p][r].pc = "spoken" /\ task'[p][r].pc = "loop"
                        /\ ~Fenced(p, r)
<1> SUFFICES Kept \/ Published
  OBVIOUS
<1>t. /\ step \in [Runs -> [Ordinals -> StepStatus]]
      /\ delivered \in [Runs -> [Ordinals -> Nat]]
      /\ task \in [Procs -> [Runs -> Tasks]]
      /\ task[p][r] \in Tasks /\ c \in Ordinals
  BY TaskFunctions DEF TypeOK, Tasks
<1>1. Claim(p, r) \/ SendCall(p, r) \/ ReplayCall(p, r) \/ CallCompletes(p, r) => Kept
  BY DEF Claim, SendCall, ReplayCall, CallCompletes, dbVars
<1>2. SpeakError(p, r) => (step[r][k] = "succeeded" <=> step'[r][k] = "succeeded")
  BY <1>t DEF SpeakError
<1>3. CallRefused(p, r) \/ CallFails(p, r) => Kept
  BY <1>2 DEF CallRefused, CallFails
<1>4. ASSUME PickStep(p, r) PROVE Kept
  <2>1. delivered' = delivered
    BY <1>4 DEF PickStep
  <2>2. \/ step' = step
        \/ \E j \in Ordinals : /\ step[r][j] = "queued"
                               /\ step' = [step EXCEPT ![r][j] = "running"]
    BY <1>4 DEF PickStep
  <2> QED BY <1>t, <2>1, <2>2
<1>5. Collaborate(p, r) \/ Delegate(p, r) => Kept
  BY <1>t DEF Collaborate, Delegate
<1>6. ASSUME Deliver(p, r) PROVE Kept \/ Published
  <2>1. CASE step[r][c] = "cancel_requested"
    BY <1>t, <1>6, <2>1 DEF Deliver
  <2>2. CASE step[r][c] # "cancel_requested" /\ Fenced(p, r)
    BY <1>t, <1>6, <2>2 DEF Deliver
  <2>3. CASE step[r][c] # "cancel_requested" /\ ~Fenced(p, r)
    <3>1. /\ step' = [step EXCEPT ![r][c] = "succeeded"]
          /\ delivered' = [delivered EXCEPT ![r][c] = @ + 1]
          /\ SetTasks(p, [Goto(p, r, "loop") EXCEPT ![r].cur = 0])
          /\ task[p][r].pc = "spoken"
      BY <1>6, <2>3 DEF Deliver, At
    <3>2. task'[p][r].pc = "loop"
      BY <1>t, <3>1 DEF SetTasks, Goto, Tasks
    <3>3. CASE k = c
      BY <1>t, <2>3, <3>1, <3>2, <3>3
    <3>4. CASE k # c
      BY <1>t, <3>1, <3>4
    <3> QED BY <3>3, <3>4
  <2> QED BY <2>1, <2>2, <2>3
<1>7. Finish(p, r) \/ AdvanceAfterFinish(p, r) \/ WorkersFinished(p, r) => Kept
  BY DEF Finish, AdvanceAfterFinish, WorkersFinished
<1>8. StopChildren(p, r) \/ Settle(p, r) \/ Finally(p, r) => Kept
  BY DEF StopChildren, Settle, Finally
<1> QED BY <1>1, <1>3, <1>4, <1>5, <1>6, <1>7, <1>8 DEF TaskStep

\* A task gets to its model call by picking a queued step, and stays with it.
LEMMA AtCallKept ==
  ASSUME TypeOK, NEW p \in Procs, NEW q \in Runs, TaskMove(p, q),
         task'[p][q].pc \in AtCall
  PROVE  \/ task[p][q].pc \in AtCall /\ task'[p][q].cur = task[p][q].cur
         \/ task[p][q].pc = "loop" /\ step'[q][task'[p][q].cur] = "running"
<1> DEFINE t == task[p][q]
           u == task'[p][q]
           Stays == t.pc \in AtCall /\ u.cur = t.cur
           Picked == t.pc = "loop" /\ step'[q][u.cur] = "running"
<1> SUFFICES Stays \/ Picked
  OBVIOUS
<1>t. /\ step \in [Runs -> [Ordinals -> StepStatus]]
      /\ task \in [Procs -> [Runs -> Tasks]]
      /\ t \in Tasks /\ t.cur \in Ordinals
  BY TaskFunctions DEF TypeOK, Tasks
<1>p. u.pc \in {"speak", "calling", "spoken"}
  BY DEF AtCall
<1>1. CASE Left(p, q)
  BY <1>1 DEF Left
<1>2. CASE Begun(p, q)
  <2>1. u.pc = "claim"
    BY <1>t, <1>2 DEF Begun, Tasks
  <2> QED BY <1>p, <2>1
<1>3. CASE Cut(p, q)
  BY <1>p, <1>3, CutEffect
<1>4. CASE Unwatched(p, q)
  <2>1. u.pc = t.pc /\ u.cur = t.cur
    BY <1>t, <1>4 DEF Unwatched, Tasks
  <2> QED BY <2>1
<1>5. CASE Gone(p, q)
  BY <1>p, <1>5 DEF Gone, IdleTask
<1>6. CASE TaskStep(p, q)
  <2>g. ASSUME NEW pc, SetTasks(p, Goto(p, q, pc)) PROVE u = [t EXCEPT !.pc = pc]
    BY <1>t, <2>g DEF SetTasks, Goto
  <2>gp. ASSUME NEW pc, NEW v \in Tasks, u = [v EXCEPT !.pc = pc] PROVE u.pc = pc /\ u.cur = v.cur
    BY <2>gp DEF Tasks
  <2>r. ASSUME NEW e, SetTasks(p, Raised(p, q, e)) PROVE FALSE
    <3>1. u = Raising(t, e)
      BY <1>t, <2>r DEF SetTasks, Raised
    <3>2. u.pc = "stopping"
      BY <1>t, <3>1 DEF Raising, Tasks
    <3> QED BY <1>p, <3>2
  <2>l. ASSUME SetTasks(p, [Goto(p, q, "loop") EXCEPT ![q].cur = 0]) PROVE FALSE
    <3>1. u = [t EXCEPT !.pc = "loop", !.cur = 0]
      BY <1>t, <2>l DEF SetTasks, Goto, Tasks
    <3>2. u.pc = "loop"
      BY <1>t, <3>1 DEF Tasks
    <3> QED BY <1>p, <3>2
  <2>1. CASE Claim(p, q)
    <3>1. CASE SetTasks(p, Goto(p, q, "finally"))
      <4>1. u.pc = "finally"
        BY <1>t, <3>1 DEF SetTasks, Goto, Tasks
      <4> QED BY <1>p, <4>1
    <3>2. CASE SetTasks(p, [Goto(p, q, "loop") EXCEPT ![q].beat = TRUE])
      <4>1. u = [t EXCEPT !.pc = "loop", !.beat = TRUE]
        BY <1>t, <3>2 DEF SetTasks, Goto, Tasks
      <4>2. u.pc = "loop"
        BY <1>t, <4>1 DEF Tasks
      <4> QED BY <1>p, <4>2
    <3> QED BY <2>1, <3>1, <3>2 DEF Claim
  <2>2. CASE PickStep(p, q)
    <3>1. CASE SetTasks(p, Goto(p, q, "finish"))
      <4>1. u.pc = "finish"
        BY <1>t, <3>1 DEF SetTasks, Goto, Tasks
      <4> QED BY <1>p, <4>1
    <3>2. CASE \E k \in Ordinals :
                  /\ step' = [step EXCEPT ![q][k] = "running"]
                  /\ SetTasks(p, [Goto(p, q, "speak") EXCEPT ![q].cur = k])
      <4>1. PICK k \in Ordinals :
                  /\ step' = [step EXCEPT ![q][k] = "running"]
                  /\ SetTasks(p, [Goto(p, q, "speak") EXCEPT ![q].cur = k])
        BY <3>2
      <4>2. u = [t EXCEPT !.pc = "speak", !.cur = k]
        BY <1>t, <4>1 DEF SetTasks, Goto, Tasks
      <4>3. u.cur = k
        BY <1>t, <4>2 DEF Tasks
      <4>4. step'[q][k] = "running"
        BY <1>t, <4>1
      <4>5. t.pc = "loop"
        BY <2>2 DEF PickStep, At
      <4> QED BY <4>3, <4>4, <4>5
    <3> QED BY <2>2, <2>r, <3>1, <3>2 DEF PickStep
  <2>3. CASE SendCall(p, q) \/ ReplayCall(p, q) \/ CallCompletes(p, q)
    <3>1. t.pc \in AtCall
      BY <2>3 DEF SendCall, ReplayCall, CallCompletes, At, AtCall
    <3>2. \E pc \in PCs : SetTasks(p, Goto(p, q, pc))
      BY <2>3 DEF SendCall, ReplayCall, CallCompletes, PCs
    <3> QED BY <1>t, <2>g, <2>gp, <3>1, <3>2
  <2>4. CASE CallRefused(p, q) \/ CallFails(p, q)
    BY <2>4, <2>l, <2>r DEF CallRefused, CallFails, SpeakError
  <2>5. CASE Collaborate(p, q) \/ Delegate(p, q)
    BY <2>5 DEF Collaborate, Delegate, At, AtCall
  <2>6. CASE Deliver(p, q)
    BY <2>6, <2>l, <2>r DEF Deliver
  <2>7. CASE Finish(p, q)
    <3> DEFINE kids == worker[q] = "active"
    <3>1. SetTasks(p, [Goto(p, q, "advance") EXCEPT ![q].kids = kids])
      BY <2>7 DEF Finish
    <3> HIDE DEF kids
    <3>2. u = [t EXCEPT !.pc = "advance", !.kids = kids]
      BY <1>t, <3>1 DEF SetTasks, Goto, Tasks
    <3>3. u.pc = "advance"
      BY <1>t, <3>2 DEF Tasks
    <3> QED BY <1>p, <3>3
  <2>8. CASE AdvanceAfterFinish(p, q)
    <3> DEFINE pc == IF t.kids THEN "wait" ELSE "finally"
    <3>1. AdvanceRoom(p, RoomOf[q], Goto(p, q, pc))
      BY <2>8 DEF AdvanceAfterFinish
    <3>2. Goto(p, q, pc) \in [Runs -> Tasks]
      BY TaskFunctions DEF PCs
    <3>3. MayLaunch(p, q, Goto(p, q, pc)[q])
      BY <3>1, <3>2, AdvanceRoomEffect, CoordinationAssumption
    <3>4. Goto(p, q, pc)[q].pc \in {"wait", "finally"}
      BY <1>t DEF Goto, Tasks
    <3> QED BY <1>p, <3>3, <3>4 DEF MayLaunch
  <2>9. CASE WorkersFinished(p, q)
    <3>1. SetTasks(p, [Goto(p, q, "finally") EXCEPT ![q].kids = FALSE])
      BY <2>9 DEF WorkersFinished
    <3>2. u = [t EXCEPT !.pc = "finally", !.kids = FALSE]
      BY <1>t, <3>1 DEF SetTasks, Goto, Tasks
    <3>3. u.pc = "finally"
      BY <1>t, <3>2 DEF Tasks
    <3> QED BY <1>p, <3>3
  <2>10. CASE StopChildren(p, q)
    <3>1. SetTasks(p, [Goto(p, q, "settling") EXCEPT ![q].settle = TRUE])
      BY <2>10 DEF StopChildren
    <3>2. u = [t EXCEPT !.pc = "settling", !.settle = TRUE]
      BY <1>t, <3>1 DEF SetTasks, Goto, Tasks
    <3>3. u.pc = "settling"
      BY <1>t, <3>2 DEF Tasks
    <3> QED BY <1>p, <3>3
  <2>11. CASE Settle(p, q)
    <3>1. u = Settled(t)
      BY <1>t, <2>11 DEF Settle, SetTasks
    <3>2. u.cur = t.cur /\ u.pc = IF t.pc = "settling" THEN "finally" ELSE t.pc
      BY <1>t, <3>1 DEF Settled, Tasks
    <3> QED BY <1>p, <3>2 DEF AtCall
  <2>12. CASE Finally(p, q)
    <3> DEFINE ts == [task[p] EXCEPT ![q] = Ended(@)]
    <3>1. AdvanceRoom(p, RoomOf[q], ts)
      BY <2>12 DEF Finally
    <3>2. ts \in [Runs -> Tasks] /\ ts[q] = Ended(t)
      BY <1>t, TaskRecords
    <3>3. MayLaunch(p, q, ts[q])
      BY <3>1, <3>2, AdvanceRoomEffect, CoordinationAssumption
    <3>4. Ended(t).pc = "none" /\ Ended(t) \in Tasks
      BY ZenonT(60), <1>t, TaskRecords DEF Ended, IdleTask
    <3>5. [Ended(t) EXCEPT !.pc = "claim"].pc = "claim"
      BY <3>4 DEF Tasks
    <3> QED BY <1>p, <3>2, <3>3, <3>4, <3>5 DEF MayLaunch
  <2> QED
    BY <1>6, <2>1, <2>2, <2>3, <2>4, <2>5, <2>6, <2>7, <2>8, <2>9, <2>10, <2>11, <2>12
    DEF TaskStep
<1> QED BY <1>1, <1>2, <1>3, <1>4, <1>5, <1>6 DEF TaskMove

\* The claim makes the executor and puts its task before the first step.
LEMMA ClaimLeaves ==
  ASSUME TypeOK, NEW p \in Procs, NEW q \in Runs, Claim(p, q)
  PROVE  task'[p][q].pc \notin AtCall
<1>t. task \in [Procs -> [Runs -> Tasks]] /\ task[p][q] \in Tasks
  BY TaskFunctions DEF TypeOK
<1>1. CASE SetTasks(p, Goto(p, q, "finally"))
  BY <1>t, <1>1 DEF SetTasks, Goto, Tasks, AtCall
<1>2. CASE SetTasks(p, [Goto(p, q, "loop") EXCEPT ![q].beat = TRUE])
  <2>1. task'[p][q] = [task[p][q] EXCEPT !.pc = "loop", !.beat = TRUE]
    BY <1>t, <1>2 DEF SetTasks, Goto, Tasks
  <2> QED BY <1>t, <2>1 DEF Tasks, AtCall
<1> QED BY <1>1, <1>2 DEF Claim

\* A step is published only by its executor, and once.
LEMMA PublishedStep ==
  ASSUME TypeOK, Unclaimed, PublishedInv, [Next]_vars
  PROVE  PublishedInv'
<1>t. /\ step \in [Runs -> [Ordinals -> StepStatus]]
      /\ delivered \in [Runs -> [Ordinals -> Nat]]
      /\ executor \in [Runs -> Procs \cup {NoProc}]
  BY DEF TypeOK
\* One run's answers and steps, when no task of the run takes a step.
<1>1. ASSUME NEW r \in Runs, NEW k \in Ordinals, ~\E p \in Procs : TaskStep(p, r)
      PROVE  /\ delivered'[r][k] = delivered[r][k]
             /\ step'[r][k] = "succeeded" => step[r][k] = "succeeded"
             /\ step[r][k] = "succeeded" => step'[r][k] = "succeeded" \/ status[r] = "none"
  <2>1. StepMove(r)
    BY StepMoves
  <2>2. CASE step'[r] = step[r] /\ delivered'[r] = delivered[r]
    BY <2>2
  <2>3. CASE /\ delivered'[r] = delivered[r]
             /\ status[r] = "none" /\ step'[r] = [step[r] EXCEPT ![0] = "queued"]
    BY <1>t, <2>3
  <2>4. CASE /\ delivered'[r] = delivered[r]
             /\ \A j \in Ordinals :
                  step'[r][j] = IF step[r][j] = "queued" THEN "cancelled" ELSE step[r][j]
    BY <1>t, <2>4
  <2>5. CASE /\ delivered'[r] = delivered[r]
             /\ \A j \in Ordinals : step'[r][j] = Requeued(step[r][j])
    BY <1>t, <2>5 DEF Requeued
  <2>6. CASE /\ delivered'[r] = delivered[r]
             /\ \E j \in Ordinals :
                  /\ step[r][j] \in {"queued", "running"}
                  /\ step'[r] = [step[r] EXCEPT ![j] = Stopped(step[r][j])]
    BY <1>t, <2>6 DEF Stopped
  <2> QED BY <1>1, <2>1, <2>2, <2>3, <2>4, <2>5, <2>6 DEF StepMove
<1>2. \A r \in Runs, k \in Ordinals :
        /\ delivered'[r][k] <= 1
        /\ delivered'[r][k] # 0 => step'[r][k] = "succeeded"
  <2> SUFFICES ASSUME NEW r \in Runs, NEW k \in Ordinals
               PROVE  /\ delivered'[r][k] <= 1
                      /\ delivered'[r][k] # 0 => step'[r][k] = "succeeded"
    OBVIOUS
  <2>1. CASE ~\E p \in Procs : TaskStep(p, r)
    BY <1>1, <2>1 DEF PublishedInv
  <2>2. ASSUME NEW p \in Procs, TaskStep(p, r)
        PROVE  /\ delivered'[r][k] <= 1
               /\ delivered'[r][k] # 0 => step'[r][k] = "succeeded"
    <3>1. CASE /\ delivered'[r][k] = delivered[r][k]
               /\ step[r][k] = "succeeded" <=> step'[r][k] = "succeeded"
      BY <3>1 DEF PublishedInv
    <3>2. CASE /\ delivered'[r][k] = delivered[r][k] + 1
               /\ step'[r][k] = "succeeded"
               /\ k = task[p][r].cur /\ task[p][r].pc = "spoken" /\ ~Fenced(p, r)
      <4>1. step[r][k] # "succeeded"
        BY <3>2 DEF PublishedInv, AtCall, Fenced
      <4>2. delivered[r][k] = 0
        BY <4>1 DEF PublishedInv
      <4> QED BY <3>2, <4>2
    <3> QED BY <2>2, <3>1, <3>2, TaskStepPublishes
  <2> QED BY <2>1, <2>2
<1>3. ASSUME NEW r \in Runs, status'[r] = "none", NEW k \in Ordinals
      PROVE  delivered'[r][k] = 0
  <2>1. status[r] = "none"
    BY <1>3, RunMoves DEF RunMove
  <2>2. executor[r] = NoProc /\ delivered[r][k] = 0
    BY <2>1 DEF Unclaimed, Early, PublishedInv
  <2>3. \A p \in Procs : Fenced(p, r)
    BY <2>2, CoordinationAssumption DEF Fenced
  <2> QED BY <1>1, <2>2, <2>3, TaskStepPublishes
<1>4. ASSUME NEW p \in Procs, NEW r \in Runs,
             task'[p][r].pc \in AtCall, executor'[r] = p
      PROVE  step'[r][task'[p][r].cur] # "succeeded"
  <2>1. executor[r] = p
    BY <1>4, RunMoves, ClaimLeaves DEF RunMove
  <2>2. \/ task[p][r].pc \in AtCall /\ task'[p][r].cur = task[p][r].cur
        \/ step'[r][task'[p][r].cur] = "running"
    BY <1>4, TaskMoves, AtCallKept
  <2>3. CASE task[p][r].pc \in AtCall /\ task'[p][r].cur = task[p][r].cur
    <3> DEFINE k == task[p][r].cur
    <3>1. k \in Ordinals /\ step[r][k] # "succeeded"
      BY <2>1, <2>3, TaskFunctions DEF PublishedInv, Tasks
    <3>2. CASE ~\E p1 \in Procs : TaskStep(p1, r)
      BY <1>1, <2>3, <3>1, <3>2
    <3>3. ASSUME NEW p1 \in Procs, TaskStep(p1, r) PROVE step'[r][k] # "succeeded"
      <4>1. CASE step[r][k] = "succeeded" <=> step'[r][k] = "succeeded"
        BY <3>1, <4>1
      <4>2. CASE task'[p1][r].pc = "loop" /\ ~Fenced(p1, r)
        BY <1>4, <2>1, <4>2 DEF Fenced, AtCall
      <4> QED BY <3>1, <3>3, <4>1, <4>2, TaskStepPublishes
    <3> QED BY <2>3, <3>2, <3>3
  <2> QED BY <2>2, <2>3
<1> QED BY <1>2, <1>3, <1>4 DEF PublishedInv

\* No contribution is published twice, though two processes believe they execute
\* the run and it is recovered and resumed under them.
THEOREM NeverPublishedTwice == Spec => []PublishedOnce
<1>1. Init => Unclaimed /\ PublishedInv
  BY DEF Init, Unclaimed, PublishedInv, IdleTask, AtCall
<1>2. PublishedInv => PublishedOnce
  BY DEF PublishedInv, PublishedOnce
<1> QED BY <1>1, <1>2, UnclaimedStep, PublishedStep, TypeCorrect, PTL DEF Spec

-----------------------------------------------------------------------------
(* Executors that keep their lease.                                        *)
(*                                                                         *)
(* The rest supposes ~Stalls: the heartbeat of a live executor is never    *)
(* sixty seconds late.  Processes may still crash, overlap, be shut down,  *)
(* and runs be cancelled, late, recovered and resumed at any moment.  With *)
(* stalls the properties below are false: see the run coord_slot_leak.     *)

Working == {"loop", "speak", "calling", "spoken", "finish"}

Leads(p, r) == executor[r] = p /\ lease[r] /\ task[p][r].beat

\* Only launch() gives a run a task, and only runs that were queued.
Untouched ==
  \A r \in Runs : status[r] \in {"none", "waiting_room"} =>
    \A p \in Procs : task[p][r].pc = "none" /\ ~task[p][r].settle

DeadIdle ==
  \A p \in Procs, r \in Runs : ~Alive(p) => task[p][r].pc = "none" /\ ~task[p][r].settle

\* A cancelled run never enters the queue again.
CancelKnown ==
  /\ \A r \in Runs : cancelled[r] => status[r] \notin Early
  /\ \A p \in Procs : \A r \in cancelling[p] : cancelled[r]

\* A task that works on its run, or waits for its workers, is its executor and
\* keeps the lease; so does one whose cleanup was not caused by a cancellation,
\* a deadline or a shutdown.
LeadingAt(p, r) ==
  /\ task[p][r].pc \in Working => Leads(p, r) /\ status[r] = "running"
  /\ task[p][r].pc = "wait" \/ (task[p][r].pc = "advance" /\ task[p][r].kids)
       => Leads(p, r) /\ status[r] = "waiting_tasks"
  /\ (/\ task[p][r].pc \in {"stopping", "settling"}
      /\ proc[p] = "up" /\ ~cancelled[r] /\ ~late[r])
       => Leads(p, r) /\ status[r] = "running"

\* A settle() whose task has gone on belongs to a run that is not resumed, or to
\* a process that launches nothing any more.
DetachedAt(p, r) ==
  task[p][r].settle =>
    /\ task[p][r].pc \in {"settling", "finally", "none"}
    /\ \/ task[p][r].pc = "settling" \/ proc[p] # "up"
       \/ (cancelled[r] \/ late[r]) /\ status[r] # "queued"

LeaseInv ==
  /\ Unclaimed /\ Untouched /\ DeadIdle /\ CancelKnown
  /\ \A p \in Procs, r \in Runs : LeadingAt(p, r) /\ DetachedAt(p, r)

\* How a task step moves its own task.
OwnMove(p, r) ==
  LET t == task[p][r]
      u == task'[p][r]
  IN
  \/ /\ Claim(p, r) /\ t.pc = "claim" /\ u.settle = t.settle
     /\ u.pc = "finally" \/ (status[r] = "queued" /\ u.pc = "loop" /\ u.beat)
  \/ /\ t.pc \in Working /\ u.pc \in Working \cup {"stopping"}
     /\ u.beat = t.beat /\ u.settle = t.settle
     /\ UNCHANGED <<status, executor, lease>>
  \/ /\ Finish(p, r) /\ t.pc = "finish" /\ u.pc = "advance"
     /\ u.kids <=> worker[r] = "active"
     /\ u.beat = t.beat /\ u.settle = t.settle
  \/ /\ AdvanceAfterFinish(p, r) /\ t.pc = "advance"
     /\ u.pc = (IF t.kids THEN "wait" ELSE "finally")
     /\ u.beat = t.beat /\ u.settle = t.settle
  \/ /\ WorkersFinished(p, r) /\ t.pc = "wait" /\ u.pc = "finally" /\ u.settle = t.settle
  \/ /\ StopChildren(p, r) /\ t.pc = "stopping" /\ u.pc = "settling" /\ u.beat = t.beat
  \/ /\ Settle(p, r) /\ t.settle /\ ~u.settle
     /\ u.pc = (IF t.pc = "settling" THEN "finally" ELSE t.pc)
  \/ /\ Finally(p, r) /\ t.pc = "finally" /\ u.settle = t.settle
     /\ u.pc = "none" \/ (u.pc = "claim" /\ status'[r] = "queued" /\ proc[p] # "closing")

\* The fields of a process's task after it is written.
LEMMA TaskWritten ==
  ASSUME TypeOK, NEW p \in Procs, NEW r \in Runs
  PROVE  /\ \A pc \in PCs : SetTasks(p, Goto(p, r, pc)) =>
              /\ task'[p][r].pc = pc
              /\ task'[p][r].beat = task[p][r].beat /\ task'[p][r].settle = task[p][r].settle
         /\ \A e \in {"error", "cancelled"} : SetTasks(p, Raised(p, r, e)) =>
              /\ task'[p][r].pc = "stopping"
              /\ task'[p][r].beat = task[p][r].beat /\ task'[p][r].settle = task[p][r].settle
         /\ \A pc \in PCs, k \in Ordinals :
              SetTasks(p, [Goto(p, r, pc) EXCEPT ![r].cur = k]) =>
                /\ task'[p][r].pc = pc /\ task'[p][r].cur = k
                /\ task'[p][r].beat = task[p][r].beat /\ task'[p][r].settle = task[p][r].settle
<1>t. task \in [Procs -> [Runs -> Tasks]] /\ task[p][r] \in Tasks
  BY TaskFunctions DEF TypeOK
<1>1. ASSUME NEW pc \in PCs, SetTasks(p, Goto(p, r, pc))
      PROVE  /\ task'[p][r].pc = pc
             /\ task'[p][r].beat = task[p][r].beat /\ task'[p][r].settle = task[p][r].settle
  BY <1>t, <1>1 DEF SetTasks, Goto, Tasks
<1>2. ASSUME NEW e \in {"error", "cancelled"}, SetTasks(p, Raised(p, r, e))
      PROVE  /\ task'[p][r].pc = "stopping"
             /\ task'[p][r].beat = task[p][r].beat /\ task'[p][r].settle = task[p][r].settle
  <2>1. task'[p][r] = Raising(task[p][r], e)
    BY <1>t, <1>2 DEF SetTasks, Raised
  <2> QED BY <1>t, <2>1 DEF Raising, Tasks
<1>3. ASSUME NEW pc \in PCs, NEW k \in Ordinals,
             SetTasks(p, [Goto(p, r, pc) EXCEPT ![r].cur = k])
      PROVE  /\ task'[p][r].pc = pc /\ task'[p][r].cur = k
             /\ task'[p][r].beat = task[p][r].beat /\ task'[p][r].settle = task[p][r].settle
  <2>1. task'[p][r] = [task[p][r] EXCEPT !.pc = pc, !.cur = k]
    BY <1>t, <1>3 DEF SetTasks, Goto, Tasks
  <2> QED BY <1>t, <2>1 DEF Tasks
<1> QED BY <1>1, <1>2, <1>3

LEMMA OwnMoves ==
  ASSUME TypeOK, NEW p \in Procs, NEW r \in Runs, TaskStep(p, r)
  PROVE  OwnMove(p, r)
<1> DEFINE t == task[p][r]
           u == task'[p][r]
           Works == /\ t.pc \in Working /\ u.pc \in Working \cup {"stopping"}
                    /\ u.beat = t.beat /\ u.settle = t.settle
                    /\ UNCHANGED <<status, executor, lease>>
<1>t. task \in [Procs -> [Runs -> Tasks]] /\ t \in Tasks
  BY TaskFunctions DEF TypeOK
<1>p. {"loop", "finally", "speak", "finish", "calling", "spoken", "advance", "wait",
       "settling"} \subseteq PCs
  BY DEF PCs
<1>w. ASSUME Works PROVE OwnMove(p, r)
  BY <1>w DEF OwnMove
<1>1. CASE Claim(p, r)
  <2>0. t.pc = "claim"
    BY <1>1 DEF Claim, At
  <2>1. CASE status[r] = "queued"
    <3>1. SetTasks(p, [Goto(p, r, "loop") EXCEPT ![r].beat = TRUE])
      BY <1>1, <2>1 DEF Claim
    <3>2. u = [t EXCEPT !.pc = "loop", !.beat = TRUE]
      BY <1>t, <3>1 DEF SetTasks, Goto, Tasks
    <3>3. u.pc = "loop" /\ u.beat /\ u.settle = t.settle
      BY <1>t, <3>2 DEF Tasks
    <3> QED BY <1>1, <2>0, <2>1, <3>3 DEF OwnMove
  <2>2. CASE status[r] # "queued"
    <3>1. u.pc = "finally" /\ u.settle = t.settle
      BY <1>1, <1>p, <2>2, TaskWritten DEF Claim
    <3> QED BY <1>1, <2>0, <3>1 DEF OwnMove
  <2> QED BY <2>1, <2>2
<1>2. CASE PickStep(p, r)
  <2>1. t.pc = "loop" /\ UNCHANGED <<status, executor, lease>>
    BY <1>2 DEF PickStep, At
  <2>p. \/ SetTasks(p, Raised(p, r, "error")) \/ SetTasks(p, Goto(p, r, "finish"))
        \/ \E k \in Ordinals : SetTasks(p, [Goto(p, r, "speak") EXCEPT ![r].cur = k])
    BY <1>2 DEF PickStep
  <2>2. /\ u.pc \in {"speak", "finish", "stopping"}
        /\ u.beat = t.beat /\ u.settle = t.settle
    <3>1. CASE \E k \in Ordinals : SetTasks(p, [Goto(p, r, "speak") EXCEPT ![r].cur = k])
      <4>1. PICK k \in Ordinals : SetTasks(p, [Goto(p, r, "speak") EXCEPT ![r].cur = k])
        BY <3>1
      <4> QED BY <1>p, <4>1, TaskWritten
    <3>2. CASE SetTasks(p, Raised(p, r, "error")) \/ SetTasks(p, Goto(p, r, "finish"))
      BY <1>p, <3>2, TaskWritten
    <3> QED BY <2>p, <3>1, <3>2
  <2> QED BY <1>w, <2>1, <2>2 DEF Working
<1>3. CASE SendCall(p, r) \/ ReplayCall(p, r) \/ CallCompletes(p, r)
  <2>1. t.pc \in Working /\ UNCHANGED <<status, executor, lease>>
    BY ZenonT(60), <1>3 DEF SendCall, ReplayCall, CallCompletes, At, Working, dbVars
  <2>2. /\ u.pc \in {"calling", "spoken"}
        /\ u.beat = t.beat /\ u.settle = t.settle
    <3>1. \E pc \in {"calling", "spoken"} : SetTasks(p, Goto(p, r, pc))
      BY Zenon, <1>3 DEF SendCall, ReplayCall, CallCompletes
    <3> QED BY <1>p, <3>1, TaskWritten, ZeroOrdinal
  <2> QED BY SMTT(60), <1>w, <2>1, <2>2 DEF Working
<1>4. CASE CallRefused(p, r) \/ CallFails(p, r)
  <2>1. t.pc \in Working /\ UNCHANGED <<status, executor, lease>> /\ SpeakError(p, r)
    BY <1>4 DEF CallRefused, CallFails, At, Working
  <2>2. /\ u.pc \in {"loop", "stopping"}
        /\ u.beat = t.beat /\ u.settle = t.settle
    BY <2>1, <1>p, TaskWritten, ZeroOrdinal DEF SpeakError
  <2> QED BY <1>w, <2>1, <2>2 DEF Working
<1>5. CASE Collaborate(p, r) \/ Delegate(p, r)
  <2>1. t.pc \in Working /\ UNCHANGED <<status, executor, lease, task>>
    BY <1>5 DEF Collaborate, Delegate, At, Working
  <2> QED BY <1>w, <2>1
<1>6. CASE Deliver(p, r)
  <2>1. t.pc \in Working /\ UNCHANGED <<status, executor, lease>>
    BY ZenonT(60), <1>6 DEF Deliver, At, Working
  <2>2. /\ u.pc \in {"loop", "stopping"}
        /\ u.beat = t.beat /\ u.settle = t.settle
    <3>1. \/ SetTasks(p, [Goto(p, r, "loop") EXCEPT ![r].cur = 0])
          \/ SetTasks(p, Raised(p, r, "error"))
      BY Zenon, <1>6 DEF Deliver
    <3> QED BY <1>p, <3>1, TaskWritten, ZeroOrdinal
  <2> QED BY SMTT(60), <1>w, <2>1, <2>2 DEF Working
<1>7. CASE Finish(p, r)
  <2> DEFINE kids == worker[r] = "active"
  <2>1. SetTasks(p, [Goto(p, r, "advance") EXCEPT ![r].kids = kids]) /\ t.pc = "finish"
    BY <1>7 DEF Finish, At
  <2>2. kids \in BOOLEAN
    OBVIOUS
  <2> HIDE DEF kids
  <2>3. u = [t EXCEPT !.pc = "advance", !.kids = kids]
    BY <1>t, <2>1 DEF SetTasks, Goto, Tasks
  <2>4. u.pc = "advance" /\ u.kids = kids /\ u.beat = t.beat /\ u.settle = t.settle
    BY <1>t, <2>3 DEF Tasks
  <2>5. u.kids <=> worker[r] = "active"
    BY <2>2, <2>4 DEF kids
  <2> QED BY <1>7, <2>1, <2>4, <2>5 DEF OwnMove
<1>8. CASE AdvanceAfterFinish(p, r)
  <2> DEFINE pc == IF t.kids THEN "wait" ELSE "finally"
  <2>1. AdvanceRoom(p, RoomOf[r], Goto(p, r, pc)) /\ t.pc = "advance"
    BY <1>8 DEF AdvanceAfterFinish, At
  <2>2. Goto(p, r, pc) \in [Runs -> Tasks]
    BY TaskFunctions DEF PCs
  <2>3. MayLaunch(p, r, Goto(p, r, pc)[r])
    BY <2>1, <2>2, AdvanceRoomEffect, CoordinationAssumption
  <2>4. /\ Goto(p, r, pc)[r].pc = pc /\ Goto(p, r, pc)[r].beat = t.beat
        /\ Goto(p, r, pc)[r].settle = t.settle
    BY <1>t DEF Goto, Tasks
  <2>5. u = Goto(p, r, pc)[r]
    BY <2>3, <2>4 DEF MayLaunch
  <2> QED BY <1>8, <2>1, <2>4, <2>5 DEF OwnMove
<1>9. CASE WorkersFinished(p, r)
  <2>1. SetTasks(p, [Goto(p, r, "finally") EXCEPT ![r].kids = FALSE]) /\ t.pc = "wait"
    BY <1>9 DEF WorkersFinished, At
  <2>2. u = [t EXCEPT !.pc = "finally", !.kids = FALSE]
    BY <1>t, <2>1 DEF SetTasks, Goto, Tasks
  <2>3. u.pc = "finally" /\ u.settle = t.settle
    BY <1>t, <2>2 DEF Tasks
  <2> QED BY <1>9, <2>1, <2>3 DEF OwnMove
<1>10. CASE StopChildren(p, r)
  <2>1. SetTasks(p, [Goto(p, r, "settling") EXCEPT ![r].settle = TRUE]) /\ t.pc = "stopping"
    BY <1>10 DEF StopChildren, At
  <2>2. u = [t EXCEPT !.pc = "settling", !.settle = TRUE]
    BY <1>t, <2>1 DEF SetTasks, Goto, Tasks
  <2>3. u.pc = "settling" /\ u.beat = t.beat
    BY <1>t, <2>2 DEF Tasks
  <2> QED BY <1>10, <2>1, <2>3 DEF OwnMove
<1>11. CASE Settle(p, r)
  <2>1. u = Settled(t) /\ t.settle
    BY <1>t, <1>11 DEF Settle, SetTasks
  <2>2. ~u.settle /\ u.pc = (IF t.pc = "settling" THEN "finally" ELSE t.pc)
    BY <1>t, <2>1 DEF Settled, Tasks
  <2> QED BY <1>11, <2>1, <2>2 DEF OwnMove
<1>12. CASE Finally(p, r)
  <2> DEFINE ts == [task[p] EXCEPT ![r] = Ended(@)]
  <2>1. AdvanceRoom(p, RoomOf[r], ts) /\ t.pc = "finally"
    BY <1>12 DEF Finally, At
  <2>2. ts \in [Runs -> Tasks] /\ ts[r] = Ended(t)
    BY <1>t, TaskRecords
  <2>3. MayLaunch(p, r, Ended(t))
    BY <2>1, <2>2, AdvanceRoomEffect, CoordinationAssumption
  <2>4. Ended(t).pc = "none" /\ Ended(t).settle = t.settle /\ Ended(t) \in Tasks
    BY ZenonT(60), <1>t, TaskRecords DEF Ended, IdleTask
  <2>5. /\ [Ended(t) EXCEPT !.pc = "claim"].pc = "claim"
        /\ [Ended(t) EXCEPT !.pc = "claim"].settle = t.settle
    BY <2>4 DEF Tasks
  <2>6. /\ u.settle = t.settle
        /\ u.pc = "none" \/ (u.pc = "claim" /\ status'[r] = "queued" /\ proc[p] # "closing")
    BY <2>3, <2>4, <2>5 DEF MayLaunch
  <2> QED BY <1>12, <2>1, <2>6 DEF OwnMove
<1> QED
  BY <1>1, <1>2, <1>3, <1>4, <1>5, <1>6, <1>7, <1>8, <1>9, <1>10, <1>11, <1>12
  DEF TaskStep

\* Nothing but the task's own steps takes an executor's run from it.
LEMMA LeadKept ==
  ASSUME TypeOK, LeaseInv, ~Stalls, [Next]_vars,
         NEW p \in Procs, NEW r \in Runs, ~TaskStep(p, r),
         Alive(p), Leads(p, r), status[r] \in Admitted
  PROVE  executor'[r] = p /\ lease'[r] /\ status'[r] = status[r]
<1> DEFINE Kept == executor'[r] = p /\ lease'[r] /\ status'[r] = status[r]
<1>t. /\ status \in [Runs -> RunStatus] /\ lease \in [Runs -> BOOLEAN]
      /\ executor \in [Runs -> Procs \cup {NoProc}]
  BY DEF TypeOK
<1>l. executor[r] = p /\ lease[r] /\ task[p][r].beat /\ p # NoProc
  BY CoordinationAssumption DEF Leads
<1>a. status[r] \in {"running", "waiting_tasks"}
  BY DEF Admitted
<1>0. CASE UNCHANGED <<status, executor, lease>>
  BY <1>0, <1>l
<1>1. ASSUME NEW p1 \in Procs, NEW q \in Runs, TaskStep(p1, q) PROVE Kept
  <2>1. CASE p1 = p
    <3>1. q # r
      BY <1>1, <2>1
    <3>2. Claim(p1, q) => Kept
      BY <1>t, <1>l, <3>1 DEF Claim
    <3>3. Finish(p1, q) \/ WorkersFinished(p1, q) => Kept
      BY <1>t, <1>l, <3>1 DEF Finish, WorkersFinished
    <3>4. Settle(p1, q) => Kept
      BY <1>t, <1>l, <3>1 DEF Settle
    <3>5. AdvanceAfterFinish(p1, q) => Kept
      <4>1. Goto(p1, q, IF task[p1][q].kids THEN "wait" ELSE "finally") \in [Runs -> Tasks]
        BY TaskFunctions DEF PCs
      <4> QED BY <1>l, <1>a, <4>1, AdvanceRoomEffect, CoordinationAssumption
              DEF AdvanceAfterFinish
    <3>6. Finally(p1, q) => Kept
      <4>1. [task[p1] EXCEPT ![q] = Ended(@)] \in [Runs -> Tasks]
        BY TaskFunctions, TaskRecords
      <4> QED BY <1>l, <1>a, <4>1, AdvanceRoomEffect, CoordinationAssumption DEF Finally
    <3>7. \/ UNCHANGED <<status, executor, lease>>
          \/ Claim(p1, q) \/ Finish(p1, q) \/ WorkersFinished(p1, q) \/ Settle(p1, q)
          \/ AdvanceAfterFinish(p1, q) \/ Finally(p1, q)
          \/ StopChildren(p1, q)
      BY <1>1, OwnMoves DEF OwnMove
    <3>8. StopChildren(p1, q) => UNCHANGED <<status, executor, lease>>
      BY DEF StopChildren
    <3> QED BY <1>0, <3>2, <3>3, <3>4, <3>5, <3>6, <3>7, <3>8
  <2>2. CASE p1 # p
    <3>1. LeadingAt(p1, q)
      BY DEF LeaseInv
    <3>2. Claim(p1, q) => Kept
      BY <1>t, <1>l, <1>a DEF Claim
    <3>3. Finish(p1, q) => Kept
      BY <1>t, <1>l, <2>2, <3>1 DEF Finish, At, LeadingAt, Working, Leads
    <3>4. WorkersFinished(p1, q) => Kept
      BY <1>t, <1>l, <2>2, <3>1 DEF WorkersFinished, At, LeadingAt, Leads
    <3>5. Settle(p1, q) => Kept
      BY <1>t, <1>l, <2>2 DEF Settle
    <3>6. AdvanceAfterFinish(p1, q) => Kept
      <4>1. Goto(p1, q, IF task[p1][q].kids THEN "wait" ELSE "finally") \in [Runs -> Tasks]
        BY TaskFunctions DEF PCs
      <4> QED BY <1>l, <1>a, <4>1, AdvanceRoomEffect, CoordinationAssumption
              DEF AdvanceAfterFinish
    <3>7. Finally(p1, q) => Kept
      <4>1. [task[p1] EXCEPT ![q] = Ended(@)] \in [Runs -> Tasks]
        BY TaskFunctions, TaskRecords
      <4> QED BY <1>l, <1>a, <4>1, AdvanceRoomEffect, CoordinationAssumption DEF Finally
    <3>8. \/ UNCHANGED <<status, executor, lease>>
          \/ Claim(p1, q) \/ Finish(p1, q) \/ WorkersFinished(p1, q) \/ Settle(p1, q)
          \/ AdvanceAfterFinish(p1, q) \/ Finally(p1, q)
          \/ StopChildren(p1, q)
      BY <1>1, OwnMoves DEF OwnMove
    <3>9. StopChildren(p1, q) => UNCHANGED <<status, executor, lease>>
      BY DEF StopChildren
    <3> QED BY <1>0, <3>2, <3>3, <3>4, <3>5, <3>6, <3>7, <3>8, <3>9
  <2> QED BY <2>1, <2>2
<1>2. ASSUME NEW p1 \in Procs, NEW q \in Runs, Heartbeat(p1, q) PROVE Kept
  <2>1. UNCHANGED <<status, executor>>
    BY <1>2 DEF Heartbeat
  <2>2. lease'[r]
    BY <1>t, <1>l, <1>2 DEF Heartbeat
  <2> QED BY <1>l, <2>1, <2>2
<1>3. ASSUME NEW p1 \in Procs, Recovered(p1), UNCHANGED <<executor, lease>> PROVE Kept
  <2>1. ~LeaseLost(r)
    BY <1>l DEF LeaseLost
  <2> QED BY <1>3, <1>l, <2>1, RecoveredEffect
<1>4. ASSUME NEW p1 \in Procs, NEW q \in Runs, CancelGoesOn(p1, q) PROVE Kept
  BY <1>0, <1>3, <1>4 DEF CancelGoesOn
<1>5. ASSUME NEW p1 \in Procs, ProcessStep(p1) PROVE Kept
  <2>1. Recover(p1) \/ Boot(p1) => Recovered(p1) /\ UNCHANGED <<executor, lease>>
    BY DEF Recover, Boot
  <2>2. Shutdown(p1) \/ Exit(p1) => UNCHANGED <<status, executor, lease>>
    BY DEF Shutdown, Exit, dbVars
  <2> QED BY <1>0, <1>3, <1>5, <2>1, <2>2 DEF ProcessStep
<1>6. ASSUME NEW p1 \in Procs, NEW q \in Runs, OwnerStep(p1, q) PROVE Kept
  <2>1. Start(p1, q) => Kept
    BY <1>t, <1>l, <1>a DEF Start
  <2>2. Cancel(p1, q) => Kept
    BY <1>t, <1>l, <1>a DEF Cancel
  <2>3. Resume(p1, q) => Kept
    BY <1>t, <1>l, <1>a DEF Resume
  <2> QED BY <1>6, <2>1, <2>2, <2>3 DEF OwnerStep
<1>7. ASSUME NEW p1 \in Procs, NEW rm \in Rooms, RecoverAdvances(p1, rm) PROVE Kept
  <2>1. task[p1] \in [Runs -> Tasks]
    BY DEF TypeOK
  <2> QED BY <1>l, <1>a, <1>7, <2>1, AdvanceRoomEffect DEF RecoverAdvances
<1>8. ASSUME NEW q \in Runs, LeaseLapses(q) PROVE Kept
  <2>1. q # r
    BY <1>8, <1>l DEF LeaseLapses
  <2> QED BY <1>t, <1>l, <1>8, <2>1 DEF LeaseLapses
<1>9. ASSUME NEW p1 \in Procs, NEW q \in Runs, WorkerEnds(p1, q) PROVE Kept
  BY <1>0, <1>9 DEF WorkerEnds
<1>10. ASSUME NEW q \in Runs, DeadlinePasses(q) \/ \E k \in Ordinals : StopReply(q, k)
       PROVE  Kept
  BY <1>0, <1>10 DEF DeadlinePasses, StopReply
<1>11. CASE UNCHANGED vars
  BY <1>0, <1>11 DEF vars, dbVars
<1> QED
  BY <1>1, <1>2, <1>4, <1>5, <1>6, <1>7, <1>8, <1>9, <1>10, <1>11 DEF Next

\* The next state of a task's lead, when its own task steps.
LEMMA OwnLeads ==
  ASSUME TypeOK, LeaseInv, NEW p \in Procs, NEW r \in Runs, TaskStep(p, r), RunMove(r)
  PROVE  LeadingAt(p, r)'
<1> DEFINE t == task[p][r]
           u == task'[p][r]
<1>t. /\ status \in [Runs -> RunStatus] /\ lease \in [Runs -> BOOLEAN]
      /\ executor \in [Runs -> Procs \cup {NoProc}]
  BY SMTT(60) DEF TypeOK
<1>i. LeadingAt(p, r) /\ DetachedAt(p, r)
  BY SMTT(60) DEF LeaseInv
<1>k. UNCHANGED <<cancelled, late, proc>>
  BY ZenonT(60) DEF TaskStep, Claim, PickStep, SendCall, ReplayCall, CallRefused,
     CallCompletes, CallFails, Collaborate, Delegate, Deliver, Finish, AdvanceAfterFinish,
     WorkersFinished, StopChildren, Settle, Finally, dbVars
<1>1. CASE /\ Claim(p, r) /\ t.pc = "claim"
           /\ u.pc = "finally" \/ (status[r] = "queued" /\ u.pc = "loop" /\ u.beat)
  <2>1. CASE u.pc = "finally"
    BY <2>1 DEF LeadingAt, Working
  <2>2. CASE status[r] = "queued" /\ u.pc = "loop" /\ u.beat
    <3>1. executor'[r] = p /\ lease'[r] /\ status'[r] = "running"
      BY <1>t, <1>1, <2>2 DEF Claim
    <3> QED BY <2>2, <3>1 DEF LeadingAt, Leads, Working
  <2> QED BY <1>1, <2>1, <2>2
<1>2. CASE /\ t.pc \in Working /\ u.pc \in Working \cup {"stopping"}
           /\ u.beat = t.beat /\ UNCHANGED <<status, executor, lease>>
  <2>1. Leads(p, r) /\ status[r] = "running"
    BY <1>i, <1>2 DEF LeadingAt
  <2>2. Leads(p, r)' /\ status'[r] = "running"
    BY <1>2, <2>1 DEF Leads
  <2> QED BY <1>2, <2>2 DEF LeadingAt, Working
<1>3. CASE /\ Finish(p, r) /\ t.pc = "finish" /\ u.pc = "advance"
           /\ u.kids <=> worker[r] = "active"
           /\ u.beat = t.beat
  <2>1. Leads(p, r)
    BY <1>i, <1>3 DEF LeadingAt, Working
  <2>2. Leads(p, r)'
    BY <1>3, <2>1 DEF Leads, Finish
  <2>3. u.kids => status'[r] = "waiting_tasks"
    BY <1>t, <1>3 DEF Finish
  <2> QED BY <1>3, <2>2, <2>3 DEF LeadingAt, Working
<1>4. CASE /\ AdvanceAfterFinish(p, r) /\ t.pc = "advance"
           /\ u.pc = (IF t.kids THEN "wait" ELSE "finally")
           /\ u.beat = t.beat
  <2>1. CASE ~t.kids
    BY <1>4, <2>1 DEF LeadingAt, Working
  <2>2. CASE t.kids
    <3>1. Leads(p, r) /\ status[r] = "waiting_tasks"
      BY <1>i, <1>4, <2>2 DEF LeadingAt
    <3>2. Goto(p, r, IF t.kids THEN "wait" ELSE "finally") \in [Runs -> Tasks]
      BY TaskFunctions DEF PCs
    <3>3. status'[r] = "waiting_tasks"
      BY <1>4, <3>1, <3>2, AdvanceRoomEffect, CoordinationAssumption DEF AdvanceAfterFinish
    <3>4. Leads(p, r)'
      BY <1>4, <3>1 DEF Leads, AdvanceAfterFinish
    <3> QED BY <1>4, <2>2, <3>3, <3>4 DEF LeadingAt, Working
  <2> QED BY <2>1, <2>2
<1>5. CASE StopChildren(p, r) /\ t.pc = "stopping" /\ u.pc = "settling" /\ u.beat = t.beat
  <2>1. (proc[p] = "up" /\ ~cancelled[r] /\ ~late[r]) => Leads(p, r) /\ status[r] = "running"
    BY <1>i, <1>5 DEF LeadingAt
  <2>2. UNCHANGED <<status, executor, lease>>
    BY <1>5 DEF StopChildren
  <2>3. (proc'[p] = "up" /\ ~cancelled'[r] /\ ~late'[r]) => Leads(p, r)' /\ status'[r] = "running"
    BY <1>5, <1>k, <2>1, <2>2 DEF Leads
  <2> QED BY <1>5, <2>3 DEF LeadingAt, Working
<1>6. CASE u.pc \in {"none", "finally", "claim"}
  BY <1>6 DEF LeadingAt, Working
<1>7. CASE /\ Settle(p, r) /\ t.settle
           /\ u.pc = (IF t.pc = "settling" THEN "finally" ELSE t.pc)
  <2>1. t.pc \in {"settling", "finally", "none"}
    BY <1>i, <1>7 DEF DetachedAt
  <2> QED BY <1>6, <1>7, <2>1
<1> QED BY OwnMoves, <1>1, <1>2, <1>3, <1>4, <1>5, <1>6, <1>7 DEF OwnMove

\* The lead of a task that does not step is kept or no longer asked for.
LEMMA OtherLeads ==
  ASSUME TypeOK, LeaseInv, ~Stalls, [Next]_vars,
         NEW p \in Procs, NEW r \in Runs, ~TaskStep(p, r)
  PROVE  LeadingAt(p, r)'
<1> DEFINE t == task[p][r]
           u == task'[p][r]
<1>t. task \in [Procs -> [Runs -> Tasks]] /\ t \in Tasks
  BY TaskFunctions DEF TypeOK
<1>i. LeadingAt(p, r) /\ CancelKnown /\ DeadIdle
  BY DEF LeaseInv
<1>m. TaskMove(p, r) /\ RunMove(r)
  BY TaskMoves, RunMoves
<1>1. CASE Left(p, r) \/ Unwatched(p, r)
  <2>0. u.pc = t.pc /\ u.kids = t.kids
    BY <1>t, <1>1 DEF Left, Unwatched, Tasks
  <2>1. CASE Leads(p, r) /\ status[r] \in Admitted /\ Alive(p)
    <3>1. executor'[r] = p /\ lease'[r] /\ status'[r] = status[r]
      BY <2>1, LeadKept
    <3>2. u.beat
      BY <1>1, <2>1 DEF Left, Unwatched, Leads
    <3>3. proc'[p] = "up" => proc[p] = "up"
      BY <1>1, <2>1 DEF Left, Unwatched, Alive
    <3>4. /\ ~cancelled'[r] => ~cancelled[r]
          /\ ~late'[r] => ~late[r]
      BY <1>m DEF RunMove
    <3> QED BY <1>i, <2>0, <3>1, <3>2, <3>3, <3>4 DEF LeadingAt, Leads
  <2>2. CASE ~Alive(p)
    BY <1>i, <2>0, <2>2 DEF DeadIdle, LeadingAt, Working
  <2>3. CASE Alive(p) /\ ~(Leads(p, r) /\ status[r] \in Admitted)
    <3>1. /\ t.pc \notin Working /\ t.pc # "wait"
          /\ ~(t.pc = "advance" /\ t.kids)
          /\ t.pc \in {"stopping", "settling"} => proc[p] # "up" \/ cancelled[r] \/ late[r]
      BY <1>i, <2>3 DEF LeadingAt, Admitted
    <3>2. proc'[p] = "up" => proc[p] = "up"
      BY <1>1, <2>3 DEF Left, Unwatched, Alive
    <3>4. /\ cancelled[r] => cancelled'[r]
          /\ late[r] => late'[r]
      BY <1>m DEF RunMove
    <3> QED BY <2>0, <3>1, <3>2, <3>4 DEF LeadingAt
  <2> QED BY <2>1, <2>2, <2>3
<1>2. CASE Begun(p, r)
  <2>1. u.pc = "claim"
    BY <1>t, <1>2 DEF Begun, Tasks
  <2> QED BY <2>1 DEF LeadingAt, Working
<1>3. CASE Cut(p, r)
  <2>1. u.pc \in {"none", "stopping", "finally"}
    BY <1>3, CutEffect
  <2>2. proc'[p] = "closing" \/ cancelled'[r] \/ late'[r]
    BY <1>3, <1>i, <1>m DEF Cut, CancelKnown, RunMove
  <2> QED BY <2>1, <2>2 DEF LeadingAt, Working
<1>4. CASE Gone(p, r)
  BY <1>4 DEF Gone, IdleTask, LeadingAt, Working
<1> QED BY <1>m, <1>1, <1>2, <1>3, <1>4 DEF TaskMove

\* A settle() on its way stays with a run that is not resumed.
LEMMA DetachedStep ==
  ASSUME TypeOK, LeaseInv, [Next]_vars, NEW p \in Procs, NEW r \in Runs
  PROVE  DetachedAt(p, r)'
<1> DEFINE t == task[p][r]
           u == task'[p][r]
<1> SUFFICES ASSUME u.settle
             PROVE  /\ u.pc \in {"settling", "finally", "none"}
                    /\ \/ u.pc = "settling" \/ proc'[p] # "up"
                       \/ (cancelled'[r] \/ late'[r]) /\ status'[r] # "queued"
  BY DEF DetachedAt
<1>t. task \in [Procs -> [Runs -> Tasks]] /\ t \in Tasks /\ proc[p] \in {"new", "up", "closing", "dead"}
  BY TaskFunctions DEF TypeOK
<1>i. DetachedAt(p, r) /\ CancelKnown /\ DeadIdle /\ Untouched /\ LeadingAt(p, r)
  BY DEF LeaseInv
<1>m. TaskMove(p, r) /\ RunMove(r)
  BY TaskMoves, RunMoves
\* Nothing brings a settled run that is cancelled or late back to the queue.
<1>q. ASSUME cancelled[r] \/ late[r], status[r] # "queued", t.settle
      PROVE  (cancelled'[r] \/ late'[r]) /\ status'[r] # "queued"
  <2>1. status[r] \notin {"none", "waiting_room"}
    BY <1>i, <1>q DEF Untouched
  <2>2. (cancelled[r] => cancelled'[r]) /\ (late[r] => late'[r])
    BY <1>m DEF RunMove
  <2> QED BY <1>m, <1>q, <2>1, <2>2 DEF RunMove, Early
<1>1. CASE Left(p, r) \/ Unwatched(p, r)
  <2>0. u.pc = t.pc /\ u.settle = t.settle
    BY <1>t, <1>1 DEF Left, Unwatched, Tasks
  <2>1. Alive(p)
    BY <1>i, <2>0 DEF DeadIdle
  <2>2. proc'[p] = proc[p]
    BY <1>1, <2>1 DEF Left, Unwatched, Alive
  <2> QED BY <1>i, <1>q, <2>0, <2>2 DEF DetachedAt
<1>2. CASE Begun(p, r)
  <2>1. t.settle /\ t.pc = "none"
    BY <1>t, <1>2 DEF Begun, Tasks
  <2>2. proc[p] = "up"
    BY <1>t, <1>i, <1>2, <2>1 DEF Begun, DeadIdle, Alive
  <2>3. (cancelled[r] \/ late[r]) /\ status[r] # "queued"
    BY <1>i, <2>1, <2>2 DEF DetachedAt
  <2> QED BY <1>q, <1>2, <2>1, <2>3 DEF Begun
<1>3. CASE Cut(p, r)
  <2>1. t.settle /\ t.pc \in {"settling", "finally", "none"}
    BY <1>3, <1>i, CutEffect DEF DetachedAt
  <2>2. u.pc \in {"finally", "none"}
    BY <1>3, <2>1, CutEffect
  <2>3. CASE proc'[p] = "closing"
    BY <2>2, <2>3
  <2>4. CASE r \in cancelling[p]
    <3>1. cancelled[r] /\ status[r] # "queued"
      BY <1>i, <2>4 DEF CancelKnown, Early
    <3> QED BY <1>q, <2>1, <2>2, <3>1
  <2>5. CASE status[r] \in Admitted /\ (cancelled[r] \/ late[r])
    BY <1>q, <2>1, <2>2, <2>5 DEF Admitted
  <2> QED BY <1>3, <2>3, <2>4, <2>5 DEF Cut
<1>4. CASE Gone(p, r)
  BY <1>4 DEF Gone, IdleTask
<1>5. CASE TaskStep(p, r)
  <2>k. UNCHANGED proc /\ Alive(p)
    BY ZenonT(60), <1>5 DEF TaskStep, Claim, PickStep, SendCall, ReplayCall, CallRefused,
       CallCompletes, CallFails, Collaborate, Delegate, Deliver, Finish, AdvanceAfterFinish,
       WorkersFinished, StopChildren, Settle, Finally, At
  <2>s. ASSUME t.settle PROVE t.pc \in {"settling", "finally", "none"}
    BY <1>i, <2>s DEF DetachedAt
  <2>1. CASE u.pc = "settling"
    BY <2>1
  <2>2. CASE u.settle = t.settle /\ t.pc \in Working \cup {"claim", "finish", "advance", "wait"}
    BY <2>2, <2>s DEF Working
  <2>3. CASE /\ Finally(p, r) /\ t.pc = "finally" /\ u.settle = t.settle
             /\ u.pc = "none" \/ (u.pc = "claim" /\ status'[r] = "queued" /\ proc[p] # "closing")
    <3>1. \/ proc[p] # "up"
          \/ (cancelled[r] \/ late[r]) /\ status[r] # "queued"
      BY <1>i, <2>3 DEF DetachedAt
    <3>2. proc[p] = "closing" \/ ((cancelled'[r] \/ late'[r]) /\ status'[r] # "queued")
      BY <1>q, <2>k, <2>3, <3>1 DEF Alive
    <3> QED BY <2>k, <2>3, <3>2
  <2> QED BY <1>5, <2>1, <2>2, <2>3, OwnMoves DEF OwnMove
<1> QED BY <1>m, <1>1, <1>2, <1>3, <1>4, <1>5 DEF TaskMove

\* cancel() has always committed before it goes on.
LEMMA CancelKnownStep ==
  ASSUME TypeOK, CancelKnown, [Next]_vars
  PROVE  CancelKnown'
<1>t. cancelling \in [Procs -> SUBSET Runs] /\ cancelled \in [Runs -> BOOLEAN]
  BY DEF TypeOK
<1>1. ASSUME NEW r \in Runs, cancelled'[r] PROVE status'[r] \notin Early
  BY <1>1, RunMoves DEF RunMove, CancelKnown, Early
<1>2. ASSUME NEW p \in Procs, NEW r \in cancelling'[p] PROVE cancelled'[r]
  <2>1. CASE UNCHANGED cancelling
    BY <1>t, <1>2, <2>1, RunMoves DEF RunMove, CancelKnown
  <2>2. ASSUME NEW p1 \in Procs, NEW q \in Runs, Cancel(p1, q) PROVE cancelled'[r]
    <3>1. /\ cancelled' = [cancelled EXCEPT ![q] = TRUE]
          /\ cancelling' = [cancelling EXCEPT ![p1] = @ \cup {q}]
      BY <2>2 DEF Cancel
    <3>2. r \in Runs /\ (r = q \/ r \in cancelling[p])
      BY <1>t, <1>2, <3>1
    <3> QED BY <1>t, <3>1, <3>2 DEF CancelKnown
  <2>3. ASSUME NEW p1 \in Procs, NEW q \in Runs, CancelGoesOn(p1, q) PROVE cancelled'[r]
    <3>1. cancelling' = [cancelling EXCEPT ![p1] = @ \ {q}] /\ UNCHANGED cancelled
      BY <2>3 DEF CancelGoesOn
    <3> QED BY <1>t, <1>2, <3>1 DEF CancelKnown
  <2>4. ASSUME NEW p1 \in Procs, ProcessStep(p1) PROVE cancelled'[r]
    <3>1. Recover(p1) \/ Boot(p1) \/ Shutdown(p1) => UNCHANGED cancelling
      BY SMTT(60) DEF Recover, Boot, Shutdown
    <3>2. ASSUME Exit(p1) PROVE cancelled'[r]
      <4>1. cancelling' = [cancelling EXCEPT ![p1] = {}] /\ UNCHANGED cancelled
        BY SMTT(60), <3>2 DEF Exit, dbVars
      <4> QED BY SMTT(60), <1>t, <1>2, <4>1 DEF CancelKnown
    <3> QED BY <2>1, <2>4, <3>1, <3>2 DEF ProcessStep
  <2>5. ASSUME NEW p1 \in Procs, NEW q \in Runs, TaskStep(p1, q) PROVE UNCHANGED cancelling
    BY ZenonT(60), <2>5 DEF TaskStep, Claim, PickStep, SendCall, ReplayCall, CallRefused,
       CallCompletes, CallFails, Collaborate, Delegate, Deliver, Finish, AdvanceAfterFinish,
       WorkersFinished, StopChildren, Settle, Finally
  <2>6. ASSUME NEW p1 \in Procs, NEW q \in Runs,
               WorkerEnds(p1, q) \/ Heartbeat(p1, q) \/ Start(p1, q) \/ Resume(p1, q)
        PROVE  UNCHANGED cancelling
    BY <2>6 DEF WorkerEnds, Heartbeat, Start, Resume
  <2>7. ASSUME NEW p1 \in Procs, NEW rm \in Rooms, RecoverAdvances(p1, rm)
        PROVE  UNCHANGED cancelling
    BY <2>7 DEF RecoverAdvances
  <2>8. ASSUME NEW q \in Runs,
               LeaseLapses(q) \/ DeadlinePasses(q) \/ \E k \in Ordinals : StopReply(q, k)
        PROVE  UNCHANGED cancelling
    BY <2>8 DEF LeaseLapses, DeadlinePasses, StopReply
  <2>9. UNCHANGED vars => UNCHANGED cancelling
    BY DEF vars
  <2> QED
    BY <2>1, <2>2, <2>3, <2>4, <2>5, <2>6, <2>7, <2>8, <2>9 DEF Next, OwnerStep
<1> QED BY <1>1, <1>2 DEF CancelKnown

\* What never got a task, and what died, keeps none.
LEMMA IdleStep ==
  ASSUME TypeOK, Untouched, DeadIdle, [Next]_vars
  PROVE  Untouched' /\ DeadIdle'
<1> SUFFICES ASSUME NEW p \in Procs, NEW r \in Runs,
                    status'[r] \in {"none", "waiting_room"} \/ ~Alive(p)'
             PROVE  task'[p][r].pc = "none" /\ ~task'[p][r].settle
  BY DEF Untouched, DeadIdle
<1> DEFINE t == task[p][r]
           u == task'[p][r]
<1>t. task \in [Procs -> [Runs -> Tasks]] /\ t \in Tasks
  BY TaskFunctions DEF TypeOK
<1>m. TaskMove(p, r) /\ RunMove(r)
  BY TaskMoves, RunMoves
<1>w. status'[r] \in {"none", "waiting_room"} => t.pc = "none" /\ ~t.settle
  BY <1>m DEF RunMove, Untouched
<1>d. ~Alive(p) => t.pc = "none" /\ ~t.settle
  BY DEF DeadIdle
<1>1. CASE Left(p, r) \/ Unwatched(p, r)
  <2>0. u.pc = t.pc /\ u.settle = t.settle
    BY SMTT(60), <1>t, <1>1 DEF Left, Unwatched, Tasks
  <2>1. ~Alive(p)' => ~Alive(p)
    BY SMTT(60), <1>1 DEF Left, Unwatched, Alive
  <2> QED BY <1>w, <1>d, <2>0, <2>1
<1>2. CASE TaskStep(p, r)
  <2>1. UNCHANGED proc /\ Alive(p)
    BY ZenonT(60), <1>2 DEF TaskStep, Claim, PickStep, SendCall, ReplayCall, CallRefused,
       CallCompletes, CallFails, Collaborate, Delegate, Deliver, Finish, AdvanceAfterFinish,
       WorkersFinished, StopChildren, Settle, Finally, At
  <2>2. t.pc # "none" \/ t.settle
    BY <1>2, OwnMoves DEF OwnMove, Working
  <2> QED BY SMTT(60), <1>w, <2>1, <2>2 DEF Alive
<1>3. CASE Begun(p, r)
  BY <1>3 DEF Begun, Alive
<1>4. CASE Cut(p, r)
  <2>1. Alive(p)'
    BY <1>4 DEF Cut, Alive
  <2> QED BY <1>w, <1>4, <2>1, CutEffect
<1>5. CASE Gone(p, r)
  BY <1>5 DEF Gone, IdleTask
<1> QED BY <1>m, <1>1, <1>2, <1>3, <1>4, <1>5 DEF TaskMove

LEMMA LeaseStep ==
  ASSUME TypeOK, LeaseInv, ~Stalls, [Next]_vars
  PROVE  LeaseInv'
<1>1. Unclaimed' /\ Untouched' /\ DeadIdle' /\ CancelKnown'
  BY UnclaimedStep, IdleStep, CancelKnownStep DEF LeaseInv
<1>2. ASSUME NEW p \in Procs, NEW r \in Runs PROVE LeadingAt(p, r)' /\ DetachedAt(p, r)'
  BY OwnLeads, OtherLeads, DetachedStep, RunMoves
<1> QED BY <1>1, <1>2 DEF LeaseInv

\* The executor that works on a run holds its lease, and there is one of them.
THEOREM LeasesHold == ~Stalls => (Spec => []LeaseInv)
<1> SUFFICES ASSUME ~Stalls PROVE Spec => []LeaseInv
  OBVIOUS
<1>1. Init => LeaseInv
  BY DEF Init, LeaseInv, Unclaimed, Untouched, DeadIdle, CancelKnown, LeadingAt, DetachedAt,
     IdleTask, Working
<1>2. TypeOK /\ LeaseInv /\ [Next]_vars => LeaseInv'
  BY LeaseStep
<1> QED BY <1>1, <1>2, TypeCorrect, PTL DEF Spec

-----------------------------------------------------------------------------
(* The slot is given back. *)

\* A run that gives the slot up leaves it to nobody.
LEMMA FreedReleases ==
  ASSUME TypeOK, SlotReleased, NEW r \in Runs, NEW s,
         status' = [status EXCEPT ![r] = s], active' = Freed(r)
  PROVE  SlotReleased'
<1>t. active \in [Rooms -> Runs \cup {NoRun}] /\ status \in [Runs -> RunStatus]
  BY DEF TypeOK
<1>r. RoomOf \in [Runs -> Rooms] /\ NoRun \notin Runs
  BY CoordinationAssumption DEF NoRun, Runs
<1> SUFFICES ASSUME NEW q \in Runs, active'[RoomOf[q]] = q
             PROVE  status'[q] \in Slotted
  BY DEF SlotReleased
<1>1. q # r /\ active[RoomOf[q]] = q
  BY <1>t, <1>r DEF Freed
<1> QED BY <1>t, <1>1 DEF SlotReleased

\* A run that takes the slot is queued.
LEMMA TakenReleases ==
  ASSUME TypeOK, SlotReleased, NEW r \in Runs,
         status' = [status EXCEPT ![r] = "queued"],
         active' = [active EXCEPT ![RoomOf[r]] = r]
  PROVE  SlotReleased'
<1>t. active \in [Rooms -> Runs \cup {NoRun}] /\ status \in [Runs -> RunStatus]
  BY DEF TypeOK
<1> SUFFICES ASSUME NEW q \in Runs, active'[RoomOf[q]] = q
             PROVE  status'[q] \in Slotted
  BY DEF SlotReleased
<1>1. CASE q = r
  BY <1>t, <1>1 DEF Slotted
<1>2. CASE q # r
  <2>1. active[RoomOf[q]] = q
    BY <1>t, <1>2, CoordinationAssumption
  <2> QED BY <1>t, <1>2, <2>1 DEF SlotReleased
<1> QED BY <1>1, <1>2

\* A slot that no step gives to anybody stays with runs that speak.
LEMMA KeptReleases ==
  ASSUME SlotReleased,
         \A q \in Runs : active'[RoomOf[q]] = q =>
            \/ active[RoomOf[q]] = q /\ (status[q] \in Slotted => status'[q] \in Slotted)
            \/ status'[q] = "queued"
  PROVE  SlotReleased'
BY DEF SlotReleased, Slotted

LEMMA AdvanceRoomReleases ==
  ASSUME TypeOK, SlotReleased, NEW p \in Procs, NEW rm \in Rooms,
         NEW ts \in [Runs -> Tasks], AdvanceRoom(p, rm, ts)
  PROVE  SlotReleased'
<1>t. active \in [Rooms -> Runs \cup {NoRun}] /\ RoomOf \in [Runs -> Rooms]
  BY CoordinationAssumption DEF TypeOK
<1>1. \A q \in Runs : status[q] \in Slotted => status'[q] = status[q]
  BY AdvanceRoomEffect DEF Slotted
<1>2. \/ active' = active
      \/ \E n \in Runs : active' = [active EXCEPT ![rm] = n] /\ status'[n] = "queued"
  BY DEF AdvanceRoom, Waiting
<1>3. \A q \in Runs : active'[RoomOf[q]] = q => active[RoomOf[q]] = q \/ status'[q] = "queued"
  BY <1>t, <1>2
<1> QED BY <1>1, <1>3, KeptReleases

LEMMA ReleasedStep ==
  ASSUME TypeOK, LeaseInv, SlotReleased, [Next]_vars
  PROVE  SlotReleased'
<1>t. /\ active \in [Rooms -> Runs \cup {NoRun}] /\ status \in [Runs -> RunStatus]
      /\ RoomOf \in [Runs -> Rooms] /\ NoRun \notin Runs
  BY CoordinationAssumption DEF TypeOK, NoRun, Runs
<1>0. CASE UNCHANGED <<status, active>>
  BY <1>0 DEF SlotReleased
<1>1. ASSUME NEW p \in Procs, NEW r \in Runs, Claim(p, r) PROVE SlotReleased'
  <2>1. \A q \in Runs : status[q] \in Slotted => status'[q] \in Slotted
    BY <1>t, <1>1 DEF Claim, Slotted
  <2>2. UNCHANGED active
    BY <1>1 DEF Claim
  <2> QED BY <2>1, <2>2, KeptReleases
<1>2. ASSUME NEW p \in Procs, NEW r \in Runs, WorkersFinished(p, r) PROVE SlotReleased'
  <2>1. status[r] = "waiting_tasks"
    BY <1>2 DEF WorkersFinished, At, LeaseInv, LeadingAt
  <2>2. \A q \in Runs : status[q] \in Slotted => status'[q] = status[q]
    BY <1>t, <1>2, <2>1 DEF WorkersFinished, Slotted
  <2>3. UNCHANGED active
    BY <1>2 DEF WorkersFinished
  <2> QED BY <2>2, <2>3, KeptReleases
<1>3. ASSUME NEW p \in Procs, NEW r \in Runs, Finish(p, r) \/ Settle(p, r)
      PROVE  SlotReleased'
  <2>1. Finish(p, r) => SlotReleased'
    BY FreedReleases DEF Finish
  <2>2. CASE Settle(p, r) /\ executor[r] = p
    BY <2>2, FreedReleases DEF Settle
  <2>3. CASE Settle(p, r) /\ executor[r] # p
    BY <1>0, <2>3 DEF Settle
  <2> QED BY <1>3, <2>1, <2>2, <2>3
<1>4. ASSUME NEW p \in Procs, NEW r \in Runs, AdvanceAfterFinish(p, r) \/ Finally(p, r)
      PROVE  SlotReleased'
  <2>1. Goto(p, r, IF task[p][r].kids THEN "wait" ELSE "finally") \in [Runs -> Tasks]
    BY TaskFunctions DEF PCs
  <2>2. [task[p] EXCEPT ![r] = Ended(@)] \in [Runs -> Tasks]
    BY TaskFunctions, TaskRecords
  <2> QED BY <1>4, <2>1, <2>2, AdvanceRoomReleases, CoordinationAssumption
          DEF AdvanceAfterFinish, Finally
<1>5. ASSUME NEW p \in Procs, NEW rm \in Rooms, RecoverAdvances(p, rm) PROVE SlotReleased'
  <2>1. task[p] \in [Runs -> Tasks]
    BY DEF TypeOK
  <2> QED BY <1>5, <2>1, AdvanceRoomReleases DEF RecoverAdvances
<1>6. ASSUME NEW p \in Procs, Recovered(p) PROVE SlotReleased'
  <2> SUFFICES ASSUME NEW q \in Runs, active'[RoomOf[q]] = q
               PROVE  active[RoomOf[q]] = q /\ status'[q] = status[q]
    BY KeptReleases
  <2>1. active[RoomOf[q]] = q /\ ~LeaseLost(q)
    BY <1>t, <1>6 DEF Recovered, SlotsWithout
  <2> QED BY <1>6, <2>1, RecoveredEffect
<1>7. ASSUME NEW p \in Procs, NEW r \in Runs, OwnerStep(p, r) PROVE SlotReleased'
  <2>1. CASE Start(p, r)
    <3>1. CASE active[RoomOf[r]] = NoRun
      BY <2>1, <3>1, TakenReleases DEF Start
    <3>2. CASE active[RoomOf[r]] # NoRun
      <4>1. status' = [status EXCEPT ![r] = "waiting_room"] /\ UNCHANGED active
            /\ status[r] = "none"
        BY <2>1, <3>2 DEF Start
      <4>2. \A q \in Runs : status[q] \in Slotted => status'[q] = status[q]
        BY <1>t, <4>1 DEF Slotted
      <4> QED BY <4>1, <4>2, KeptReleases
    <3> QED BY <3>1, <3>2
  <2>2. CASE Cancel(p, r)
    <3>1. CASE status[r] \in {"queued", "waiting_room"}
      BY <2>2, <3>1, FreedReleases DEF Cancel
    <3>2. CASE status[r] \notin {"queued", "waiting_room"}
      BY <1>0, <2>2, <3>2 DEF Cancel
    <3> QED BY <3>1, <3>2
  <2>3. CASE Resume(p, r)
    BY <2>3, TakenReleases DEF Resume
  <2> QED BY <1>7, <2>1, <2>2, <2>3 DEF OwnerStep
<1>8. ASSUME NEW p \in Procs, NEW r \in Runs, CancelGoesOn(p, r) PROVE SlotReleased'
  BY <1>0, <1>6, <1>8 DEF CancelGoesOn
<1>9. ASSUME NEW p \in Procs, ProcessStep(p) PROVE SlotReleased'
  <2>1. Recover(p) \/ Boot(p) => Recovered(p)
    BY DEF Recover, Boot
  <2>2. Shutdown(p) \/ Exit(p) => UNCHANGED <<status, active>>
    BY DEF Shutdown, Exit, dbVars
  <2> QED BY <1>0, <1>6, <1>9, <2>1, <2>2 DEF ProcessStep
<1>10. ASSUME NEW p \in Procs, NEW r \in Runs, TaskStep(p, r) PROVE SlotReleased'
  <2>1. PickStep(p, r) \/ Deliver(p, r) => UNCHANGED <<status, active>>
    BY DEF PickStep, Deliver
  <2>2. SendCall(p, r) \/ ReplayCall(p, r) \/ CallRefused(p, r) => UNCHANGED <<status, active>>
    BY DEF SendCall, ReplayCall, CallRefused, dbVars
  <2>3. CallCompletes(p, r) \/ CallFails(p, r) => UNCHANGED <<status, active>>
    BY DEF CallCompletes, CallFails
  <2>4. Collaborate(p, r) \/ Delegate(p, r) \/ StopChildren(p, r) => UNCHANGED <<status, active>>
    BY DEF Collaborate, Delegate, StopChildren
  <2> QED BY <1>0, <1>1, <1>2, <1>3, <1>4, <1>10, <2>1, <2>2, <2>3, <2>4 DEF TaskStep
<1>11. ASSUME NEW p \in Procs, NEW r \in Runs, WorkerEnds(p, r) \/ Heartbeat(p, r)
       PROVE  SlotReleased'
  BY <1>0, <1>11 DEF WorkerEnds, Heartbeat
<1>12. ASSUME NEW r \in Runs,
              LeaseLapses(r) \/ DeadlinePasses(r) \/ \E k \in Ordinals : StopReply(r, k)
       PROVE  SlotReleased'
  BY <1>0, <1>12 DEF LeaseLapses, DeadlinePasses, StopReply
<1>13. CASE UNCHANGED vars
  BY <1>0, <1>13 DEF vars, dbVars
<1> QED
  BY <1>5, <1>7, <1>8, <1>9, <1>10, <1>11, <1>12, <1>13 DEF Next

\* While executors keep their leases no room stays closed behind a run that is
\* over or lost, whatever crashes, cancellations, shutdowns and resumptions do.
THEOREM SlotGivenBack == ~Stalls => (Spec => []SlotReleased)
<1> SUFFICES ASSUME ~Stalls PROVE Spec => []SlotReleased
  OBVIOUS
<1>1. Init => SlotReleased
  BY CoordinationAssumption DEF Init, SlotReleased, NoRun, Runs
<1>2. Spec => []LeaseInv
  BY LeasesHold
<1> QED BY <1>1, <1>2, ReleasedStep, TypeCorrect, PTL DEF Spec

\* While executors keep their leases every answer is published by the run that
\* holds the speaking slot.
THEOREM AnswersInTurn == ~Stalls => (Spec => PublishedInTurn)
<1> SUFFICES ASSUME ~Stalls PROVE Spec => PublishedInTurn
  OBVIOUS
<1> DEFINE InTurn == \A r \in Runs, k \in Ordinals : delivered'[r][k] > delivered[r][k]
                        => active[RoomOf[r]] = r /\ status[r] = "running"
<1>1. ASSUME TypeOK, LeaseInv, SlotHeld, [Next]_vars PROVE InTurn
  <2> SUFFICES ASSUME NEW r \in Runs, NEW k \in Ordinals, delivered'[r][k] > delivered[r][k]
               PROVE  active[RoomOf[r]] = r /\ status[r] = "running"
    OBVIOUS
  <2>0. delivered[r][k] \in Nat
    BY <1>1 DEF TypeOK
  <2>1. ~(delivered'[r][k] = delivered[r][k])
    BY <2>0
  <2>2. StepMove(r)
    BY <1>1, StepMoves
  <2>3. PICK p \in Procs : TaskStep(p, r)
    BY <2>1, <2>2 DEF StepMove
  <2>4. task[p][r].pc = "spoken"
    BY <1>1, <2>1, <2>3, TaskStepPublishes
  <2>5. status[r] = "running"
    BY <1>1, <2>4 DEF LeaseInv, LeadingAt, Working
  <2> QED BY <1>1, <2>5 DEF SlotHeld, Slotted
<1>2. Spec => []LeaseInv
  BY LeasesHold
<1>3. TypeOK /\ LeaseInv /\ SlotHeld /\ [Next]_vars => [InTurn]_vars
  BY <1>1
<1> QED BY <1>2, <1>3, SpeakingSlot, TypeCorrect, PTL DEF Spec, PublishedInTurn
-----------------------------------------------------------------------------
(* A round that is reported complete is complete.                          *)
(*                                                                         *)
(* The rest also supposes that the owner stops no single contribution.  A  *)
(* reply stopped after its executor died keeps the status cancel_requested *)
(* through resume, which requeues running steps only, and the round ends   *)
(* without it: the note in README says so.                                 *)

Unfinished == {"running", "queued", "cancel_requested"}
Concluded == {"succeeded", "partial", "waiting_tasks"}

\* No contribution runs before its run does, none is left when it is over.
RoundRow(q) ==
  /\ \A k \in Ordinals : step[q][k] # "cancel_requested"
  /\ status[q] \in Early => \A k \in Ordinals : step[q][k] # "running"
  /\ status[q] \in Concluded => \A k \in Ordinals : step[q][k] \notin Unfinished

\* The one contribution that runs is the one the executor is at.
RoundTask(p, q) ==
  /\ task[p][q].pc = "loop" => \A k \in Ordinals : step[q][k] # "running"
  /\ task[p][q].pc \in AtCall =>
       \A k \in Ordinals : step[q][k] = "running" => k = task[p][q].cur
  /\ task[p][q].pc = "finish" => \A k \in Ordinals : step[q][k] \notin Unfinished

RoundAt(q) == RoundRow(q) /\ \A p \in Procs : RoundTask(p, q)

RoundInv == \A q \in Runs : RoundAt(q)

\* What a step may do to a run and its contributions when nothing is stopped.
RoundMove(q) ==
  \/ \E p \in Procs : TaskStep(p, q)
  \/ /\ step'[q] = step[q]
     /\ status'[q] \in Early => status[q] \in Early
     /\ status'[q] \in Concluded => status'[q] = status[q]
  \/ /\ status[q] = "none" /\ status'[q] \in Early
     /\ step'[q] = [step[q] EXCEPT ![0] = "queued"]
  \/ /\ status[q] \in {"queued", "waiting_room"} /\ status'[q] = "cancelled"
     /\ \A k \in Ordinals :
          step'[q][k] = IF step[q][k] = "queued" THEN "cancelled" ELSE step[q][k]
  \/ /\ status[q] = "reconciling" /\ status'[q] = "queued"
     /\ \A k \in Ordinals : step'[q][k] = Requeued(step[q][k])

LEMMA RoundMoves ==
  ASSUME TypeOK, [Next]_vars, "stop" \notin Ops, NEW q \in Runs
  PROVE  RoundMove(q)
<1>t. step \in [Runs -> [Ordinals -> StepStatus]] /\ status \in [Runs -> RunStatus]
  BY DEF TypeOK
<1>0. CASE UNCHANGED <<step, status>>
  BY <1>0 DEF RoundMove
<1>a. ASSUME NEW p \in Procs, NEW rm \in Rooms, NEW ts \in [Runs -> Tasks],
             AdvanceRoom(p, rm, ts), UNCHANGED step
      PROVE  RoundMove(q)
  BY <1>a, AdvanceRoomEffect DEF RoundMove, Early, Concluded
<1>b. ASSUME NEW p \in Procs, Recovered(p), UNCHANGED step PROVE RoundMove(q)
  BY <1>b, RecoveredEffect DEF RoundMove, Early, Concluded
<1>1. ASSUME NEW p \in Procs, NEW r \in Runs, TaskStep(p, r) PROVE RoundMove(q)
  <2>1. CASE q = r
    BY <1>1, <2>1 DEF RoundMove
  <2>2. CASE q # r
    <3> DEFINE Same == step'[q] = step[q] /\ status'[q] = status[q]
    <3>0. ASSUME Same PROVE RoundMove(q)
      BY <3>0 DEF RoundMove
    <3>1. SendCall(p, r) \/ ReplayCall(p, r) \/ CallCompletes(p, r) => Same
      BY DEF SendCall, ReplayCall, CallCompletes, dbVars
    <3>2. Claim(p, r) \/ Finish(p, r) \/ WorkersFinished(p, r) \/ Settle(p, r) => Same
      BY <1>t, <2>2 DEF Claim, Finish, WorkersFinished, Settle
    <3>3. SpeakError(p, r) => step'[q] = step[q]
      BY <1>t, <2>2 DEF SpeakError
    <3>4. CallRefused(p, r) \/ CallFails(p, r) => Same
      BY <3>3 DEF CallRefused, CallFails
    <3>5. PickStep(p, r) \/ Collaborate(p, r) \/ Delegate(p, r) \/ Deliver(p, r) => Same
      BY <1>t, <2>2 DEF PickStep, Collaborate, Delegate, Deliver
    <3>6. StopChildren(p, r) => Same
      BY DEF StopChildren
    <3>7. ASSUME AdvanceAfterFinish(p, r) \/ Finally(p, r) PROVE RoundMove(q)
      <4>1. Goto(p, r, IF task[p][r].kids THEN "wait" ELSE "finally") \in [Runs -> Tasks]
        BY TaskFunctions DEF PCs
      <4>2. [task[p] EXCEPT ![r] = Ended(@)] \in [Runs -> Tasks]
        BY TaskFunctions, TaskRecords
      <4> QED BY <1>a, <3>7, <4>1, <4>2, CoordinationAssumption DEF AdvanceAfterFinish, Finally
    <3> QED BY <1>1, <3>0, <3>1, <3>2, <3>4, <3>5, <3>6, <3>7 DEF TaskStep
  <2> QED BY <2>1, <2>2
<1>2. ASSUME NEW p \in Procs, NEW r \in Runs, Start(p, r) PROVE RoundMove(q)
  <2>1. /\ status[r] = "none" /\ step' = [step EXCEPT ![r][0] = "queued"]
        /\ \/ status' = [status EXCEPT ![r] = "queued"]
           \/ status' = [status EXCEPT ![r] = "waiting_room"]
    BY <1>2 DEF Start
  <2>2. CASE q = r
    BY <1>t, <2>1, <2>2 DEF RoundMove, Early
  <2>3. CASE q # r
    <3>1. step'[q] = step[q] /\ status'[q] = status[q]
      BY <1>t, <2>1, <2>3
    <3> QED BY <3>1 DEF RoundMove
  <2> QED BY <2>2, <2>3
<1>3. ASSUME NEW p \in Procs, NEW r \in Runs, Cancel(p, r) PROVE RoundMove(q)
  <2>1. CASE status[r] \in {"queued", "waiting_room"} /\ q = r
    <3>1. /\ status' = [status EXCEPT ![r] = "cancelled"]
          /\ step' = [step EXCEPT ![r] = [k \in Ordinals |->
                        IF @[k] = "queued" THEN "cancelled" ELSE @[k]]]
      BY <1>3, <2>1 DEF Cancel
    <3> QED BY <1>t, <2>1, <3>1 DEF RoundMove
  <2>2. CASE status[r] \notin {"queued", "waiting_room"} \/ q # r
    <3>1. step'[q] = step[q] /\ status'[q] = status[q]
      BY <1>t, <1>3, <2>2 DEF Cancel
    <3> QED BY <3>1 DEF RoundMove
  <2> QED BY <2>1, <2>2
<1>4. ASSUME NEW p \in Procs, NEW r \in Runs, Resume(p, r) PROVE RoundMove(q)
  <2>1. /\ status[r] = "reconciling" /\ status' = [status EXCEPT ![r] = "queued"]
        /\ step' = [step EXCEPT ![r] = [k \in Ordinals |-> Requeued(@[k])]]
    BY <1>4 DEF Resume
  <2>2. CASE q = r
    BY <1>t, <2>1, <2>2 DEF RoundMove
  <2>3. CASE q # r
    <3>1. step'[q] = step[q] /\ status'[q] = status[q]
      BY <1>t, <2>1, <2>3
    <3> QED BY <3>1 DEF RoundMove
  <2> QED BY <2>2, <2>3
<1>5. ASSUME NEW r \in Runs, NEW k \in Ordinals, StopReply(r, k) PROVE RoundMove(q)
  BY <1>5 DEF StopReply
<1>6. ASSUME NEW p \in Procs, NEW r \in Runs, WorkerEnds(p, r) \/ Heartbeat(p, r)
      PROVE  RoundMove(q)
  BY <1>0, <1>6 DEF WorkerEnds, Heartbeat
<1>7. ASSUME NEW p \in Procs, NEW r \in Runs, CancelGoesOn(p, r) PROVE RoundMove(q)
  BY <1>0, <1>b, <1>7 DEF CancelGoesOn
<1>8. ASSUME NEW p \in Procs, ProcessStep(p) PROVE RoundMove(q)
  <2>1. Recover(p) \/ Boot(p) => Recovered(p) /\ UNCHANGED step
    BY DEF Recover, Boot
  <2>2. Shutdown(p) \/ Exit(p) => UNCHANGED <<status, step>>
    BY DEF Shutdown, Exit, dbVars
  <2> QED BY <1>0, <1>b, <1>8, <2>1, <2>2 DEF ProcessStep
<1>9. ASSUME NEW p \in Procs, NEW rm \in Rooms, RecoverAdvances(p, rm) PROVE RoundMove(q)
  <2>1. task[p] \in [Runs -> Tasks]
    BY DEF TypeOK
  <2> QED BY <1>a, <1>9, <2>1 DEF RecoverAdvances
<1>10. ASSUME NEW r \in Runs, LeaseLapses(r) \/ DeadlinePasses(r) PROVE RoundMove(q)
  BY <1>0, <1>10 DEF LeaseLapses, DeadlinePasses
<1>11. CASE UNCHANGED vars
  BY <1>0, <1>11 DEF vars, dbVars
<1> QED
  BY <1>1, <1>2, <1>3, <1>4, <1>5, <1>6, <1>7, <1>8, <1>9, <1>10, <1>11
  DEF Next, OwnerStep

\* A task goes to work by a step of its own only.
LEMMA WorkKept ==
  ASSUME TypeOK, NEW p \in Procs, NEW q \in Runs, TaskMove(p, q), ~TaskStep(p, q),
         task'[p][q].pc \in Working
  PROVE  task'[p][q].pc = task[p][q].pc /\ task'[p][q].cur = task[p][q].cur
<1>t. task[p][q] \in Tasks
  BY TaskFunctions
<1>1. CASE Left(p, q)
  BY <1>1 DEF Left
<1>2. CASE Begun(p, q)
  <2>1. task'[p][q].pc = "claim"
    BY <1>t, <1>2 DEF Begun, Tasks
  <2> QED BY <2>1 DEF Working
<1>3. CASE Cut(p, q)
  BY <1>3, CutEffect DEF Working
<1>4. CASE Unwatched(p, q)
  <2>1. task'[p][q] = [task[p][q] EXCEPT !.beat = FALSE]
    BY <1>4 DEF Unwatched
  <2> QED BY <1>t, <2>1 DEF Tasks
<1>5. CASE Gone(p, q)
  <2>1. task'[p][q].pc = "none"
    BY <1>5 DEF Gone, IdleTask
  <2> QED BY <2>1 DEF Working
<1> QED BY <1>1, <1>2, <1>3, <1>4, <1>5 DEF TaskMove

\* A run that no step of its own moves.
LEMMA RoundApart ==
  ASSUME TypeOK, LeaseInv, RoundInv, NEW q \in Runs, RoundMove(q),
         \A p \in Procs : ~TaskStep(p, q) /\ TaskMove(p, q)
  PROVE  RoundAt(q)'
<1>t. step \in [Runs -> [Ordinals -> StepStatus]]
  BY DEF TypeOK
<1>0. RoundRow(q) /\ \A p \in Procs : RoundTask(p, q)
  BY DEF RoundInv, RoundAt
<1>w. \A p \in Procs : task'[p][q].pc \in Working =>
        /\ task'[p][q].pc = task[p][q].pc /\ task'[p][q].cur = task[p][q].cur
        /\ status[q] = "running"
  BY WorkKept DEF LeaseInv, LeadingAt
<1>1. CASE /\ step'[q] = step[q]
           /\ status'[q] \in Early => status[q] \in Early
           /\ status'[q] \in Concluded => status'[q] = status[q]
  <2>1. RoundRow(q)'
    BY <1>0, <1>1 DEF RoundRow
  <2>2. ASSUME NEW p \in Procs PROVE RoundTask(p, q)'
    <3>1. RoundTask(p, q)
      BY <1>0
    <3> QED BY <1>1, <1>w, <3>1 DEF RoundTask, Working, AtCall
  <2> QED BY <2>1, <2>2 DEF RoundAt
<1>2. CASE status[q] \in {"none", "queued", "waiting_room", "reconciling"}
  <2>1. \A p \in Procs : task'[p][q].pc \notin Working
    BY <1>w, <1>2
  <2>2. \A p \in Procs : RoundTask(p, q)'
    BY <2>1 DEF RoundTask, Working, AtCall
  <2>3. CASE /\ status[q] = "none" /\ status'[q] \in Early
             /\ step'[q] = [step[q] EXCEPT ![0] = "queued"]
    <3>1. \A k \in Ordinals : step'[q][k] = step[q][k] \/ step'[q][k] = "queued"
      BY <1>t, <2>3
    <3>2. \A k \in Ordinals : step'[q][k] \notin {"cancel_requested", "running"}
      BY <1>0, <2>3, <3>1 DEF RoundRow, Early
    <3>3. RoundRow(q)'
      BY <2>3, <3>2 DEF RoundRow, Early, Concluded
    <3> QED BY <2>2, <3>3 DEF RoundAt
  <2>4. CASE /\ status[q] \in {"queued", "waiting_room"} /\ status'[q] = "cancelled"
             /\ \A k \in Ordinals :
                  step'[q][k] = IF step[q][k] = "queued" THEN "cancelled" ELSE step[q][k]
    <3>1. RoundRow(q)'
      BY <1>0, <2>4 DEF RoundRow, Early, Concluded
    <3> QED BY <2>2, <3>1 DEF RoundAt
  <2>5. CASE /\ status[q] = "reconciling" /\ status'[q] = "queued"
             /\ \A k \in Ordinals : step'[q][k] = Requeued(step[q][k])
    <3>1. RoundRow(q)'
      BY <1>0, <2>5 DEF RoundRow, Early, Concluded, Requeued
    <3> QED BY <2>2, <3>1 DEF RoundAt
  <2> QED BY <1>1, <1>2, <2>3, <2>4, <2>5 DEF RoundMove
<1> QED BY <1>1, <1>2 DEF RoundMove

\* A run that an execute() task moves.
LEMMA RoundOwn ==
  ASSUME TypeOK, LeaseInv, RoundInv, [Next]_vars,
         NEW p \in Procs, NEW q \in Runs, TaskStep(p, q)
  PROVE  RoundAt(q)'
<1> DEFINE t == task[p][q]
           u == task'[p][q]
           c == t.cur
           Mine == RoundRow(q)' /\ RoundTask(p, q)'
<1>t. /\ step \in [Runs -> [Ordinals -> StepStatus]] /\ status \in [Runs -> RunStatus]
      /\ task \in [Procs -> [Runs -> Tasks]] /\ t \in Tasks /\ c \in Ordinals
  BY TaskFunctions DEF TypeOK, Tasks
<1>p. {"loop", "finally", "speak", "finish", "calling", "spoken", "advance", "wait",
       "settling"} \subseteq PCs
  BY DEF PCs
<1>0. RoundRow(q) /\ RoundTask(p, q)
  BY DEF RoundInv, RoundAt
<1>l. LeadingAt(p, q) /\ DetachedAt(p, q)
  BY DEF LeaseInv
<1>m. TaskMove(p, q)
  BY TaskMoves
<1>o. OwnMove(p, q)
  BY OwnMoves
\* A step that writes a contribution is one of the executor at work.
<1>e. \A p2 \in Procs : p2 # p =>
        task'[p2] = task[p2] /\ (step'[q] = step[q] \/ task[p2][q].pc \notin Working)
  <2>1. SUFFICES ASSUME NEW p2 \in Procs, p2 # p
                 PROVE  /\ task'[p2] = task[p2]
                        /\ step'[q] = step[q] \/ task[p2][q].pc \notin Working
    OBVIOUS
  <2>2. task'[p2] = task[p2]
    BY <2>1, TaskStepElsewhere
  <2>3. CASE t.pc \in Working
    <3>1. executor[q] = p
      BY <1>l, <2>3 DEF LeadingAt, Leads
    <3>2. LeadingAt(p2, q)
      BY DEF LeaseInv
    <3> QED BY <2>1, <2>2, <3>1, <3>2 DEF LeadingAt, Leads
  <2>4. CASE t.pc \notin Working
    <3>1. \/ Claim(p, q) \/ AdvanceAfterFinish(p, q) \/ WorkersFinished(p, q)
          \/ StopChildren(p, q) \/ Settle(p, q) \/ Finally(p, q)
      BY <1>o, <2>4 DEF OwnMove, Working
    <3>2. step' = step
      BY <3>1 DEF Claim, AdvanceAfterFinish, WorkersFinished, StopChildren, Settle, Finally
    <3> QED BY <2>2, <3>2
  <2> QED BY <2>2, <2>3, <2>4
<1>f. ASSUME Mine PROVE RoundAt(q)'
  <2>1. ASSUME NEW p2 \in Procs, p2 # p PROVE RoundTask(p2, q)'
    <3>1. RoundTask(p2, q)
      BY DEF RoundInv, RoundAt
    <3>2. CASE step'[q] = step[q]
      BY <1>e, <2>1, <3>1, <3>2 DEF RoundTask
    <3>3. CASE task[p2][q].pc \notin Working
      BY <1>e, <2>1, <3>3 DEF RoundTask, Working, AtCall
    <3> QED BY <1>e, <2>1, <3>2, <3>3
  <2> QED BY <1>f, <2>1 DEF RoundAt
\* A task that leaves its work, or never was at it, with the steps as they are.
<1>g. ASSUME step' = step, u.pc \notin Working,
             status'[q] \in Early => status[q] \in Early,
             status'[q] \in Concluded =>
               status[q] \in Concluded \/ \A k \in Ordinals : step[q][k] \notin Unfinished
      PROVE  Mine
  <2>1. RoundRow(q)'
    BY <1>0, <1>g DEF RoundRow
  <2>2. RoundTask(p, q)'
    BY <1>g DEF RoundTask, Working, AtCall
  <2> QED BY <2>1, <2>2
<1>1. CASE Claim(p, q)
  <2>1. CASE status[q] = "queued"
    <3>1. step' = step /\ status'[q] = "running"
      BY <1>t, <1>1, <2>1 DEF Claim
    <3>2. u.pc = "loop"
      <4>1. SetTasks(p, [Goto(p, q, "loop") EXCEPT ![q].beat = TRUE])
        BY <1>1, <2>1 DEF Claim
      <4>2. u = [t EXCEPT !.pc = "loop", !.beat = TRUE]
        BY <1>t, <4>1 DEF SetTasks, Goto, Tasks
      <4> QED BY <1>t, <4>2 DEF Tasks
    <3>3. RoundRow(q)'
      BY <1>0, <2>1, <3>1 DEF RoundRow, Early, Concluded
    <3>4. RoundTask(p, q)'
      BY <1>0, <2>1, <3>1, <3>2 DEF RoundTask, RoundRow, Early, AtCall
    <3> QED BY <1>f, <3>3, <3>4
  <2>2. CASE status[q] # "queued"
    <3>1. step' = step /\ status' = status /\ u.pc = "finally"
      BY <1>1, <1>p, <2>2, TaskWritten DEF Claim
    <3> QED BY <1>f, <1>g, <3>1 DEF Working
  <2> QED BY <2>1, <2>2
<1>2. CASE PickStep(p, q)
  <2>0. /\ t.pc = "loop" /\ status' = status /\ status[q] = "running"
        /\ \A k \in Ordinals : step[q][k] \notin {"running", "cancel_requested"}
    BY <1>2, <1>0, <1>l DEF PickStep, At, LeadingAt, Working, RoundTask, RoundRow
  <2>1. CASE cancelled[q] \/ late[q]
    <3>1. step' = step /\ u.pc = "stopping"
      BY <1>2, <2>1, TaskWritten DEF PickStep
    <3> QED BY <1>f, <1>g, <2>0, <3>1 DEF Working
  <2>2. CASE \E k \in Ordinals :
               /\ step[q][k] = "queued" /\ step' = [step EXCEPT ![q][k] = "running"]
               /\ SetTasks(p, [Goto(p, q, "speak") EXCEPT ![q].cur = k])
    <3>1. PICK k \in Ordinals :
               /\ step[q][k] = "queued" /\ step' = [step EXCEPT ![q][k] = "running"]
               /\ SetTasks(p, [Goto(p, q, "speak") EXCEPT ![q].cur = k])
      BY <2>2
    <3>2. u.pc = "speak" /\ u.cur = k
      BY <1>p, <3>1, TaskWritten
    <3>3. \A j \in Ordinals : step'[q][j] = IF j = k THEN "running" ELSE step[q][j]
      BY <1>t, <3>1
    <3>4. RoundRow(q)'
      BY <2>0, <3>3 DEF RoundRow, Early, Concluded
    <3>5. RoundTask(p, q)'
      BY <2>0, <3>2, <3>3 DEF RoundTask
    <3> QED BY <1>f, <3>4, <3>5
  <2>3. CASE /\ \A k \in Ordinals : step[q][k] # "queued"
             /\ SetTasks(p, Goto(p, q, "finish")) /\ UNCHANGED step
    <3>1. u.pc = "finish"
      BY <1>p, <2>3, TaskWritten
    <3>2. RoundRow(q)'
      BY SMTT(60), <1>0, <2>0, <2>3 DEF RoundRow
    <3>3. RoundTask(p, q)'
      BY SMTT(60), <2>0, <2>3, <3>1 DEF RoundTask, AtCall, Unfinished
    <3> QED BY <1>f, <3>2, <3>3
  <2> QED BY <1>2, <2>1, <2>2, <2>3 DEF PickStep
<1>3. CASE SendCall(p, q) \/ ReplayCall(p, q) \/ CallCompletes(p, q)
  <2>1. step' = step /\ status' = status /\ t.pc \in {"speak", "calling"}
    BY ZenonT(60), <1>3 DEF SendCall, ReplayCall, CallCompletes, At, dbVars
  <2>2. u.pc \in {"calling", "spoken"}
    <3>1. \E pc \in {"calling", "spoken"} : SetTasks(p, Goto(p, q, pc))
      BY Zenon, <1>3 DEF SendCall, ReplayCall, CallCompletes
    <3> QED BY <1>p, <3>1, TaskWritten, ZeroOrdinal
  <2>3. u.cur = c
    BY <1>m, <2>1, <2>2, AtCallKept DEF AtCall
  <2>4. RoundRow(q)'
    BY <1>0, <2>1 DEF RoundRow
  <2>5. RoundTask(p, q)'
    BY <1>0, <2>1, <2>2, <2>3 DEF RoundTask, AtCall
  <2> QED BY <1>f, <2>4, <2>5
<1>4. CASE CallRefused(p, q) \/ CallFails(p, q)
  <2>1. SpeakError(p, q) /\ status' = status
    BY <1>4 DEF CallRefused, CallFails
  <2>2. step' = step /\ SetTasks(p, Raised(p, q, "error"))
    BY <1>t, <1>0, <2>1 DEF SpeakError, RoundRow
  <2>3. u.pc = "stopping"
    BY <2>2, TaskWritten
  <2> QED BY <1>f, <1>g, <2>1, <2>2, <2>3 DEF Working
<1>5. CASE Collaborate(p, q)
  <2>1. /\ t.pc = "spoken" /\ task' = task /\ status' = status
        /\ c + 1 \in Ordinals /\ step' = [step EXCEPT ![q][c + 1] = "queued"]
    BY <1>5 DEF Collaborate, At
  <2>2. status[q] = "running"
    BY <1>l, <2>1 DEF LeadingAt, Working
  <2>3. \A j \in Ordinals : step'[q][j] = step[q][j] \/ step'[q][j] = "queued"
    BY <1>t, <2>1
  <2>4. RoundRow(q)'
    BY <1>0, <2>1, <2>2, <2>3 DEF RoundRow, Early, Concluded
  <2>5. RoundTask(p, q)'
    BY <1>0, <2>1, <2>3 DEF RoundTask, AtCall
  <2> QED BY <1>f, <2>4, <2>5
<1>6. CASE Delegate(p, q)
  <2>1. UNCHANGED <<task, step, status>>
    BY <1>6 DEF Delegate
  <2>2. RoundRow(q)' /\ RoundTask(p, q)'
    BY <1>0, <2>1 DEF RoundRow, RoundTask
  <2> QED BY <1>f, <2>2
<1>7. CASE Deliver(p, q)
  <2>0. t.pc = "spoken" /\ status' = status /\ step[q][c] # "cancel_requested"
    BY <1>t, <1>0, <1>7 DEF Deliver, At, RoundRow
  <2>1. CASE SetTasks(p, Raised(p, q, "error")) /\ UNCHANGED step
    <3>1. u.pc = "stopping"
      BY <2>1, TaskWritten
    <3> QED BY <1>f, <1>g, <2>0, <2>1, <3>1 DEF Working
  <2>2. CASE /\ SetTasks(p, [Goto(p, q, "loop") EXCEPT ![q].cur = 0])
             /\ step' = [step EXCEPT ![q][c] = "succeeded"]
    <3>1. u.pc = "loop"
      BY <1>p, <2>2, TaskWritten, ZeroOrdinal
    <3>2. \A j \in Ordinals : step'[q][j] = IF j = c THEN "succeeded" ELSE step[q][j]
      BY <1>t, <2>2
    <3>3. status[q] = "running"
      BY <1>l, <2>0 DEF LeadingAt, Working
    <3>4. RoundRow(q)'
      BY <1>0, <2>0, <3>2, <3>3 DEF RoundRow, Early, Concluded
    <3>5. RoundTask(p, q)'
      BY <1>0, <2>0, <3>1, <3>2 DEF RoundTask, AtCall
    <3> QED BY <1>f, <3>4, <3>5
  <2> QED BY <1>7, <2>0, <2>1, <2>2 DEF Deliver
<1>8. CASE Finish(p, q)
  <2>1. t.pc = "finish" /\ step' = step
    BY <1>8 DEF Finish, At
  <2>2. status'[q] \notin Early
    BY <1>t, <1>8 DEF Finish, Early
  <2>3. u.pc = "advance"
    <3> DEFINE kids == worker[q] = "active"
    <3>1. SetTasks(p, [Goto(p, q, "advance") EXCEPT ![q].kids = kids])
      BY <1>8 DEF Finish
    <3> HIDE DEF kids
    <3>2. u = [t EXCEPT !.pc = "advance", !.kids = kids]
      BY <1>t, <3>1 DEF SetTasks, Goto, Tasks
    <3> QED BY <1>t, <3>2 DEF Tasks
  <2>4. \A k \in Ordinals : step[q][k] \notin Unfinished
    BY <1>0, <2>1 DEF RoundTask
  <2> QED BY <1>f, <1>g, <2>1, <2>2, <2>3, <2>4 DEF Working
<1>9. CASE AdvanceAfterFinish(p, q) \/ Finally(p, q)
  <2>1. Goto(p, q, IF t.kids THEN "wait" ELSE "finally") \in [Runs -> Tasks]
    BY TaskFunctions DEF PCs
  <2>2. [task[p] EXCEPT ![q] = Ended(@)] \in [Runs -> Tasks]
    BY TaskFunctions, TaskRecords
  <2>3. \/ status'[q] = status[q]
        \/ status[q] = "waiting_room" /\ status'[q] \in {"queued", "cancelled", "expired"}
    BY <1>9, <2>1, <2>2, AdvanceRoomEffect, CoordinationAssumption
       DEF AdvanceAfterFinish, Finally
  <2>4. step' = step /\ t.pc \in {"advance", "finally"}
    BY <1>9 DEF AdvanceAfterFinish, Finally, At
  <2>5. u.pc \notin Working
    BY <1>m, <1>o, <2>4, <1>l DEF OwnMove, Working, DetachedAt
  <2> QED BY <1>f, <1>g, <2>3, <2>4, <2>5 DEF Early, Concluded
<1>10. CASE WorkersFinished(p, q)
  <2>1. t.pc = "wait" /\ step' = step
    BY <1>10 DEF WorkersFinished, At
  <2>2. status[q] = "waiting_tasks"
    BY <1>l, <2>1 DEF LeadingAt
  <2>3. status'[q] \notin Early
    BY <1>t, <1>10 DEF WorkersFinished, Early
  <2>4. u.pc \notin Working
    BY <1>o, <2>1, <1>l DEF OwnMove, Working, DetachedAt
  <2> QED BY <1>f, <1>g, <2>1, <2>2, <2>3, <2>4 DEF Concluded
<1>11. CASE StopChildren(p, q)
  <2>1. t.pc = "stopping" /\ step' = step /\ status' = status
    BY <1>11 DEF StopChildren, At
  <2>2. u.pc \notin Working
    BY <1>o, <2>1, <1>l DEF OwnMove, Working, DetachedAt
  <2> QED BY <1>f, <1>g, <2>1, <2>2
<1>12. CASE Settle(p, q)
  <2>1. t.settle /\ step' = step /\ t.pc \in {"settling", "finally", "none"}
    BY <1>12, <1>l DEF Settle, DetachedAt
  <2>2. status'[q] = status[q] \/ status'[q] \in {"reconciling", "cancelled"}
    BY <1>t, <1>12 DEF Settle
  <2>3. u.pc \notin Working
    <3>1. u = Settled(t)
      BY <1>t, <1>12 DEF Settle, SetTasks
    <3>2. u.pc = (IF t.pc = "settling" THEN "finally" ELSE t.pc)
      BY <1>t, <3>1 DEF Settled, Tasks
    <3> QED BY <2>1, <3>2 DEF Working
  <2> QED BY <1>f, <1>g, <2>1, <2>2, <2>3 DEF Early, Concluded
<1> QED
  BY <1>1, <1>2, <1>3, <1>4, <1>5, <1>6, <1>7, <1>8, <1>9, <1>10, <1>11, <1>12
  DEF TaskStep

LEMMA RoundStep ==
  ASSUME TypeOK, LeaseInv, RoundInv, "stop" \notin Ops, [Next]_vars
  PROVE  RoundInv'
<1> SUFFICES ASSUME NEW q \in Runs PROVE RoundAt(q)'
  BY DEF RoundInv
<1>1. CASE \E p \in Procs : TaskStep(p, q)
  BY <1>1, RoundOwn
<1>2. CASE ~\E p \in Procs : TaskStep(p, q)
  BY <1>2, RoundMoves, TaskMoves, RoundApart
<1> QED BY <1>1, <1>2

\* While executors keep their leases and no single contribution is stopped, a
\* run reported succeeded or partial has published every contribution, through
\* crashes, recoveries, resumptions and cancellations.
THEOREM RoundsComplete == ~Stalls /\ "stop" \notin Ops => (Spec => []RoundComplete)
<1> SUFFICES ASSUME ~Stalls, "stop" \notin Ops PROVE Spec => []RoundComplete
  OBVIOUS
<1>1. Init => RoundInv
  BY DEF Init, RoundInv, RoundAt, RoundRow, RoundTask, IdleTask, AtCall, Concluded
<1>2. TypeOK /\ RoundInv => RoundComplete
  BY DEF TypeOK, RoundInv, RoundAt, RoundRow, Concluded, Unfinished, StepStatus, RoundComplete
<1>3. TypeOK /\ LeaseInv /\ RoundInv /\ [Next]_vars => RoundInv'
  BY RoundStep
<1>4. Spec => []LeaseInv
  BY LeasesHold
<1> QED BY <1>1, <1>2, <1>3, <1>4, TypeCorrect, PTL DEF Spec

=============================================================================
