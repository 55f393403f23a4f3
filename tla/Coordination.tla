---------------------------- MODULE Coordination ----------------------------
(***************************************************************************)
(* The Coordinator of app/services/coordination.py: how owner messages are *)
(* admitted to a room, how one run at a time holds the room's speaking     *)
(* slot, and how executors claim, lease, cancel, lose, recover and resume  *)
(* a run.  The database is shared; every write_session block of the source *)
(* is one action (SQLite admits one writer at a time).  A process is one   *)
(* Coordinator identity; its asyncio tasks interleave at every await.      *)
(*                                                                         *)
(* Abstracted: texts, profiles, policies and events.  A run is identified  *)
(* with the input that admits it (a repeated input_id returns the earlier  *)
(* run and changes nothing), and runs are numbered in admission order      *)
(* (created_at).  A contribution makes one model call and may invite one   *)
(* colleague; membership, questions and returns are in module Dialogue,    *)
(* allowances in module CoordinationBudget.                                *)
(***************************************************************************)
EXTENDS Naturals, FiniteSets

CONSTANTS Procs,        \* Coordinator identities, one per process start
          Rooms,
          MaxRuns,      \* runs ever admitted
          RoomOf,       \* the room each run's message is posted to
          MaxSteps,     \* limits.run.contributions
          MaxWaiting,   \* 16 in the source
          Stalls,       \* may the lease of a live executor lapse (a process
                        \* suspended, or its heartbeat failing, for 60 s)?
          Crashes,      \* may a process die without its shutdown?
          Overlap,      \* may a process boot while another one is alive?
          Ops           \* the optional operations an instance explores

Runs == 1..MaxRuns
NoRun == 0
NoProc == "none"
Ordinals == 0..(MaxSteps - 1)

ASSUME CoordinationAssumption ==
  /\ MaxRuns \in Nat \ {0} /\ MaxSteps \in Nat \ {0} /\ MaxWaiting \in Nat
  /\ RoomOf \in [Runs -> Rooms]
  /\ NoProc \notin Procs
  /\ Stalls \in BOOLEAN /\ Crashes \in BOOLEAN /\ Overlap \in BOOLEAN
  /\ Ops \subseteq {"cancel", "stop", "resume", "recover", "shutdown", "delegate",
                   "deadline"}

RunStatus == {"none", "waiting_room", "queued", "running", "waiting_tasks",
              "reconciling", "succeeded", "partial", "cancelled", "expired"}
Terminal == {"succeeded", "partial", "cancelled", "expired"}
Admitted == {"running", "waiting_tasks"}
StepStatus == {"absent", "queued", "running", "cancel_requested",
               "succeeded", "cancelled"}
ReceiptStatus == {"none", "started", "unknown", "complete"}
WorkerStatus == {"none", "active", "succeeded", "failed", "reconciling"}
\* Where an execute() task is: before its claim; at the loop head; before, in
\* and after the model call; at the final transaction; in advance_room; waiting
\* for workers; in the except branch (stop_run, then settle); in finally.
PCs == {"none", "claim", "loop", "speak", "calling", "spoken", "finish",
        "advance", "wait", "stopping", "settling", "finally"}

VARIABLES
  \* @durable: rows of the database
  active,      \* Room.active_run
  status, cancelled, executor,   \* CoordinationRun columns
  lease,       \* lease_until > now
  late,        \* deadline <= now
  step,        \* AgentStep.status by ordinal
  receipt,     \* ModelCallReceipt.status of the step's call
  worker,      \* LegionExecution.status of the run's delegated worker
  \* @volatile: memory of the processes
  proc,        \* "new", "up", "closing" or "dead"
  task,        \* self.live: the execute() task of each run
  recovering,  \* idle rooms a recover() call still has to advance
  cancelling,  \* runs whose cancel() call has committed and goes on
  \* @history: kept for the properties only
  sends,       \* provider dispatches per step
  delivered    \* answers published per step

dbVars == <<active, status, cancelled, executor, lease, late, step, receipt, worker>>
vars == <<dbVars, proc, task, recovering, cancelling, sends, delivered>>

IdleTask == [pc |-> "none", cur |-> 0, exc |-> "error", kids |-> FALSE,
             beat |-> FALSE, settle |-> FALSE]
Tasks == [pc : PCs, cur : Ordinals, exc : {"error", "cancelled"},
          kids : BOOLEAN, beat : BOOLEAN, settle : BOOLEAN]

Init ==
  /\ active = [rm \in Rooms |-> NoRun]
  /\ status = [r \in Runs |-> "none"]
  /\ cancelled = [r \in Runs |-> FALSE]
  /\ executor = [r \in Runs |-> NoProc]
  /\ lease = [r \in Runs |-> FALSE]
  /\ late = [r \in Runs |-> FALSE]
  /\ step = [r \in Runs |-> [k \in Ordinals |-> "absent"]]
  /\ receipt = [r \in Runs |-> [k \in Ordinals |-> "none"]]
  /\ worker = [r \in Runs |-> "none"]
  /\ proc = [p \in Procs |-> "new"]
  /\ task = [p \in Procs |-> [r \in Runs |-> IdleTask]]
  /\ recovering = [p \in Procs |-> {}]
  /\ cancelling = [p \in Procs |-> {}]
  /\ sends = [r \in Runs |-> [k \in Ordinals |-> 0]]
  /\ delivered = [r \in Runs |-> [k \in Ordinals |-> 0]]

-----------------------------------------------------------------------------
Alive(p) == proc[p] \in {"up", "closing"}
At(p, r, pc) == Alive(p) /\ task[p][r].pc = pc
Waiting(rm) == {r \in Runs : RoomOf[r] = rm /\ status[r] = "waiting_room"}

\* launch(): a task for every run of S that has none, unless closing.
Launched(p, tasks, S) ==
  [r \in Runs |-> IF r \in S /\ tasks[r].pc = "none" /\ proc[p] # "closing"
                  THEN [tasks[r] EXCEPT !.pc = "claim"] ELSE tasks[r]]

Goto(p, r, pc) == [task[p] EXCEPT ![r].pc = pc]
\* The except branch: exc says whether a CancelledError or an error got here.
Raising(t, exc) == [t EXCEPT !.pc = "stopping", !.exc = exc, !.cur = 0, !.kids = FALSE]
Raised(p, r, exc) == [task[p] EXCEPT ![r] = Raising(@, exc)]
SetTasks(p, tasks) == task' = [task EXCEPT ![p] = tasks]

\* The slot after run r gives it up, if it holds it.
FreedAlways(r) == [active EXCEPT ![RoomOf[r]] = NoRun]
FreedNever(r) == active
Freed(r) == IF active[RoomOf[r]] = r THEN [active EXCEPT ![RoomOf[r]] = NoRun] ELSE active

\* ensure_active and reserve: the run is admitted and p's lease covers it.
Owns(p, r) == /\ ~cancelled[r] /\ ~late[r] /\ status[r] \in Admitted
              /\ executor[r] = p /\ lease[r]

\* The delivery transaction's fence.
FencedByLeaseOnly(p, r) == cancelled[r] \/ ~lease[r] \/ late[r]
Fenced(p, r) == cancelled[r] \/ executor[r] # p \/ ~lease[r] \/ late[r]

\* unresolved_outcomes: a model call that is not known to be complete.
UnresolvedIfStarted(r) == \E k \in Ordinals : receipt[r][k] = "started"
Unresolved(r) == \E k \in Ordinals : receipt[r][k] \in {"started", "unknown"}

-----------------------------------------------------------------------------
(* Admission and the room queue. *)

Start(p, r) ==
  /\ proc[p] = "up"
  /\ status[r] = "none" /\ \A q \in Runs : q < r => status[q] # "none"
  /\ Cardinality(Waiting(RoomOf[r])) < MaxWaiting
  /\ step' = [step EXCEPT ![r][0] = "queued"]
  /\ IF active[RoomOf[r]] = NoRun
     THEN /\ status' = [status EXCEPT ![r] = "queued"]
          /\ active' = [active EXCEPT ![RoomOf[r]] = r]
          /\ SetTasks(p, Launched(p, task[p], {r}))
     ELSE /\ status' = [status EXCEPT ![r] = "waiting_room"]
          /\ UNCHANGED <<active, task>>
  /\ UNCHANGED <<cancelled, executor, lease, late, receipt, worker, proc,
                 recovering, cancelling, sends, delivered>>

\* advance_room, called by a task or by recover() that leaves tasks behind.
AdvanceRoom(p, rm, tasks) ==
  \/ /\ proc[p] = "closing" \/ active[rm] # NoRun \/ Waiting(rm) = {}
     /\ SetTasks(p, tasks)
     /\ UNCHANGED <<status, active>>
  \/ /\ proc[p] = "up" /\ active[rm] = NoRun
     /\ \E n \in Waiting(rm) :
          /\ ~cancelled[n] /\ ~late[n]
          /\ \A q \in Waiting(rm) : q < n => cancelled[q] \/ late[q]
          /\ status' = [q \in Runs |->
               IF q = n THEN "queued"
               ELSE IF q \in Waiting(rm) /\ q < n
                    THEN IF cancelled[q] THEN "cancelled" ELSE "expired"
                    ELSE status[q]]
          /\ active' = [active EXCEPT ![rm] = n]
          /\ SetTasks(p, Launched(p, tasks, {n}))
  \/ /\ proc[p] = "up" /\ active[rm] = NoRun /\ Waiting(rm) # {}
     /\ \A q \in Waiting(rm) : cancelled[q] \/ late[q]
     /\ status' = [q \in Runs |->
          IF q \in Waiting(rm) THEN IF cancelled[q] THEN "cancelled" ELSE "expired"
          ELSE status[q]]
     /\ SetTasks(p, tasks)
     /\ UNCHANGED active

-----------------------------------------------------------------------------
(* One execute() task. *)

Claim(p, r) ==
  /\ At(p, r, "claim")
  /\ IF status[r] = "queued"
     THEN /\ status' = [status EXCEPT ![r] = "running"]
          /\ executor' = [executor EXCEPT ![r] = p]
          /\ lease' = [lease EXCEPT ![r] = TRUE]
          /\ SetTasks(p, [Goto(p, r, "loop") EXCEPT ![r].beat = TRUE])
     ELSE /\ SetTasks(p, Goto(p, r, "finally"))
          /\ UNCHANGED <<status, executor, lease>>
  /\ UNCHANGED <<active, cancelled, late, step, receipt, worker, proc,
                 recovering, cancelling, sends, delivered>>

\* The loop head looks at cancelled and deadline, not at executor or lease.
PickStep(p, r) ==
  /\ At(p, r, "loop")
  /\ IF cancelled[r] \/ late[r]
     THEN SetTasks(p, Raised(p, r, "error")) /\ UNCHANGED step
     ELSE \/ \E k \in Ordinals :
               /\ step[r][k] = "queued"
               /\ \A j \in Ordinals : j < k => step[r][j] # "queued"
               /\ step' = [step EXCEPT ![r][k] = "running"]
               /\ SetTasks(p, [Goto(p, r, "speak") EXCEPT ![r].cur = k])
          \/ /\ \A k \in Ordinals : step[r][k] # "queued"
             /\ SetTasks(p, Goto(p, r, "finish"))
             /\ UNCHANGED step
  /\ UNCHANGED <<active, status, cancelled, executor, lease, late, receipt,
                 worker, proc, recovering, cancelling, sends, delivered>>

\* An error out of _speak: a stopped contribution ends the contribution, any
\* other error ends the execution.
SpeakError(p, r) ==
  LET k == task[p][r].cur IN
  IF step[r][k] = "cancel_requested"
  THEN /\ step' = [step EXCEPT ![r][k] = "cancelled"]
       /\ SetTasks(p, [Goto(p, r, "loop") EXCEPT ![r].cur = 0])
  ELSE /\ SetTasks(p, Raised(p, r, "error"))
       /\ UNCHANGED step

\* reserve(): a call with a receipt is not dispatched again.
MayDispatchIfComplete(r, k) == receipt[r][k] \in {"none", "complete"}
MayDispatch(r, k) == receipt[r][k] = "none"

\* stream(): the receipt is committed before the request leaves.
SendCall(p, r) ==
  LET k == task[p][r].cur IN
  /\ At(p, r, "speak")
  /\ Owns(p, r) /\ step[r][k] \notin {"cancelled", "cancel_requested"}
  /\ MayDispatch(r, k)
  /\ receipt' = [receipt EXCEPT ![r][k] = "started"]
  /\ sends' = [sends EXCEPT ![r][k] = @ + 1]
  /\ SetTasks(p, Goto(p, r, "calling"))
  /\ UNCHANGED <<active, status, cancelled, executor, lease, late, step, worker,
                 proc, recovering, cancelling, delivered>>

\* A completed receipt is replayed without another dispatch.
ReplayCall(p, r) ==
  LET k == task[p][r].cur IN
  /\ At(p, r, "speak")
  /\ Owns(p, r) /\ step[r][k] \notin {"cancelled", "cancel_requested"}
  /\ receipt[r][k] = "complete"
  /\ SetTasks(p, Goto(p, r, "spoken"))
  /\ UNCHANGED <<dbVars, proc, recovering, cancelling, sends, delivered>>

\* The call is refused: not admitted, fenced, stopped, over budget, or an
\* earlier dispatch of the same call has no known outcome.
CallRefused(p, r) ==
  /\ At(p, r, "speak")
  /\ SpeakError(p, r)
  /\ UNCHANGED <<active, status, cancelled, executor, lease, late, receipt,
                 worker, proc, recovering, cancelling, sends, delivered>>

CallCompletes(p, r) ==
  /\ At(p, r, "calling")
  /\ receipt' = [receipt EXCEPT ![r][task[p][r].cur] = "complete"]
  /\ SetTasks(p, Goto(p, r, "spoken"))
  /\ UNCHANGED <<active, status, cancelled, executor, lease, late, step, worker,
                 proc, recovering, cancelling, sends, delivered>>

HeldMisspelt(r, k) == [receipt EXCEPT ![r][k] = IF @ = "started" THEN "unkown" ELSE @]
\* hold(): a dispatch whose answer was lost stays unknown.
Held(r, k) == [receipt EXCEPT ![r][k] = IF @ = "started" THEN "unknown" ELSE @]

CallFails(p, r) ==
  /\ At(p, r, "calling")
  /\ receipt' = Held(r, task[p][r].cur)
  /\ SpeakError(p, r)
  /\ UNCHANGED <<active, status, cancelled, executor, lease, late, worker, proc,
                 recovering, cancelling, sends, delivered>>

\* collaborate() of the speaking step: one more contribution, once.
Collaborate(p, r) ==
  LET k == task[p][r].cur IN
  /\ At(p, r, "spoken")
  /\ Owns(p, r) /\ step[r][k] \notin {"cancelled", "cancel_requested"}
  /\ k + 1 \in Ordinals /\ step[r][k + 1] = "absent"
  /\ step' = [step EXCEPT ![r][k + 1] = "queued"]
  /\ UNCHANGED <<active, status, cancelled, executor, lease, late, receipt,
                 worker, proc, task, recovering, cancelling, sends, delivered>>

\* The Task tool: WorkerControl.begin admits a worker under the run.
Delegate(p, r) ==
  /\ "delegate" \in Ops
  /\ At(p, r, "spoken")
  /\ Owns(p, r) /\ step[r][task[p][r].cur] = "running"
  /\ worker[r] = "none"
  /\ worker' = [worker EXCEPT ![r] = "active"]
  /\ UNCHANGED <<active, status, cancelled, executor, lease, late, step, receipt,
                 proc, task, recovering, cancelling, sends, delivered>>

WorkerEnds(p, r) ==
  /\ Alive(p) /\ executor[r] = p /\ worker[r] = "active"
  /\ \E w \in {"succeeded", "failed"} : worker' = [worker EXCEPT ![r] = w]
  /\ UNCHANGED <<active, status, cancelled, executor, lease, late, step, receipt,
                 proc, task, recovering, cancelling, sends, delivered>>

\* The delivery transaction is fenced by executor, lease, cancel and deadline.
Deliver(p, r) ==
  LET k == task[p][r].cur IN
  /\ At(p, r, "spoken")
  /\ \/ /\ step[r][k] = "cancel_requested"
        /\ step' = [step EXCEPT ![r][k] = "cancelled"]
        /\ SetTasks(p, [Goto(p, r, "loop") EXCEPT ![r].cur = 0])
        /\ UNCHANGED delivered
     \/ /\ step[r][k] # "cancel_requested"
        /\ Fenced(p, r)
        /\ SetTasks(p, Raised(p, r, "error"))
        /\ UNCHANGED <<step, delivered>>
     \/ /\ step[r][k] # "cancel_requested"
        /\ ~Fenced(p, r)
        /\ step' = [step EXCEPT ![r][k] = "succeeded"]
        /\ delivered' = [delivered EXCEPT ![r][k] = @ + 1]
        /\ SetTasks(p, [Goto(p, r, "loop") EXCEPT ![r].cur = 0])
  /\ UNCHANGED <<active, status, cancelled, executor, lease, late, receipt,
                 worker, proc, recovering, cancelling, sends>>

\* The final transaction: no fence, and run.cancelled is not looked at.
Finish(p, r) ==
  /\ At(p, r, "finish")
  /\ status' = [status EXCEPT ![r] =
       IF worker[r] = "active" THEN "waiting_tasks"
       ELSE IF Unresolved(r) THEN "reconciling"
       ELSE IF \E k \in Ordinals : step[r][k] = "cancelled" THEN "partial"
       ELSE "succeeded"]
  /\ active' = Freed(r)
  /\ SetTasks(p, [Goto(p, r, "advance") EXCEPT ![r].kids = (worker[r] = "active")])
  /\ UNCHANGED <<cancelled, executor, lease, late, step, receipt, worker, proc,
                 recovering, cancelling, sends, delivered>>

AdvanceAfterFinish(p, r) ==
  /\ At(p, r, "advance")
  /\ AdvanceRoom(p, RoomOf[r],
       Goto(p, r, IF task[p][r].kids THEN "wait" ELSE "finally"))
  /\ UNCHANGED <<cancelled, executor, lease, late, step, receipt, worker, proc,
                 recovering, cancelling, sends, delivered>>

\* wait_run has returned; the run's status becomes its workers' outcome.
WorkersFinished(p, r) ==
  /\ At(p, r, "wait") /\ worker[r] # "active"
  /\ status' = [status EXCEPT ![r] =
       IF Unresolved(r) THEN "reconciling"
       ELSE IF cancelled[r] THEN "cancelled"
       ELSE IF worker[r] # "succeeded" THEN "partial" ELSE "succeeded"]
  /\ SetTasks(p, [Goto(p, r, "finally") EXCEPT ![r].kids = FALSE])
  /\ UNCHANGED <<active, cancelled, executor, lease, late, step, receipt, worker,
                 proc, recovering, cancelling, sends, delivered>>

\* stop_run: this process's worker jobs are cancelled and joined.
StopWorkers(p, r) ==
  worker' = IF worker[r] = "active" /\ executor[r] = p
            THEN [worker EXCEPT ![r] = "failed"] ELSE worker

StopChildren(p, r) ==
  /\ At(p, r, "stopping")
  /\ StopWorkers(p, r)
  /\ SetTasks(p, [Goto(p, r, "settling") EXCEPT ![r].settle = TRUE])
  /\ UNCHANGED <<active, status, cancelled, executor, lease, late, step, receipt,
                 proc, recovering, cancelling, sends, delivered>>

Settled(t) == [t EXCEPT !.settle = FALSE, !.exc = "error",
                        !.pc = IF @ = "settling" THEN "finally" ELSE @]

\* settle(): shielded, so it commits even when the task that awaits it is
\* cancelled again and goes on to its finally block.
Settle(p, r) ==
  LET t == task[p][r] IN
  /\ Alive(p) /\ t.settle
  /\ IF executor[r] = p
     THEN /\ status' = [status EXCEPT ![r] =
               IF Unresolved(r) \/ t.exc = "error" THEN "reconciling" ELSE "cancelled"]
          /\ active' = Freed(r)
     ELSE UNCHANGED <<status, active>>
  /\ SetTasks(p, [task[p] EXCEPT ![r] = Settled(@)])
  /\ UNCHANGED <<cancelled, executor, lease, late, step, receipt, worker, proc,
                 recovering, cancelling, sends, delivered>>

\* The task leaves self.live; a settle() it was cancelled out of goes on.
Ended(t) == [IdleTask EXCEPT !.settle = t.settle, !.exc = t.exc]

Finally(p, r) ==
  /\ At(p, r, "finally")
  /\ AdvanceRoom(p, RoomOf[r], [task[p] EXCEPT ![r] = Ended(@)])
  /\ UNCHANGED <<cancelled, executor, lease, late, step, receipt, worker, proc,
                 recovering, cancelling, sends, delivered>>

-----------------------------------------------------------------------------
(* Cancellation of a task, heartbeat, deadline and lease. *)

\* task.cancel(): CancelledError at the await the task is in.  A task that has
\* not started just ends, and a claim under way is rolled back; in the except
\* branch the steps not yet begun are skipped (a settle() under way is shielded
\* and commits by itself); in finally the advance_room is skipped.
Interrupted(t) ==
  CASE t.pc = "none"     -> {t}
    [] t.pc = "claim"    -> {[t EXCEPT !.pc = "none"],
                             Raising(t, "cancelled")}
    [] t.pc = "stopping" -> {[t EXCEPT !.pc = "finally", !.exc = "error"]}
    [] t.pc = "settling" -> {[t EXCEPT !.pc = "finally"]}
    [] t.pc = "finally"  -> {Ended(t)}
    [] OTHER             -> {Raising(t, "cancelled")}

\* Cancelling a task cancels the model call it awaits, which holds its receipt.
HeldBy(p, r) == IF task[p][r].pc = "calling" THEN Held(r, task[p][r].cur) ELSE receipt

\* One beat: leave when the run is no longer this executor's; cancel the task
\* of a cancelled or late run and leave; otherwise renew the lease.
Heartbeat(p, r) ==
  /\ Alive(p) /\ task[p][r].beat
  /\ \/ /\ executor[r] # p \/ status[r] \notin Admitted
        /\ SetTasks(p, [task[p] EXCEPT ![r].beat = FALSE])
        /\ UNCHANGED <<lease, receipt>>
     \/ /\ executor[r] = p /\ status[r] \in Admitted /\ (cancelled[r] \/ late[r])
        /\ \E t \in Interrupted([task[p][r] EXCEPT !.beat = FALSE]) :
             SetTasks(p, [task[p] EXCEPT ![r] = t])
        /\ receipt' = HeldBy(p, r)
        /\ UNCHANGED lease
     \/ /\ executor[r] = p /\ status[r] \in Admitted /\ ~cancelled[r] /\ ~late[r]
        /\ ~lease[r]
        /\ lease' = [lease EXCEPT ![r] = TRUE]
        /\ UNCHANGED <<task, receipt>>
  /\ UNCHANGED <<active, status, cancelled, executor, late, step, worker, proc,
                 recovering, cancelling, sends, delivered>>

\* Time is looked at only while the run is open or some task still runs it.
Observed(r) == \/ status[r] \notin Terminal \cup {"none"}
               \/ \E p \in Procs : task[p][r].pc # "none" \/ task[p][r].settle

\* Sixty seconds without a beat.
LeaseLapses(r) ==
  /\ lease[r] /\ Observed(r)
  /\ Stalls \/ ~\E p \in Procs : Alive(p) /\ executor[r] = p /\ task[p][r].beat
  /\ lease' = [lease EXCEPT ![r] = FALSE]
  /\ UNCHANGED <<active, status, cancelled, executor, late, step, receipt, worker,
                 proc, task, recovering, cancelling, sends, delivered>>

\* The deadline fixed at admission passes, whatever the run is doing.
DeadlinePasses(r) ==
  /\ "deadline" \in Ops
  /\ ~late[r] /\ Observed(r)
  /\ late' = [late EXCEPT ![r] = TRUE]
  /\ UNCHANGED <<active, status, cancelled, executor, lease, step, receipt, worker,
                 proc, task, recovering, cancelling, sends, delivered>>

-----------------------------------------------------------------------------
(* Owner requests, served by process p. *)

Cancel(p, r) ==
  /\ "cancel" \in Ops
  /\ proc[p] = "up"
  /\ status[r] \notin Terminal \cup {"none"}
  /\ cancelled' = [cancelled EXCEPT ![r] = TRUE]
  /\ IF status[r] \in {"queued", "waiting_room"}
     THEN /\ status' = [status EXCEPT ![r] = "cancelled"]
          /\ active' = Freed(r)
          /\ step' = [step EXCEPT ![r] = [k \in Ordinals |->
                        IF @[k] = "queued" THEN "cancelled" ELSE @[k]]]
     ELSE UNCHANGED <<status, active, step>>
  /\ cancelling' = [cancelling EXCEPT ![p] = @ \cup {r}]
  /\ UNCHANGED <<executor, lease, late, receipt, worker, proc, task, recovering,
                 sends, delivered>>

LeaseLostUnchecked(r) == status[r] \in Admitted
LeaseLostByTasks(r) == status[r] = "waiting_tasks" /\ ~lease[r]
LeaseLost(r) == status[r] \in Admitted /\ ~lease[r]

SlotsKept(lost) == active
SlotsWithout(lost) == [rm \in Rooms |-> IF active[rm] \in lost THEN NoRun ELSE active[rm]]

\* recover(): runs whose lease lapsed lose their slot and await reconciliation;
\* queued runs are launched here; idle rooms are advanced one by one after.
Recovered(p) ==
  LET lost == {r \in Runs : LeaseLost(r)}
      slots == SlotsWithout(lost)
  IN
  /\ status' = [r \in Runs |-> IF r \in lost THEN "reconciling" ELSE status[r]]
  /\ worker' = [r \in Runs |-> IF r \in lost /\ worker[r] = "active"
                               THEN "reconciling" ELSE worker[r]]
  /\ active' = slots
  /\ SetTasks(p, Launched(p, task[p], {r \in Runs : status[r] = "queued"}))
  /\ recovering' = [recovering EXCEPT ![p] = @ \cup {rm \in Rooms : slots[rm] = NoRun}]

Recover(p) ==
  /\ "recover" \in Ops
  /\ proc[p] = "up"
  /\ Recovered(p)
  /\ UNCHANGED <<cancelled, executor, lease, late, step, receipt, proc, cancelling,
                 sends, delivered>>

RecoverAdvances(p, rm) ==
  /\ Alive(p) /\ rm \in recovering[p]
  /\ AdvanceRoom(p, rm, task[p])
  /\ recovering' = [recovering EXCEPT ![p] = @ \ {rm}]
  /\ UNCHANGED <<cancelled, executor, lease, late, step, receipt, worker, proc,
                 cancelling, sends, delivered>>

\* The rest of cancel(): stop the workers, then cancel the task, or recover().
CancelGoesOn(p, r) ==
  /\ Alive(p) /\ r \in cancelling[p]
  /\ cancelling' = [cancelling EXCEPT ![p] = @ \ {r}]
  /\ IF task[p][r].pc # "none"
     THEN /\ StopWorkers(p, r)
          /\ \E t \in Interrupted(task[p][r]) : SetTasks(p, [task[p] EXCEPT ![r] = t])
          /\ receipt' = HeldBy(p, r)
          /\ UNCHANGED <<status, active, recovering>>
     ELSE Recovered(p) /\ UNCHANGED receipt
  /\ UNCHANGED <<cancelled, executor, lease, late, step, proc, sends, delivered>>

StopRequested(st) == "cancel_requested"
Stopped(st) == IF st = "queued" THEN "cancelled" ELSE "cancel_requested"

\* stop_reply; the reply task is then cancelled (CallFails, CallRefused).
StopReply(r, k) ==
  /\ "stop" \in Ops
  /\ \E p \in Procs : proc[p] = "up"
  /\ step[r][k] \in {"queued", "running"}
  /\ step' = [step EXCEPT ![r][k] = Stopped(@)]
  /\ UNCHANGED <<active, status, cancelled, executor, lease, late, receipt, worker,
                 proc, task, recovering, cancelling, sends, delivered>>

RequeuedAll(st) == IF st \in {"running", "succeeded"} THEN "queued" ELSE st
RequeuedNone(st) == st
Requeued(st) == IF st = "running" THEN "queued" ELSE st

Resume(p, r) ==
  /\ "resume" \in Ops
  /\ proc[p] = "up"
  /\ status[r] = "reconciling" /\ ~cancelled[r] /\ ~late[r]
  /\ active[RoomOf[r]] = NoRun
  /\ executor[r] = p \/ ~lease[r]
  /\ ~Unresolved(r) /\ worker[r] \notin {"active", "reconciling"}
  /\ step' = [step EXCEPT ![r] = [k \in Ordinals |-> Requeued(@[k])]]
  /\ status' = [status EXCEPT ![r] = "queued"]
  /\ executor' = [executor EXCEPT ![r] = NoProc]
  /\ active' = [active EXCEPT ![RoomOf[r]] = r]
  /\ SetTasks(p, Launched(p, task[p], {r}))
  /\ UNCHANGED <<cancelled, lease, late, receipt, worker, proc, recovering,
                 cancelling, sends, delivered>>

-----------------------------------------------------------------------------
(* Processes. *)

\* Startup runs recover() before it serves requests.
Boot(p) ==
  /\ Overlap \/ ~\E q \in Procs : Alive(q)
  /\ proc[p] = "new"
  /\ proc' = [proc EXCEPT ![p] = "up"]
  /\ Recovered(p)
  /\ UNCHANGED <<cancelled, executor, lease, late, step, receipt, cancelling,
                 sends, delivered>>

\* shutdown(): every live task is cancelled; nothing is launched any more.
Shutdown(p) ==
  /\ "shutdown" \in Ops
  /\ proc[p] = "up"
  /\ proc' = [proc EXCEPT ![p] = "closing"]
  /\ \E ts \in [Runs -> UNION {Interrupted(task[p][r]) : r \in Runs}] :
       /\ \A r \in Runs : ts[r] \in Interrupted(task[p][r])
       /\ SetTasks(p, ts)
  /\ receipt' = [r \in Runs |-> HeldBy(p, r)[r]]
  /\ UNCHANGED <<active, status, cancelled, executor, lease, late, step, worker,
                 recovering, cancelling, sends, delivered>>

\* The process ends: after a shutdown that joined its tasks, or by a crash.
Exit(p) ==
  /\ Alive(p)
  /\ Crashes \/ (proc[p] = "closing" /\ \A r \in Runs : task[p][r].pc = "none")
  /\ proc' = [proc EXCEPT ![p] = "dead"]
  /\ SetTasks(p, [r \in Runs |-> IdleTask])
  /\ recovering' = [recovering EXCEPT ![p] = {}]
  /\ cancelling' = [cancelling EXCEPT ![p] = {}]
  /\ UNCHANGED <<dbVars, sends, delivered>>

-----------------------------------------------------------------------------
TaskStep(p, r) ==
  \/ Claim(p, r) \/ PickStep(p, r)
  \/ SendCall(p, r) \/ ReplayCall(p, r) \/ CallRefused(p, r)
  \/ CallCompletes(p, r) \/ CallFails(p, r)
  \/ Collaborate(p, r) \/ Delegate(p, r) \/ Deliver(p, r)
  \/ Finish(p, r) \/ AdvanceAfterFinish(p, r) \/ WorkersFinished(p, r)
  \/ StopChildren(p, r) \/ Settle(p, r) \/ Finally(p, r)

OwnerStep(p, r) == Start(p, r) \/ Cancel(p, r) \/ Resume(p, r)

ProcessStep(p) == Recover(p) \/ Boot(p) \/ Shutdown(p) \/ Exit(p)

Next ==
  \/ \E p \in Procs, r \in Runs :
        TaskStep(p, r) \/ WorkerEnds(p, r) \/ Heartbeat(p, r)
        \/ OwnerStep(p, r) \/ CancelGoesOn(p, r)
  \/ \E p \in Procs : ProcessStep(p)
  \/ \E p \in Procs, rm \in Rooms : RecoverAdvances(p, rm)
  \/ \E r \in Runs : LeaseLapses(r) \/ DeadlinePasses(r)
  \/ \E r \in Runs, k \in Ordinals : StopReply(r, k)

Spec == Init /\ [][Next]_vars

\* Tasks run when they can, a provider call ends (its client has a timeout),
\* heartbeats beat and clocks move; nothing outside the process is assumed.
ProcessFairness ==
  /\ \A p \in Procs, r \in Runs :
        /\ WF_vars(TaskStep(p, r)) /\ WF_vars(WorkerEnds(p, r))
        /\ WF_vars(Heartbeat(p, r)) /\ WF_vars(CancelGoesOn(p, r))
  /\ \A p \in Procs, rm \in Rooms : WF_vars(RecoverAdvances(p, rm))
  /\ \A r \in Runs : WF_vars(LeaseLapses(r)) /\ WF_vars(DeadlinePasses(r))

-----------------------------------------------------------------------------
(* What is checked. *)

\* The type of every variable.
TypeOK ==
  /\ active \in [Rooms -> Runs \cup {NoRun}]
  /\ status \in [Runs -> RunStatus]
  /\ cancelled \in [Runs -> BOOLEAN]
  /\ executor \in [Runs -> Procs \cup {NoProc}]
  /\ lease \in [Runs -> BOOLEAN]
  /\ late \in [Runs -> BOOLEAN]
  /\ step \in [Runs -> [Ordinals -> StepStatus]]
  /\ receipt \in [Runs -> [Ordinals -> ReceiptStatus]]
  /\ worker \in [Runs -> WorkerStatus]
  /\ proc \in [Procs -> {"new", "up", "closing", "dead"}]
  /\ task \in [Procs -> [Runs -> Tasks]]
  /\ recovering \in [Procs -> SUBSET Rooms]
  /\ cancelling \in [Procs -> SUBSET Runs]
  /\ sends \in [Runs -> [Ordinals -> Nat]]
  /\ delivered \in [Runs -> [Ordinals -> Nat]]

Slotted == {"queued", "running"}

\* A run that is queued or running holds its room's speaking slot
\* (Room.active_run), so no two runs of a room ever speak at the same time.
SlotHeld == \A r \in Runs : status[r] \in Slotted => active[RoomOf[r]] = r

\* A room's slot is never left with a run that no longer speaks: nothing but
\* that run's executor would free it, and every later message would wait.
SlotReleased == \A r \in Runs : active[RoomOf[r]] = r => status[r] \in Slotted

\* A step's model call leaves for the provider at most once, through crashes,
\* recovery, resumption and executors that lost their lease.
DispatchedOnce == \A r \in Runs, k \in Ordinals : sends[r][k] <= 1

\* A contribution is published at most once.
PublishedOnce == \A r \in Runs, k \in Ordinals : delivered[r][k] <= 1

\* "Unknown paid/tool/Cell outcomes remain explicit even on cancel": a run that
\* has ended in any final status has no model call with an unknown outcome.
OutcomesExplicit ==
  \A r \in Runs : status[r] \in Terminal =>
    \A k \in Ordinals : receipt[r][k] \notin {"started", "unknown"}

\* A run is reported succeeded or partial only when each of its contributions
\* was published or stopped.
RoundComplete ==
  \A r \in Runs : status[r] \in {"succeeded", "partial"} =>
    \A k \in Ordinals : step[r][k] \in {"absent", "succeeded", "cancelled"}

\* A contribution is published only while its run holds the speaking slot.
PublishedInTurn ==
  [][\A r \in Runs, k \in Ordinals : delivered'[r][k] > delivered[r][k]
        => active[RoomOf[r]] = r /\ status[r] = "running"]_vars

\* "Lost executors are reported as unknown/reconciling, not completed": a run
\* leaves reconciliation by being resumed, not by being found complete.
LostNotCompleted ==
  [][\A r \in Runs : status[r] = "reconciling"
        => status'[r] \notin {"succeeded", "partial"}]_vars

Open == {"waiting_room", "queued", "running", "waiting_tasks"}

\* Somebody keeps calling POST /coordination/recover (n8n, or a later cancel).
RecoveryFairness ==
  ProcessFairness /\ \A p \in Procs : WF_vars(Recover(p)) /\ WF_vars(Boot(p))
SpecRecovered == Spec /\ RecoveryFairness
\* Nobody does.
SpecUnattended == Spec /\ ProcessFairness

\* Once a process stays up, every admitted run is eventually over or awaits
\* reconciliation: no message waits forever for a slot, no run is left behind.
EveryRunSettles ==
  <>[](\E p \in Procs : proc[p] = "up") =>
    \A r \in Runs : (status[r] \in Open) ~> (status[r] \notin Open)

\* "POST /coordination/runs/{id}/cancel cancels the request and its tasks": a
\* cancelled run stops being open.
CancelSettles ==
  \A r \in Runs : cancelled[r] ~> (status[r] \notin Open)
=============================================================================
