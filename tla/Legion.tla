------------------------------- MODULE Legion -------------------------------
(***************************************************************************)
(* The workers of one root run (services/worker_control.py, task_runner.py, *)
(* mission_control.py): admission under the supervisor, dispatch, steering  *)
(* at model boundaries, output, stopping, the loss of the executor, and a   *)
(* client window that loads the worker cards and then follows the room's    *)
(* events. Lead is the supervisor's contribution, which has an inbox of its *)
(* own; its other steps are those of module Coordination.                   *)
(***************************************************************************)
EXTENDS Naturals, Sequences, FiniteSets, SequencesExt

CONSTANTS
  Workers, Lead,
  Messages,       \* identities of steering messages
  MaxChildren,    \* child assignments of a root run (8 in the code)
  MaxLive,        \* active Legion workers of a root run (3)
  MaxWaiting,     \* waiting instructions of one worker (16)
  PageLimit,      \* events of a page (200)
  MaxOutputs,     \* bound on published output
  MaxViews        \* bound on the windows that load the cards

ASSUME LegionAssumption ==
  /\ Lead \notin Workers /\ IsFiniteSet(Workers)
  /\ {MaxChildren, MaxLive, MaxWaiting, PageLimit, MaxOutputs, MaxViews} \subseteq Nat

VARIABLES
  legionRow,         \* LegionExecution of a worker, AgentStep of the Lead
  legionJob,         \* the task executing it: its place and a pending cancellation
  rootRun,        \* CoordinationRun: live, stopping, ended, lost
  rootLease,       \* the executor still holds it
  steering,    \* LegionInput, SupervisorInput: to whom, status, times included
  packet,      \* instructions claimed and not yet recorded
  roomLog,         \* RoomEvent: worker and phase
  window         \* the client's window: place, floor, cursor and cards

legionVars == <<legionRow, legionJob, rootRun, rootLease, steering, packet, roomLog, window>>

Executions == Workers \union {Lead}
ActiveStates == {"admitted", "running"}
TerminalStates == {"succeeded", "failed", "interrupted", "reconciling"}
NoJob == [at |-> "none", kill |-> FALSE]
NoCard == [status |-> "none", last |-> 0, shown |-> 0, partial |-> FALSE]
NoView == [at |-> "closed", floor |-> 0, cursor |-> 0, opened |-> 0,
           card |-> [w \in Workers |-> NoCard]]
Unsent == [to |-> Lead, status |-> "none", times |-> 0]

LegionInit ==
  /\ legionRow = [e \in Executions |->
              [status |-> IF e = Lead THEN "running" ELSE "none", cancelled |-> FALSE]]
  /\ legionJob = [e \in Executions |-> IF e = Lead THEN [at |-> "head", kill |-> FALSE] ELSE NoJob]
  /\ rootRun = "live" /\ rootLease = TRUE
  /\ steering = [i \in Messages |-> Unsent]
  /\ packet = [e \in Executions |-> {}]
  /\ roomLog = <<>> /\ window = NoView

Emit(w, phase) == roomLog' = Append(roomLog, [w |-> w, phase |-> phase])
Goes(e, place) == legionJob' = [legionJob EXCEPT ![e].at = place]
JobAt(e, place) == legionJob[e].at = place /\ ~legionJob[e].kill
RootAdmitted == rootRun = "live" /\ rootLease
LiveWorkers == {w \in Workers : legionRow[w].status \in ActiveStates}

(***************************************************************************)
(* Admission and dispatch                                                  *)
(***************************************************************************)

\* begin(), called by the Task tool of the supervisor.
BeginWorker(w) ==
  /\ JobAt(Lead, "reply") /\ legionRow[Lead].status = "running" /\ RootAdmitted
  /\ legionRow[w].status = "none"
  /\ Cardinality({c \in Workers : legionRow[c].status # "none"}) < MaxChildren
  /\ Cardinality(LiveWorkers) < MaxLive
  /\ legionRow' = [legionRow EXCEPT ![w].status = "admitted"]
  /\ Goes(w, "begun") /\ Emit(w, "started")
  /\ UNCHANGED <<rootRun, rootLease, steering, packet, window>>

\* TaskRunner creates the task, unless the supervisor is stopped first.
SpawnWorker(w) ==
  /\ legionJob[w].at = "begun"
  /\ Goes(w, IF legionJob[Lead].kill THEN "none" ELSE "dispatch")
  /\ UNCHANGED <<legionRow, rootRun, rootLease, steering, packet, roomLog, window>>

\* start(): the durable row decides whether there is still work to dispatch.
DispatchWorker(w) ==
  /\ JobAt(w, "dispatch")
  /\ IF legionRow[w].status # "admitted"
     THEN Goes(w, "none") /\ UNCHANGED <<legionRow, roomLog>>
     ELSE IF ~RootAdmitted
     THEN Goes(w, "none") /\ UNCHANGED roomLog /\ legionRow' = [legionRow EXCEPT ![w].status = "interrupted"]
     ELSE /\ Goes(w, "head") /\ Emit(w, "running")
          /\ legionRow' = [legionRow EXCEPT ![w].status = "running"]
  /\ UNCHANGED <<rootRun, rootLease, steering, packet, window>>

(***************************************************************************)
(* The loop of an execution, at the boundaries that matter here            *)
(***************************************************************************)
WaitingFor(e) == {i \in Messages : steering[i].to = e /\ steering[i].status = "queued"}
MarkAll(S, status) ==
  steering' = [i \in Messages |-> IF i \in S THEN [steering[i] EXCEPT !.status = status]
                                             ELSE steering[i]]
Steerable(e) == RootAdmitted /\ ~legionRow[e].cancelled /\ legionRow[e].status = "running"

\* A mistake: a claimed instruction counts as delivered.
ClaimAsDelivered(e) ==
  /\ JobAt(e, "head") /\ Steerable(e)
  /\ MarkAll(WaitingFor(e), "delivered")
  /\ packet' = [packet EXCEPT ![e] = WaitingFor(e)]
  /\ Goes(e, "packet")
  /\ UNCHANGED <<legionRow, rootRun, rootLease, roomLog, window>>

\* claim() of LegionInbox and SupervisorInbox, at the head of the loop.
ClaimInputs(e) ==
  /\ JobAt(e, "head") /\ Steerable(e)
  /\ MarkAll(WaitingFor(e), "delivering")
  /\ packet' = [packet EXCEPT ![e] = WaitingFor(e)]
  /\ Goes(e, "packet")
  /\ UNCHANGED <<legionRow, rootRun, rootLease, roomLog, window>>

\* ensure_active() refuses: the execution ends as failed.
Inactive(e) ==
  /\ JobAt(e, "head") /\ ~Steerable(e)
  /\ Goes(e, "fail")
  /\ UNCHANGED <<legionRow, rootRun, rootLease, steering, packet, roomLog, window>>

\* record_boundary(): the claimed instructions are in the messages.
RecordBoundary(e) ==
  /\ JobAt(e, "packet")
  /\ steering' = [i \in Messages |->
       IF i \in packet[e]
       THEN [steering[i] EXCEPT !.status = "delivered", !.times = @ + 1]
       ELSE steering[i]]
  /\ packet' = [packet EXCEPT ![e] = {}]
  /\ Goes(e, "model")
  /\ UNCHANGED <<legionRow, rootRun, rootLease, roomLog, window>>

\* The model answers: tools to run, the end of the turn, or an error.
WorkerAnswers(e) ==
  /\ JobAt(e, "model")
  /\ \E place \in {"reply", "end", "fail"} : Goes(e, place)
  /\ UNCHANGED <<legionRow, rootRun, rootLease, steering, packet, roomLog, window>>

\* publish(): nothing follows a terminal result or a requested stop.
PublishOutput(w) ==
  /\ JobAt(w, "reply")
  /\ IF legionRow[w].status \in TerminalStates \/ legionRow[w].cancelled
     THEN Goes(w, "fail") /\ UNCHANGED roomLog
     ELSE /\ Len(SelectSeq(roomLog, LAMBDA v : v.phase = "text")) < MaxOutputs
          /\ Emit(w, "text") /\ UNCHANGED legionJob
  /\ UNCHANGED <<legionRow, rootRun, rootLease, steering, packet, window>>

\* The tools have run and their results are in the messages.
NextTurn(e) ==
  /\ JobAt(e, "reply")
  /\ \A w \in Workers : legionJob[w].at # "begun"
  /\ Goes(e, "head")
  /\ UNCHANGED <<legionRow, rootRun, rootLease, steering, packet, roomLog, window>>

\* end_turn: only a supervisor looks once more for instructions.
EndTurn(e) ==
  /\ JobAt(e, "end")
  /\ IF e = Lead /\ WaitingFor(e) # {}
     THEN /\ Steerable(e)
          /\ MarkAll(WaitingFor(e), "delivering")
          /\ packet' = [packet EXCEPT ![e] = WaitingFor(e)]
          /\ Goes(e, "packet")
     ELSE Goes(e, "settle") /\ UNCHANGED <<steering, packet>>
  /\ UNCHANGED <<legionRow, rootRun, rootLease, roomLog, window>>

\* A mistake: the last writer decides the worker's result.
FinishWorkerLatest(w, status) ==
  /\ LET last == IF legionRow[w].cancelled /\ status # "reconciling" THEN "interrupted" ELSE status
     IN  legionRow' = [legionRow EXCEPT ![w].status = last] /\ Emit(w, "finished")
  /\ legionJob' = [legionJob EXCEPT ![w] = NoJob]
  /\ packet' = [packet EXCEPT ![w] = {}]
  /\ UNCHANGED <<rootRun, rootLease, steering, window>>

\* finish(): the first terminal result stands; receipts without an outcome
\* make it reconciling.
FinishWorker(w, status) ==
  /\ IF legionRow[w].status \in TerminalStates
     THEN UNCHANGED <<legionRow, roomLog>>
     ELSE LET last == IF legionRow[w].cancelled /\ status # "reconciling" THEN "interrupted" ELSE status
          IN  legionRow' = [legionRow EXCEPT ![w].status = last] /\ Emit(w, "finished")
  /\ legionJob' = [legionJob EXCEPT ![w] = NoJob]
  /\ packet' = [packet EXCEPT ![w] = {}]
  /\ UNCHANGED <<rootRun, rootLease, steering, window>>

\* _run() ends: by its last answer or by an exception.
RunEnds(w) ==
  \/ JobAt(w, "settle") /\ FinishWorker(w, "succeeded")
  \/ JobAt(w, "fail") /\ FinishWorker(w, "failed")
  \/ legionJob[w].at \in {"settle", "fail"} /\ FinishWorker(w, "reconciling")

\* A mistake: the shielded finish() of the except branch is left out.
AbortedSilently(w) ==
  /\ legionJob[w].kill /\ legionJob[w].at \notin {"none", "begun"}
  /\ legionJob' = [legionJob EXCEPT ![w] = NoJob]
  /\ packet' = [packet EXCEPT ![w] = {}]
  /\ UNCHANGED <<legionRow, rootRun, rootLease, steering, roomLog, window>>

\* A cancelled task: before its first step nothing runs, later the except
\* branch of _run() records the end.
Aborted(w) ==
  /\ legionJob[w].kill /\ legionJob[w].at \notin {"none", "begun"}
  /\ IF legionJob[w].at = "dispatch"
     THEN legionJob' = [legionJob EXCEPT ![w] = NoJob] /\ UNCHANGED <<legionRow, rootRun, rootLease, steering, packet, roomLog, window>>
     ELSE FinishWorker(w, "interrupted")

\* complete_step() of the supervisor; the run then waits for its workers.
LeadEnds ==
  /\ legionJob[Lead].at \in {"settle", "fail"} /\ ~legionJob[Lead].kill
  /\ legionRow' = [legionRow EXCEPT ![Lead].status = IF legionJob[Lead].at = "settle" THEN "succeeded" ELSE "failed"]
  /\ legionJob' = [legionJob EXCEPT ![Lead] = NoJob]
  /\ packet' = [packet EXCEPT ![Lead] = {}]
  /\ UNCHANGED <<rootRun, rootLease, steering, roomLog, window>>

(***************************************************************************)
(* Stopping and losing the executor                                        *)
(***************************************************************************)
KillTasks(S) == legionJob' = [e \in Executions |->
  IF e \in S /\ legionJob[e].at # "none" THEN [legionJob[e] EXCEPT !.kill = TRUE] ELSE legionJob[e]]

\* interrupt() by the owner or the supervisor.
Interrupt(w) ==
  /\ legionRow[w].status \in ActiveStates
  /\ legionRow' = [legionRow EXCEPT ![w].cancelled = TRUE,
                        ![w].status = IF @ = "admitted" THEN "interrupted" ELSE @]
  /\ roomLog' = roomLog \o (IF legionRow[w].cancelled THEN <<>> ELSE <<[w |-> w, phase |-> "interrupt"]>>)
                \o (IF legionRow[w].status = "admitted" THEN <<[w |-> w, phase |-> "finished"]>> ELSE <<>>)
  /\ KillTasks({w} \ {v \in Workers : legionJob[v].at = "begun"})
  /\ UNCHANGED <<rootRun, rootLease, steering, packet, window>>

\* Coordinator.cancel() of the run.
CancelRoot ==
  /\ rootRun = "live" /\ legionJob[Lead].at # "none"
  /\ rootRun' = "stopping"
  /\ KillTasks({Lead})
  /\ UNCHANGED <<legionRow, rootLease, steering, packet, roomLog, window>>

\* stop_run(): every active worker is cancelled, an undispatched one ends.
StopRun ==
  /\ legionJob[Lead].kill /\ \A w \in Workers : legionJob[w].at # "begun"
  /\ legionRow' = [e \in Executions |->
       IF e = Lead THEN [legionRow[e] EXCEPT !.status = "interrupted"]
       ELSE IF e \in LiveWorkers
       THEN [status |-> IF legionRow[e].status = "admitted" THEN "interrupted" ELSE legionRow[e].status,
             cancelled |-> TRUE]
       ELSE legionRow[e]]
  /\ roomLog' = roomLog \o SetToSeq({[w |-> w, phase |-> "finished"] :
                              w \in {v \in Workers : legionRow[v].status = "admitted"}})
  /\ legionJob' = [e \in Executions |->
       IF e = Lead THEN NoJob
       ELSE IF e \in LiveWorkers /\ legionJob[e].at # "none" THEN [legionJob[e] EXCEPT !.kill = TRUE] ELSE legionJob[e]]
  /\ packet' = [packet EXCEPT ![Lead] = {}]
  /\ UNCHANGED <<rootRun, rootLease, steering, window>>

\* wait_run() has joined the workers and the run is settled.
SettleRoot ==
  /\ rootRun \in {"live", "stopping"} /\ rootLease
  /\ \A e \in Executions : legionJob[e].at = "none"
  /\ rootRun' = "ended"
  /\ UNCHANGED <<legionRow, legionJob, rootLease, steering, packet, roomLog, window>>

\* The process stalls past its lease, or dies.
LoseLease ==
  /\ rootLease /\ rootRun \in {"live", "stopping"}
  /\ rootLease' = FALSE
  /\ legionJob' = legionJob \/ legionJob' = [e \in Executions |-> NoJob]
  /\ packet' = IF legionJob' = legionJob THEN packet ELSE [e \in Executions |-> {}]
  /\ UNCHANGED <<legionRow, rootRun, steering, roomLog, window>>

\* recover(): workers of a lost executor are left for reconciliation.
RecoverWorkers ==
  /\ ~rootLease /\ rootRun \in {"live", "stopping"}
  /\ rootRun' = "lost"
  /\ legionRow' = [e \in Executions |->
       IF e \in LiveWorkers THEN [legionRow[e] EXCEPT !.status = "reconciling"] ELSE legionRow[e]]
  /\ UNCHANGED <<legionJob, rootLease, steering, packet, roomLog, window>>

(***************************************************************************)
(* Steering                                                                *)
(***************************************************************************)

\* A mistake: a repeated message is queued again.
SteerAgain(e, i) ==
  /\ Steerable(e)
  /\ steering[i].status \in {"none", "delivered"}
  /\ Cardinality({j \in Messages : steering[j].to = e
                                 /\ steering[j].status \in {"queued", "delivering"}}) < MaxWaiting
  /\ steering' = [steering EXCEPT ![i].to = e, ![i].status = "queued"]
  /\ UNCHANGED <<legionRow, legionJob, rootRun, rootLease, packet, roomLog, window>>

\* message() to a worker, steer() to the supervisor. A message identity that
\* is known returns its receipt.
Steer(e, i) ==
  /\ Steerable(e)
  /\ steering[i].status = "none"
  /\ Cardinality({j \in Messages : steering[j].to = e
                                 /\ steering[j].status \in {"queued", "delivering"}}) < MaxWaiting
  /\ steering' = [steering EXCEPT ![i].to = e, ![i].status = "queued"]
  /\ UNCHANGED <<legionRow, legionJob, rootRun, rootLease, packet, roomLog, window>>

(***************************************************************************)
(* A window of the client                                                  *)
(***************************************************************************)
EventsOf(w) == {n \in DOMAIN roomLog : roomLog[n].w = w}
TextsOf(w) == {n \in EventsOf(w) : roomLog[n].phase = "text"}
LastOf(S) == IF S = {} THEN 0 ELSE CHOOSE n \in S : \A k \in S : k <= n
FirstPage(w) == {n \in EventsOf(w) : Cardinality({k \in EventsOf(w) : k <= n}) <= PageLimit}

\* session_snapshot(): the replay floor is read first.
OpenWindow ==
  /\ window.at \in {"closed", "follow"} /\ window.opened < MaxViews
  /\ window' = [NoView EXCEPT !.at = "rows", !.floor = Len(roomLog), !.opened = window.opened + 1]
  /\ UNCHANGED <<legionRow, legionJob, rootRun, rootLease, steering, packet, roomLog>>

\* history_cards(): list() reads the rows,
ReadRows ==
  /\ window.at = "rows"
  /\ window' = [window EXCEPT !.at = "pages",
       !.card = [w \in Workers |-> [NoCard EXCEPT !.status = legionRow[w].status]]]
  /\ UNCHANGED <<legionRow, legionJob, rootRun, rootLease, steering, packet, roomLog>>

\* and then events() the first page of every worker's events.
ReadPages ==
  /\ window.at = "pages"
  /\ window' = [window EXCEPT !.at = "follow",
       !.cursor = window.floor,
       !.card = [w \in Workers |-> [@[w] EXCEPT
          !.last = LastOf(EventsOf(w)),
          !.shown = Cardinality(TextsOf(w) \intersect FirstPage(w)),
          !.partial = FirstPage(w) # EventsOf(w)]]]
  /\ UNCHANGED <<legionRow, legionJob, rootRun, rootLease, steering, packet, roomLog>>

\* A mistake: an event that overlaps the card is folded again.
FoldedAgain(card, n) ==
  [card EXCEPT !.last = n,
     !.shown = IF roomLog[n].phase = "text" THEN @ + 1 ELSE @,
     !.status = CASE roomLog[n].phase = "finished" -> legionRow[roomLog[n].w].status
                  [] roomLog[n].phase \in {"started", "running"} -> "running"
                  [] OTHER -> @]

\* foldLegionEvent(): an event the card already has is left out.
Folded(card, n) ==
  IF n <= card.last THEN card
  ELSE [card EXCEPT !.last = n,
          !.shown = IF roomLog[n].phase = "text" THEN @ + 1 ELSE @,
          !.status = CASE roomLog[n].phase = "finished" -> legionRow[roomLog[n].w].status
                       [] roomLog[n].phase \in {"started", "running"} -> "running"
                       [] OTHER -> @]

\* subscribe_session(): the next event after the cursor.
FollowEvents ==
  /\ window.at = "follow" /\ window.cursor < Len(roomLog)
  /\ LET n == window.cursor + 1
     IN  window' = [window EXCEPT !.cursor = n, !.card[roomLog[n].w] = Folded(@, n)]
  /\ UNCHANGED <<legionRow, legionJob, rootRun, rootLease, steering, packet, roomLog>>

LegionIdle == rootRun \in {"ended", "lost"} /\ UNCHANGED legionVars

LegionNext ==
  \/ CancelRoot \/ StopRun \/ SettleRoot \/ LoseLease \/ RecoverWorkers
  \/ LeadEnds \/ OpenWindow \/ ReadRows \/ ReadPages \/ FollowEvents \/ LegionIdle
  \/ \E w \in Workers :
       \/ BeginWorker(w) \/ SpawnWorker(w) \/ DispatchWorker(w) \/ PublishOutput(w) \/ RunEnds(w) \/ Aborted(w)
       \/ Interrupt(w)
  \/ \E e \in Executions :
       \/ ClaimInputs(e) \/ Inactive(e) \/ RecordBoundary(e) \/ WorkerAnswers(e) \/ NextTurn(e) \/ EndTurn(e)
       \/ \E i \in Messages : Steer(e, i)

\* The event loop runs every cancelled task; recovery is called on every start.
LegionFairness ==
  /\ WF_legionVars(RecoverWorkers) /\ WF_legionVars(StopRun)
  /\ \A w \in Workers :
       WF_legionVars(SpawnWorker(w)) /\ WF_legionVars(Aborted(w)) /\ WF_legionVars(RunEnds(w))

LegionSpec == LegionInit /\ [][LegionNext]_legionVars /\ LegionFairness

(***************************************************************************)
(* Properties                                                              *)
(***************************************************************************)

\* A worker's terminal result is final, whoever else still runs, stops or
\* recovers it, and no output is published after it (finish, publish).
ResultFinal ==
  [][\A w \in Workers : legionRow[w].status \in TerminalStates =>
       /\ legionRow'[w].status = legionRow[w].status
       /\ {n \in DOMAIN roomLog' : roomLog'[n].w = w} = EventsOf(w)]_legionVars

\* An instruction is recorded as delivered exactly when it is in the messages
\* of a model call, and it is never there twice (claim, record_boundary, and
\* the message identity).
DeliveredMeansSeen ==
  \A i \in Messages :
    /\ steering[i].times = IF steering[i].status = "delivered" THEN 1 ELSE 0

\* A worker that was told to stop reaches a terminal status, also when its
\* executor is lost meanwhile.
StopSettles ==
  \A w \in Workers : legionRow[w].cancelled ~> legionRow[w].status \in TerminalStates

\* A worker that is stopped ends, and what it ended with stays.
WorkersEnd == ResultFinal /\ StopSettles

\* A window that has caught up shows every published output of a worker once,
\* or says that the activity is partial (session_snapshot, subscribe_session).
CardsComplete ==
  window.at = "follow" /\ window.cursor = Len(roomLog) =>
    \A w \in Workers :
      window.card[w].partial \/ window.card[w].shown = Cardinality(TextsOf(w))

\* Neither an instruction to a worker nor its output is missed or counted twice.
NothingMissed == DeliveredMeansSeen /\ CardsComplete

\* A window that has caught up shows a finished worker as finished: "Later
\* events may overlap those projections, but none can fall into a gap."
CardsSettled ==
  window.at = "follow" /\ window.cursor = Len(roomLog) =>
    \A w \in Workers :
      (\E n \in EventsOf(w) : roomLog[n].phase = "finished") => window.card[w].status \in TerminalStates
=============================================================================
