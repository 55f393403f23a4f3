---------------------------- MODULE Automations -----------------------------
(***************************************************************************)
(* One automation definition and its workflow in n8n                       *)
(* (services/automations.py, services/n8n_api.py). Every change of the      *)
(* definition is a versioned operation whose stage is written before the    *)
(* request it stands for; concurrent sync() calls move the stage on by       *)
(* compare-and-set, and an unanswered request holds the definition until n8n *)
(* is seen to have applied it. A workflow is its content, a number.          *)
(***************************************************************************)
EXTENDS Naturals, Sequences

CONSTANTS
  Syncers,          \* concurrent sync() calls
  MaxVersions,      \* bound on the versions of the definition
  MaxDrifts         \* bound on edits made directly in n8n

ASSUME AutomationAssumption == MaxVersions \in Nat \ {0} /\ MaxDrifts \in Nat

VARIABLES
  auto,             \* Automation: versions, desired and recorded state
  ops,              \* AutomationOperation of each version
  flows,            \* n8n: the workflows created, in order
  syncer,           \* sync(): what each call has read
  n8nCall,             \* the request each call waits for
  late,             \* requests nobody waits for any more
  drifts

autoVars == <<auto, ops, flows, syncer, n8nCall, late, drifts>>

Versions == 1 .. MaxVersions
Foreign == MaxVersions + 1        \* content somebody else wrote
NoFlow == [there |-> FALSE, content |-> 0, pub |-> 0]
NoOp == [action |-> "none", stage |-> "none", flow |-> 0, base |-> 0, error |-> "none"]
IdleSync == [at |-> "idle", v |-> 0, stage |-> "none", observe |-> FALSE, got |-> NoFlow]
NoRequest == [what |-> "none", content |-> 0]

\* create(): the definition and its first operation, in one transaction.
AutoInit ==
  /\ auto = [version |-> 1, content |-> 1, applied |-> 0, desired |-> TRUE, active |-> FALSE,
             status |-> "pending", bound |-> 0, deleted |-> FALSE]
  /\ ops = [v \in Versions |-> IF v = 1
              THEN [NoOp EXCEPT !.action = "create", !.stage = "pending", !.flow = 1] ELSE NoOp]
  /\ flows = <<>>
  /\ syncer = [s \in Syncers |-> IdleSync]
  /\ n8nCall = [s \in Syncers |-> NoRequest]
  /\ late = {} /\ drifts = 0

Current == ops[auto.version]

\* A mistake: an unanswered request no longer holds the definition.
EditableHeld == {"done", "pending", "prepared", "delete_ready", "creating", "updating"}

Editable == {"done", "pending", "prepared", "delete_ready"}

\* edit(): the previous operation is superseded, unless its request is open.
Edit(kind) ==
  /\ ~auto.deleted /\ auto.version < MaxVersions /\ Current.stage \in Editable
  /\ LET base == IF Current.stage \in {"prepared", "delete_ready"} THEN Current.flow
                 ELSE IF auto.applied = 0 THEN 0 ELSE ops[auto.applied].flow
         content == auto.content + (IF kind = "change" THEN 1 ELSE 0)
         action == IF kind = "remove" THEN "delete"
                   ELSE IF auto.bound = 0 THEN "create"
                   ELSE IF kind = "change" THEN "update" ELSE "toggle"
         gone == kind = "remove" /\ auto.bound = 0
     IN  /\ ops' = [ops EXCEPT
              ![auto.version].stage = IF @ = "done" THEN @ ELSE "superseded",
              ![auto.version + 1] =
                 [action |-> action, stage |-> "pending", base |-> base, error |-> "none",
                  flow |-> IF action \in {"create", "update"} THEN content ELSE base]]
         /\ auto' = [auto EXCEPT
              !.version = @ + 1, !.content = content, !.deleted = gone,
              !.active = @ /\ ~gone,
              !.desired = CASE kind = "remove" -> FALSE [] kind = "toggle" -> ~@ [] OTHER -> @,
              !.status = IF gone THEN "deleted" ELSE IF kind = "remove" THEN "deleting" ELSE "pending"]
  /\ UNCHANGED <<flows, syncer, n8nCall, late, drifts>>

(***************************************************************************)
(* sync(): read the operation, read n8n, and then move                     *)
(***************************************************************************)
Snapshot(s) ==
  /\ syncer[s].at = "idle" /\ ~auto.deleted /\ Current.stage \notin {"done", "none"}
  /\ \E observe \in BOOLEAN :
       syncer' = [syncer EXCEPT ![s] = [at |-> "read", v |-> auto.version, stage |-> Current.stage,
                                        observe |-> observe, got |-> NoFlow]]
  /\ UNCHANGED <<auto, ops, flows, n8nCall, late, drifts>>

Op(s) == ops[syncer[s].v]
Leave(s) == syncer' = [syncer EXCEPT ![s] = IdleSync]

\* get(), or named() while a create is unconfirmed; both may fail.
Look(s) ==
  /\ syncer[s].at = "read"
  /\ \/ /\ ~(syncer[s].stage = "pending" /\ Op(s).action = "create")
        /\ LET w == IF syncer[s].stage = "creating" THEN 1 ELSE auto.bound
               got == IF w \in DOMAIN flows THEN flows[w] ELSE NoFlow
           IN  syncer' = [syncer EXCEPT ![s].at = "seen", ![s].got = got]
     \/ /\ syncer[s].stage = "pending" /\ Op(s).action = "create"
        /\ syncer' = [syncer EXCEPT ![s].at = "seen"]
  /\ UNCHANGED <<auto, ops, flows, n8nCall, late, drifts>>

\* A mistake: the stage is written without comparing it.
CasBlind(s, to) == auto.version = syncer[s].v

\* claim(): the version is current and the stage is the one that was read.
Cas(s, to) == auto.version = syncer[s].v /\ Op(s).stage = syncer[s].stage

Move(s, to) ==
  ops' = IF Cas(s, to) THEN [ops EXCEPT ![syncer[s].v].stage = to, ![syncer[s].v].error = "none"]
         ELSE ops

\* claim() and, if it was won, the request.
Send(s, to, request) ==
  /\ Move(s, to)
  /\ IF Cas(s, to)
     THEN /\ n8nCall' = [n8nCall EXCEPT ![s] = request]
          /\ syncer' = [syncer EXCEPT ![s].at = "wait", ![s].stage = to]
     ELSE Leave(s) /\ UNCHANGED n8nCall
  /\ UNCHANGED <<auto, flows, late, drifts>>

Advance(s, to) == Move(s, to) /\ Leave(s) /\ UNCHANGED <<auto, flows, n8nCall, late, drifts>>

\* record(): an error holds the definition,
Held(s, why) ==
  /\ IF auto.version = syncer[s].v /\ Op(s).stage # "done"
     THEN /\ ops' = [ops EXCEPT ![syncer[s].v].error = why]
          /\ auto' = [auto EXCEPT !.status = "reconciling"]
     ELSE UNCHANGED <<ops, auto>>
  /\ Leave(s) /\ n8nCall' = [n8nCall EXCEPT ![s] = NoRequest]
  /\ UNCHANGED <<flows, late, drifts>>

\* and a confirmed operation becomes the applied one.
Done(s, active, deleted) ==
  /\ IF auto.version = syncer[s].v
     THEN /\ ops' = [ops EXCEPT ![syncer[s].v].stage = "done"]
          /\ auto' = [auto EXCEPT !.applied = auto.version, !.active = active, !.deleted = deleted,
                        !.status = IF deleted THEN "deleted" ELSE IF active THEN "active" ELSE "paused"]
     ELSE UNCHANGED <<ops, auto>>
  /\ Leave(s) /\ n8nCall' = [n8nCall EXCEPT ![s] = NoRequest]
  /\ UNCHANGED <<flows, late, drifts>>

\* record(workflow_id, stage prepared) of a create.
Bind(s) ==
  /\ IF auto.version = syncer[s].v /\ Op(s).stage = "creating"
     THEN /\ ops' = [ops EXCEPT ![syncer[s].v].stage = "prepared"]
          /\ auto' = [auto EXCEPT !.bound = 1, !.active = FALSE]
     ELSE UNCHANGED <<ops, auto>>
  /\ Leave(s) /\ n8nCall' = [n8nCall EXCEPT ![s] = NoRequest]
  /\ UNCHANGED <<flows, late, drifts>>

Published(w) == w.pub # 0 /\ w.pub = w.content
GiveWay(s) == Leave(s) /\ UNCHANGED <<auto, ops, flows, n8nCall, late, drifts>>

\* A pending operation: create, update, or go on to the publication.
FromPending(s) ==
  LET o == Op(s)
      got == syncer[s].got
  IN  /\ syncer[s].at = "seen" /\ syncer[s].stage = "pending"
      /\ IF syncer[s].observe THEN GiveWay(s)
         ELSE IF o.action = "create"
              THEN Send(s, "creating", [what |-> "create", content |-> o.flow])
         ELSE IF ~got.there
              THEN IF o.action = "delete" THEN Done(s, FALSE, TRUE) ELSE Held(s, "missing")
         ELSE IF o.action = "update"
              THEN IF got.content # o.base THEN Held(s, "drift")
                   ELSE Send(s, "updating", [what |-> "update", content |-> o.flow])
         ELSE IF o.action = "delete" /\ o.base # 0 /\ got.content # o.base THEN Held(s, "drift")
         ELSE Advance(s, "prepared")

\* An unanswered request is looked for, never repeated.
FromUncertain(s) ==
  LET o == Op(s)
      got == syncer[s].got
  IN  /\ syncer[s].at = "seen"
      /\ CASE syncer[s].stage = "creating" ->
                IF ~got.there THEN Held(s, "unknown")
                ELSE IF got.content # o.flow THEN Held(s, "drift") ELSE Bind(s)
           [] syncer[s].stage = "deleting" ->
                IF got.there THEN Held(s, "unknown") ELSE Done(s, FALSE, TRUE)
           [] syncer[s].stage = "updating" ->
                IF ~got.there THEN Held(s, "missing")
                ELSE IF got.content # o.flow THEN Held(s, "unknown") ELSE Advance(s, "prepared")
           [] syncer[s].stage \in {"activating", "deactivating"} ->
                IF ~got.there THEN Held(s, "missing")
                ELSE IF syncer[s].stage = "activating" /\ got.content # o.flow THEN Held(s, "drift")
                ELSE IF IF syncer[s].stage = "activating" THEN ~Published(got) ELSE got.pub # 0
                     THEN Held(s, "unknown")
                ELSE IF o.action = "delete" THEN Advance(s, "delete_ready")
                ELSE Done(s, got.pub # 0, FALSE)
           [] OTHER -> FALSE

\* The content is there: publish, withdraw or delete it.
FromPrepared(s) ==
  LET o == Op(s)
      got == syncer[s].got
      target == auto.desired /\ o.action # "delete"
  IN  /\ syncer[s].at = "seen" /\ syncer[s].stage \in {"prepared", "delete_ready"}
      /\ IF ~got.there THEN Held(s, "missing")
         ELSE IF o.action # "delete" /\ got.content # o.flow THEN Held(s, "drift")
         ELSE IF o.action = "delete" /\ got.pub = 0
              THEN IF o.base # 0 /\ got.content # o.base THEN Held(s, "drift")
                   ELSE IF syncer[s].observe THEN GiveWay(s)
                   ELSE Send(s, "deleting", [what |-> "delete", content |-> 0])
         ELSE IF (target /\ Published(got)) \/ (~target /\ got.pub = 0) THEN Done(s, got.pub # 0, FALSE)
         ELSE IF syncer[s].observe THEN GiveWay(s)
         ELSE IF target THEN Send(s, "activating", [what |-> "activate", content |-> got.content])
         ELSE Send(s, "deactivating", [what |-> "deactivate", content |-> 0])

(***************************************************************************)
(* n8n                                                                     *)
(***************************************************************************)
Applied(request) ==
  LET w == Len(flows)
  IN  IF request.what = "create"
      THEN Append(flows, [there |-> TRUE, content |-> request.content, pub |-> 0])
      ELSE IF w = 0 \/ ~flows[w].there THEN flows
      ELSE CASE request.what = "update" -> [flows EXCEPT ![w].content = request.content]
             [] request.what = "activate" -> [flows EXCEPT ![w].pub = request.content]
             [] request.what = "deactivate" -> [flows EXCEPT ![w].pub = 0]
             [] OTHER -> [flows EXCEPT ![w] = NoFlow]

\* The request is applied and the answer arrives,
Answered(s) ==
  /\ syncer[s].at = "wait" /\ n8nCall[s] # NoRequest
  /\ flows' = Applied(n8nCall[s])
  /\ n8nCall' = [n8nCall EXCEPT ![s] = NoRequest]
  /\ UNCHANGED <<auto, ops, syncer, late, drifts>>

\* which sync() records,
RecordAnswer(s) ==
  /\ syncer[s].at = "wait" /\ n8nCall[s] = NoRequest
  /\ CASE syncer[s].stage = "creating" -> Bind(s)
       [] syncer[s].stage = "updating" -> Advance(s, "prepared")
       [] syncer[s].stage = "deleting" -> Done(s, FALSE, TRUE)
       [] OTHER -> GiveWay(s)

\* or it is not: nobody knows whether and when the request is applied.
Unanswered(s) ==
  /\ syncer[s].at = "wait" /\ n8nCall[s] # NoRequest
  /\ Held(s, "unknown")
Outstanding(s) ==
  /\ syncer[s].at = "wait" /\ n8nCall[s] # NoRequest
  /\ late' = late \union {n8nCall[s]}
  /\ Leave(s) /\ n8nCall' = [n8nCall EXCEPT ![s] = NoRequest]
  /\ UNCHANGED <<auto, ops, flows, drifts>>
LateApplied(request) ==
  /\ request \in late
  /\ late' = late \ {request} /\ flows' = Applied(request)
  /\ UNCHANGED <<auto, ops, syncer, n8nCall, drifts>>

\* Somebody edits the workflow in n8n.
DriftFlow ==
  /\ drifts < MaxDrifts /\ drifts' = drifts + 1
  /\ \E w \in DOMAIN flows : flows[w].there /\ flows' = [flows EXCEPT ![w].content = Foreign]
  /\ UNCHANGED <<auto, ops, syncer, n8nCall, late>>

AutoNext ==
  \/ \E kind \in {"change", "toggle", "remove"} : Edit(kind)
  \/ \E s \in Syncers :
       \/ Snapshot(s) \/ Look(s) \/ FromPending(s) \/ FromUncertain(s) \/ FromPrepared(s)
       \/ Answered(s) \/ RecordAnswer(s) \/ Unanswered(s) \/ Outstanding(s)
  \/ \E request \in late : LateApplied(request)
  \/ DriftFlow

AutoSpec == AutoInit /\ [][AutoNext]_autoVars

(***************************************************************************)
(* Properties                                                              *)
(***************************************************************************)

\* Lost answers, late requests, concurrent syncs and edits never make a second
\* workflow for the definition: a create is discovered by name, not replayed.
OneWorkflow == Len(flows) <= 1

\* While nobody edits in n8n, a definition called active is published there
\* with the content of its current version, and one called paused is not
\* published at all, whatever requests are still under way.
StatusTrue ==
  drifts = 0 =>
    /\ auto.status = "active" => flows[1].pub = auto.content /\ flows[1].content = auto.content
    /\ auto.status \in {"paused", "deleted"} /\ auto.bound = 1 => flows[1].pub = 0

\* "Unexpected remote content is held": what is held as drift is content
\* that the backend did not write.
DriftIsForeign == \A v \in Versions : ops[v].error = "drift" => drifts > 0
=============================================================================
