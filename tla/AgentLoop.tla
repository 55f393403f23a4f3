------------------------------ MODULE AgentLoop ------------------------------
(***************************************************************************)
(* The agentic loop of one contribution (core/orchestrator.py _run), the   *)
(* recorded execution of its tool calls (core/registry.py) and the external *)
(* connection some tools go through (mcp/client.py, services/connections.py).*)
(*                                                                         *)
(* A contribution asks the model, executes the tools it names and asks     *)
(* again. The process may die at any await; a resumed contribution replays *)
(* the recorded answers of the model (`replies`) and meets the receipts of *)
(* its tool calls. Meanwhile the owner drops, replaces, disables or        *)
(* re-enables the connection, and its server changes the catalogue.        *)
(***************************************************************************)
EXTENDS Naturals, Sequences

CONSTANTS
  Ids,            \* identities the model gives to tool calls
  External,       \* the ones whose tool belongs to the connection
  Args,           \* arguments a call may carry
  MaxIterations,  \* MAX_TOOL_ITERATIONS
  MaxContinuations, \* continuations the loop grants
  MaxReplies,     \* bound on the answers of the model
  MaxChanges,     \* bound on changes of the connection
  MaxCrashes      \* bound on process deaths

ASSUME LoopAssumption ==
  /\ External \subseteq Ids
  /\ {MaxIterations, MaxContinuations, MaxReplies, MaxChanges, MaxCrashes} \subseteq Nat

VARIABLES
  pc,             \* where the loop is
  messages,       \* the conversation of this execution
  completed,      \* context.extra["completed_messages"]
  stored,         \* what DONE or ERROR made ChatTurns save
  todo,           \* calls of the current response not begun
  results,        \* results of the ones that are over
  iterations, continuations,
  replies,        \* answers of the model on record
  asked,          \* how many of them this execution has used
  receipt,        \* ToolExecutionReceipt by call identity
  performed,      \* effects the world has seen, by call identity
  mcp,            \* the connection: incarnation, active, admission epoch, catalogue
  pin,            \* context.extra mcp_grants, mcp_bindings, mcp_schemas
  entry,          \* incarnation and epoch when call_tool was entered
  changes, crashes

loopVars == <<pc, messages, completed, stored, todo, results, iterations, continuations,
  replies, asked, receipt, performed, mcp, pin, entry, changes, crashes>>

Calls == [id : Ids, arg : Args]
NoReceipt == [status |-> "none", arg |-> 0]
Unpinned == [inc |-> 0, gen |-> 0]
NoRegistryEntry == [inc |-> 0, epoch |-> 0]
AssistantEntry(calls) == [role |-> "assistant", calls |-> calls]
UserEntry(ids) == [role |-> "user", calls |-> ids]
IdsOf(calls) == [i \in DOMAIN calls |-> calls[i].id]

\* The answers a provider can give: text, one or two calls, a cut-off answer
\* (with or without a fragment of a call), a pause, or something unsupported.
Answers ==
  [stop : {"end_turn", "max_tokens", "fragment", "pause_turn", "other"}, calls : {<<>>}]
    \cup [stop : {"tool_use"}, calls : {<<c>> : c \in Calls} \cup (Calls \X Calls)]

LoopInit ==
  /\ pc = "admit"
  /\ messages = <<>> /\ completed = <<>> /\ stored = <<>>
  /\ todo = <<>> /\ results = <<>>
  /\ iterations = 0 /\ continuations = 0
  /\ replies = <<>> /\ asked = 0
  /\ receipt = [i \in Ids |-> NoReceipt]
  /\ performed = [i \in Ids |-> 0]
  /\ mcp \in [inc : {0, 1}, active : {TRUE}, epoch : {0}, gen : {1}]
  /\ pin = Unpinned /\ entry = NoRegistryEntry
  /\ changes = 0 /\ crashes = 0

\* A mistake for the tests of this model: the latest connection is pinned.
PinnedLatest == IF mcp.inc # 0 /\ mcp.active
                THEN [inc |-> mcp.inc, gen |-> mcp.gen] ELSE pin

\* _mcp_allowed() pins the grants the first time it gets past its early returns.
Pinned == IF pin = Unpinned /\ mcp.inc # 0 /\ mcp.active
          THEN [inc |-> mcp.inc, gen |-> mcp.gen] ELSE pin

Allowed(id) ==
  id \in External => mcp.inc # 0 /\ mcp.active /\ Pinned.inc = mcp.inc

\* validate_call() compares the pinned schema with the registered one.
Valid(id) == Allowed(id) /\ (id \in External => Pinned.gen = mcp.gen)

\* ERROR and DONE end the loop; ChatTurns.stream saves completed_messages.
Ends(how, history) ==
  /\ pc' = how
  /\ completed' = history
  /\ stored' = history

\* admit(), the system prompt and the first discovery of tools.
AdmitTurn ==
  /\ pc = "admit"
  /\ pc' = "head"
  /\ pin' = Pinned
  /\ UNCHANGED <<messages, completed, stored, todo, results, iterations, continuations,
       replies, asked, receipt, performed, mcp, entry, changes, crashes>>

SafetyGuard ==
  /\ pc = "head"
  /\ iterations >= MaxIterations
  /\ Ends("error", completed)
  /\ UNCHANGED <<messages, todo, results, iterations, continuations, replies, asked,
       receipt, performed, mcp, pin, entry, changes, crashes>>

\* One model call: the recorded answer when there is one, else a new one.
CallModel ==
  /\ pc = "head"
  /\ iterations < MaxIterations
  /\ pin' = Pinned
  /\ \E r \in Answers :
       /\ IF asked < Len(replies)
          THEN r = replies[asked + 1] /\ UNCHANGED replies
          ELSE Len(replies) < MaxReplies /\ replies' = Append(replies, r)
       /\ asked' = asked + 1
       /\ messages' = Append(messages, AssistantEntry(IdsOf(r.calls)))
       /\ todo' = r.calls
       /\ pc' = r.stop
  /\ UNCHANGED <<completed, stored, results, iterations, continuations, receipt,
       performed, mcp, entry, changes, crashes>>

ModelFails ==
  /\ pc = "head"
  /\ iterations < MaxIterations
  /\ asked = Len(replies)
  /\ Ends("error", completed)
  /\ pin' = Pinned
  /\ UNCHANGED <<messages, todo, results, iterations, continuations, replies, asked,
       receipt, performed, mcp, entry, changes, crashes>>

EndLoop ==
  /\ pc = "end_turn"
  /\ Ends("done", messages)
  /\ UNCHANGED <<messages, todo, results, iterations, continuations, replies, asked,
       receipt, performed, mcp, pin, entry, changes, crashes>>

\* max_tokens and pause_turn share the allowance; a cut-off call cannot run.
Continue ==
  /\ pc \in {"max_tokens", "pause_turn", "fragment"}
  /\ continuations' = continuations + 1
  /\ IF continuations' > MaxContinuations \/ pc = "fragment"
     THEN Ends("error", completed) /\ UNCHANGED messages
     ELSE /\ pc' = "head"
          /\ messages' = Append(messages, UserEntry(<<>>))
          /\ UNCHANGED <<completed, stored>>
  /\ UNCHANGED <<todo, results, iterations, replies, asked, receipt, performed, mcp, pin,
       entry, changes, crashes>>

UnknownStop ==
  /\ pc = "other"
  /\ Ends("error", completed)
  /\ UNCHANGED <<messages, todo, results, iterations, continuations, replies, asked,
       receipt, performed, mcp, pin, entry, changes, crashes>>

\* tool_use: every call is validated before the first one runs.
ToolUse ==
  /\ pc = "tool_use"
  /\ iterations' = iterations + 1
  /\ pin' = Pinned
  /\ IF \A i \in DOMAIN todo : Valid(todo[i].id)
     THEN pc' = "tool" /\ UNCHANGED <<completed, stored>>
     ELSE Ends("error", completed)
  /\ UNCHANGED <<messages, todo, results, continuations, replies, asked, receipt,
       performed, mcp, entry, changes, crashes>>

\* A mistake: the history stays at the last complete exchange.
FailedForgotten == UNCHANGED messages /\ Ends("error", completed)

\* The except branch closes every pair: the failed call, then the ones not run.
Failed ==
  LET closed == Append(messages, UserEntry(results \o IdsOf(todo)))
  IN messages' = closed /\ Ends("error", closed)

\* A mistake: the receipts are not read before one is written.
RecordAgain(c) ==
  /\ receipt' = [receipt EXCEPT ![c.id] = [status |-> "started", arg |-> c.arg]]
  /\ pc' = "execute"
  /\ UNCHANGED <<messages, completed, stored, results, todo>>

\* execute_recorded(): the receipt comes before the effect. A completed receipt
\* gives its result again, any other one is an unknown outcome.
Record(c) ==
  /\ receipt[c.id].status = "none"
  /\ receipt' = [receipt EXCEPT ![c.id] = [status |-> "started", arg |-> c.arg]]
  /\ pc' = "execute"
  /\ UNCHANGED <<messages, completed, stored, results, todo>>

Reuse(c) ==
  /\ receipt[c.id] = [status |-> "completed", arg |-> c.arg]
  /\ pc' = "tool"
  /\ results' = Append(results, c.id)
  /\ todo' = Tail(todo)
  /\ UNCHANGED <<messages, completed, stored, receipt>>

Conflict(c) ==
  /\ receipt[c.id].status # "none"
  /\ receipt[c.id] # [status |-> "completed", arg |-> c.arg]
  /\ Failed
  /\ UNCHANGED <<receipt, results, todo>>

Unauthorized(c) ==
  /\ ~Valid(c.id)
  /\ Failed
  /\ UNCHANGED <<receipt, results, todo>>

BeginTool ==
  /\ pc = "tool" /\ todo # <<>>
  /\ pin' = Pinned
  /\ LET c == Head(todo)
     IN IF Valid(c.id) THEN Record(c) \/ Reuse(c) \/ Conflict(c) ELSE Unauthorized(c)
  /\ UNCHANGED <<iterations, continuations, replies, asked, performed, mcp, entry, changes, crashes>>

\* execute(): the capability must still be listed; a tool of the connection
\* enters call_tool() and waits for one of its slots.
Execute ==
  /\ pc = "execute"
  /\ pin' = Pinned
  /\ IF Allowed(Head(todo).id)
     THEN /\ pc' = "dispatch"
          /\ entry' = [inc |-> mcp.inc, epoch |-> mcp.epoch]
          /\ UNCHANGED <<messages, completed, stored>>
     ELSE Failed /\ UNCHANGED entry
  /\ UNCHANGED <<todo, results, iterations, continuations, replies, asked, receipt,
       performed, mcp, changes, crashes>>

\* A mistake: only the schema is compared after the wait.
AdmittedBySchema(id) ==
  id \in External => /\ mcp.inc # 0
                     /\ mcp.gen = pin.gen

\* ensure_admitted() after the slot, then the schema this turn has seen.
Admitted(id) ==
  id \in External => /\ mcp.inc = entry.inc /\ mcp.active /\ mcp.epoch = entry.epoch
                     /\ mcp.gen = pin.gen

\* The effect happens; its answer may be lost (timeout, broken transport).
Dispatch ==
  /\ pc = "dispatch"
  /\ LET id == Head(todo).id
     IN IF Admitted(id)
        THEN /\ performed' = [performed EXCEPT ![id] = @ + 1]
             /\ \/ pc' = "record" /\ UNCHANGED <<messages, completed, stored>>
                \/ Failed
        ELSE Failed /\ UNCHANGED performed
  /\ UNCHANGED <<todo, results, iterations, continuations, replies, asked, receipt, mcp, pin,
       entry, changes, crashes>>

\* The skill fails before it did anything.
ToolFails ==
  /\ pc = "dispatch"
  /\ Failed
  /\ UNCHANGED <<todo, results, iterations, continuations, replies, asked, receipt, performed,
       mcp, pin, entry, changes, crashes>>

Complete ==
  /\ pc = "record"
  /\ receipt' = [receipt EXCEPT ![Head(todo).id].status = "completed"]
  /\ results' = Append(results, Head(todo).id)
  /\ todo' = Tail(todo)
  /\ pc' = "tool"
  /\ UNCHANGED <<messages, completed, stored, iterations, continuations, replies, asked,
       performed, mcp, pin, entry, changes, crashes>>

ResultsIn ==
  /\ pc = "tool" /\ todo = <<>>
  /\ messages' = Append(messages, UserEntry(results))
  /\ completed' = messages'
  /\ results' = <<>>
  /\ pc' = "head"
  /\ UNCHANGED <<stored, todo, iterations, continuations, replies, asked, receipt, performed,
       mcp, pin, entry, changes, crashes>>

\* The process dies; what was in memory is gone.
LoopCrash ==
  /\ pc \notin {"done", "error", "dead"}
  /\ crashes < MaxCrashes
  /\ crashes' = crashes + 1
  /\ pc' = "dead"
  /\ messages' = <<>> /\ completed' = <<>> /\ todo' = <<>> /\ results' = <<>>
  /\ UNCHANGED <<stored, iterations, continuations, replies, asked, receipt, performed, mcp,
       pin, entry, changes>>

\* resume() refuses while a receipt is open; a resumed contribution starts over.
LoopResume ==
  /\ pc = "dead"
  /\ \A i \in Ids : receipt[i].status # "started"
  /\ pc' = "admit"
  /\ asked' = 0 /\ iterations' = 0 /\ continuations' = 0
  /\ pin' = Unpinned /\ entry' = NoRegistryEntry
  /\ UNCHANGED <<messages, completed, stored, todo, results, replies, receipt, performed,
       mcp, changes, crashes>>

\* drop_mcp_server(): revoked at once, before the transport closes.
DropServer ==
  /\ mcp.inc # 0
  /\ mcp' = [mcp EXCEPT !.inc = 0, !.epoch = @ + 1]

\* activate(): a new client under a new incarnation.
RegisterServer ==
  /\ mcp.inc = 0
  /\ mcp' = [mcp EXCEPT !.inc = changes + 2, !.active = TRUE]

\* toggle(): the same client under a new admission epoch.
ToggleServer ==
  /\ mcp.inc # 0
  /\ mcp' = [mcp EXCEPT !.active = ~@, !.epoch = @ + 1]

\* refresh_tools() found another catalogue.
RefreshTools ==
  /\ mcp.inc # 0
  /\ mcp' = [mcp EXCEPT !.gen = @ + 1]

ChangeConnection ==
  /\ changes < MaxChanges
  /\ changes' = changes + 1
  /\ DropServer \/ RegisterServer \/ ToggleServer \/ RefreshTools
  /\ UNCHANGED <<pc, messages, completed, stored, todo, results, iterations, continuations,
       replies, asked, receipt, performed, pin, entry, crashes>>

LoopNext ==
  \/ AdmitTurn \/ SafetyGuard \/ CallModel \/ ModelFails \/ EndLoop \/ Continue \/ UnknownStop
  \/ ToolUse \/ BeginTool \/ Execute \/ Dispatch \/ ToolFails \/ Complete \/ ResultsIn
  \/ LoopCrash \/ LoopResume \/ ChangeConnection

LoopSpec == LoopInit /\ [][LoopNext]_loopVars

(***************************************************************************)
(* Properties                                                              *)
(***************************************************************************)

\* The receipt of a call, read as the state of an effect: a receipt that is
\* still open when its execution is over is an unknown outcome.
EffectState(i) ==
  CASE receipt[i].status = "none" -> "new"
    [] receipt[i].status = "completed" -> "confirmed"
    [] OTHER -> "admitted"

ToolEffect == INSTANCE EffectOnce WITH
  Op <- Ids, state <- [i \in Ids |-> EffectState(i)], times <- performed

\* execute_recorded() executes at most once: through crashes, resumption with
\* replayed answers and identities the model repeats, the receipts implement
\* EffectOnce.
ToolEffects == ToolEffect!EffectSpec

\* What a turn saves is a well-formed history in which every finished action can
\* be seen: each answer with calls is followed by the results of exactly those
\* calls, and when the process did not die every call that completed is among
\* them (the promise of _run's except branch), even when a later call, a
\* continuation or the model failed.
HistoryHonest ==
  /\ \A n \in DOMAIN stored : stored[n].role = "assistant" /\ stored[n].calls # <<>> =>
       n < Len(stored) /\ stored[n + 1] = UserEntry(stored[n].calls)
  /\ pc \in {"done", "error"} /\ crashes = 0 =>
       \A n \in 1..asked : \A j \in DOMAIN replies[n].calls :
         receipt[replies[n].calls[j].id].status = "completed"
           => \E k \in DOMAIN stored : \E l \in DOMAIN stored[k].calls :
                stored[k].role = "user" /\ stored[k].calls[l] = replies[n].calls[j].id

\* What a turn may do outside never grows: the connection it pinned stays the
\* pinned one, and an external effect happens only under that connection and its
\* catalogue, and only if the owner did not disable or replace the connection
\* while the call waited for a slot.
PinnedAuthority ==
  [][/\ pin # Unpinned /\ pc' # "admit" => pin' = pin
     /\ \A i \in External : performed'[i] # performed[i] =>
          /\ mcp.inc = pin.inc /\ mcp.gen = pin.gen
          /\ mcp.active /\ mcp.epoch = entry.epoch]_loopVars

\* What registry.py says of the pinning: a connection that was not there when
\* the turn discovered its tools does not extend the turn's authority.
NoLateAuthority ==
  [][pc # "admit" => pin' = pin \/ pc' = "admit"]_loopVars
=============================================================================
