----------------------------- MODULE TurnsProofs -----------------------------
(***************************************************************************)
(* Proofs about one turn's loop, for any identities, answers and changes of *)
(* the connection (AgentLoop), about the owner's configuration, for any    *)
(* saves, restarts and repetitions (Configuration), about the loop of an   *)
(* agent of FORGE, for any prompts, tools, limits and typing (Warden), and *)
(* about one conversation of the owner's clients, for any requests, edits, *)
(* contributions and restarts (Conversations).                             *)
(***************************************************************************)
EXTENDS AgentLoop, Configuration, Warden, Conversations, FiniteSetTheorems, TLAPS

-----------------------------------------------------------------------------
(* Configuration. *)

Files == [revision : Nat, receipts : Seq(Saves), restarts : [Restarts -> [rev : Nat, inst : Nat]]]

ConfigTyped ==
  /\ file \in Files /\ instance \in Nat \ {0}
  /\ applied \in [Saves -> Nat] /\ caused \in [Restarts -> Nat]
  /\ base \in [Saves \cup Restarts -> Nat]

\* A save that was applied was made from a revision that is gone for good, and
\* its client composes no other one under its identity.
SavesStale == \A q \in Saves : applied[q] <= 1 /\ (applied[q] = 1 => base[q] < file.revision)

\* Every revision before the current one is in the history.
HistoryKept == \A v \in 1 .. (file.revision - 1) : v \in backups

\* A restart that was carried out was accepted by an instance that is gone; the
\* one this instance will carry out names it and has not been carried out.
RestartsStale ==
  /\ \A r \in Restarts :
       /\ caused[r] <= 1 /\ file.restarts[r].inst <= instance
       /\ caused[r] = 1 => file.restarts[r].inst # 0 /\ file.restarts[r].inst < instance
  /\ requested => lastCause \in Restarts /\ file.restarts[lastCause].inst = instance

ConfigInv == ConfigTyped /\ SavesStale /\ HistoryKept /\ RestartsStale

LEMMA ConfigStarts == ConfigInit => ConfigInv
<1> SUFFICES ASSUME ConfigInit PROVE ConfigInv
  OBVIOUS
<1>1. /\ file.revision = 0 /\ file.receipts = <<>> /\ file.restarts = [r \in Restarts |-> [rev |-> 0, inst |-> 0]]
      /\ file \in Files
  BY DEF ConfigInit, Files
<1>2. /\ applied = [q \in Saves |-> 0] /\ caused = [r \in Restarts |-> 0] /\ instance = 1 /\ requested = FALSE
      /\ base = [q \in Saves \cup Restarts |-> 0]
  BY DEF ConfigInit
<1>3. ConfigTyped
  BY <1>1, <1>2 DEF ConfigTyped
<1>4. SavesStale /\ RestartsStale
  BY <1>1, <1>2 DEF SavesStale, RestartsStale
<1>5. HistoryKept
  BY <1>1 DEF HistoryKept
<1> QED BY <1>3, <1>4, <1>5 DEF ConfigInv

LEMMA SaveConfigKeeps == ASSUME ConfigInv, NEW q \in Saves, SaveConfig(q) PROVE ConfigInv'
<1>1. file'.revision = file.revision + 1 /\ file'.restarts = file.restarts /\ file' \in Files
  <2>1. PICK kept \in Seq(Saves) : kept = IF Len(file.receipts) >= KeptReceipts THEN Tail(file.receipts) ELSE file.receipts
    <3>1. PICK known \in Seq(Saves) : known = file.receipts
      BY DEF ConfigInv, ConfigTyped, Files
    <3>2. Len(known) >= KeptReceipts => known # <<>>
      BY ConfigAssumption
    <3>3. Len(known) >= KeptReceipts => Tail(known) \in Seq(Saves)
      BY <3>2
    <3> QED BY <3>1, <3>3
  <2>2. file' = [file EXCEPT !.revision = file.revision + 1, !.receipts = Append(kept, q)]
    BY <2>1 DEF SaveConfig, Write
  <2>3. Append(kept, q) \in Seq(Saves)
    OBVIOUS
  <2>4. file \in Files /\ file.revision + 1 \in Nat
    BY DEF ConfigInv, ConfigTyped, Files
  <2> DEFINE known == Append(kept, q)
             next == file.revision + 1
  <2>5. file' = [file EXCEPT !.revision = next, !.receipts = known] /\ known \in Seq(Saves) /\ next \in Nat
    BY <2>2, <2>3, <2>4
  <2> HIDE DEF known
  <2> QED BY <2>4, <2>5 DEF Files
<1>2. /\ file.revision = base[q] /\ applied' = [applied EXCEPT ![q] = @ + 1]
      /\ backups' = IF file.revision > 0 THEN backups \cup {file.revision} ELSE backups
      /\ UNCHANGED <<base, instance, requested, caused, lastCause>>
  BY DEF SaveConfig, Fresh
<1>3. applied[q] = 0 /\ file.revision \in Nat
  BY <1>2 DEF Files, ConfigInv, ConfigTyped, SavesStale
<1>4. ConfigTyped'
  BY <1>1, <1>2 DEF ConfigInv, ConfigTyped
<1>5. SavesStale'
  BY <1>1, <1>2, <1>3 DEF ConfigInv, ConfigTyped, SavesStale
<1>6. HistoryKept'
  BY <1>1, <1>2 DEF ConfigInv, ConfigTyped, HistoryKept
<1>7. RestartsStale'
  BY <1>1, <1>2 DEF ConfigInv, RestartsStale
<1> QED BY <1>4, <1>5, <1>6, <1>7 DEF ConfigInv

LEMMA AcceptRestartKeeps == ASSUME ConfigInv, NEW r \in Restarts, AcceptRestart(r) PROVE ConfigInv'
<1>1. /\ requested' = (requested \/ file'.restarts[r].inst = instance)
      /\ lastCause' = IF file'.restarts[r].inst = instance THEN r ELSE lastCause
      /\ UNCHANGED <<backups, applied, base, instance, caused>>
  BY DEF AcceptRestart
<1>2. CASE file.restarts[r].inst = 0
  <2>1. /\ file'.revision = file.revision /\ file' \in Files
        /\ file'.restarts[r].inst = instance /\ \A s \in Restarts \ {r} : file'.restarts[s] = file.restarts[s]
    <3> DEFINE noted == [file.restarts EXCEPT ![r] = [rev |-> file.revision, inst |-> instance]]
    <3>1. file' = [file EXCEPT !.restarts[r] = [rev |-> file.revision, inst |-> instance]]
      BY <1>2 DEF AcceptRestart, Write
    <3>2. file' = [file EXCEPT !.restarts = noted]
      BY <3>1 DEF ConfigInv, ConfigTyped, Files
    <3>3. noted \in [Restarts -> [rev : Nat, inst : Nat]] /\ noted[r].inst = instance
          /\ \A s \in Restarts \ {r} : noted[s] = file.restarts[s]
      BY DEF ConfigInv, ConfigTyped, Files
    <3> HIDE DEF noted
    <3> QED BY <3>2, <3>3 DEF ConfigInv, ConfigTyped, Files
  <2>2. ConfigTyped'
    BY <1>1, <2>1 DEF ConfigInv, ConfigTyped
  <2>3. RestartsStale'
    BY <1>1, <1>2, <2>1 DEF ConfigInv, ConfigTyped, RestartsStale
  <2> QED BY <1>1, <2>1, <2>2, <2>3 DEF ConfigInv, SavesStale, HistoryKept
<1>3. CASE file.restarts[r].inst # 0
  <2>1. UNCHANGED file
    BY <1>3 DEF AcceptRestart
  <2> QED BY <1>1, <2>1 DEF ConfigInv, ConfigTyped, SavesStale, HistoryKept, RestartsStale
<1> QED BY <1>2, <1>3

\* A repeated save or restart finds its own traces, whatever came in between.
LEMMA ConfigGoesOn == ConfigInv /\ [ConfigNext]_configVars => ConfigInv'
<1> SUFFICES ASSUME ConfigInv, [ConfigNext]_configVars PROVE ConfigInv'
  OBVIOUS
<1>1. ASSUME NEW q \in Saves \cup Restarts, Reload(q) PROVE ConfigInv'
  <2>1. /\ base' = [base EXCEPT ![q] = file.revision] /\ (q \in Saves => applied[q] = 0)
        /\ UNCHANGED <<file, backups, applied, instance, requested, caused, lastCause>>
    BY <1>1 DEF Reload
  <2>2. ConfigTyped'
    <3>1. file.revision \in Nat
      BY DEF ConfigInv, ConfigTyped, Files
    <3> QED BY <2>1, <3>1 DEF ConfigInv, ConfigTyped
  <2>3. SavesStale'
    BY <2>1 DEF ConfigInv, ConfigTyped, SavesStale
  <2>4. HistoryKept' /\ RestartsStale'
    BY <2>1 DEF ConfigInv, HistoryKept, RestartsStale
  <2> QED BY <2>2, <2>3, <2>4 DEF ConfigInv
<1>2. CASE Supervise
  <2>1. /\ lastCause \in Restarts /\ file.restarts[lastCause].inst = instance /\ caused[lastCause] = 0
        /\ caused' = [caused EXCEPT ![lastCause] = @ + 1] /\ instance' = instance + 1 /\ requested' = FALSE
        /\ UNCHANGED <<file, backups, applied, base>>
    BY <1>2 DEF Supervise, ConfigInv, ConfigTyped, RestartsStale
  <2>2. \A r \in Restarts : file.restarts[r].inst \in Nat
    BY DEF ConfigInv, ConfigTyped, Files
  <2>3. RestartsStale'
    BY <2>1, <2>2 DEF ConfigInv, ConfigTyped, RestartsStale
  <2>4. ConfigTyped'
    BY <2>1 DEF ConfigInv, ConfigTyped
  <2>5. SavesStale' /\ HistoryKept'
    BY <2>1 DEF ConfigInv, SavesStale, HistoryKept
  <2> QED BY <2>3, <2>4, <2>5 DEF ConfigInv
<1>3. CASE InstanceDies
  <2>1. \A r \in Restarts : file.restarts[r].inst \in Nat
    BY DEF ConfigInv, ConfigTyped, Files
  <2>2. ConfigTyped'
    BY <1>3 DEF InstanceDies, ConfigInv, ConfigTyped
  <2>3. RestartsStale'
    BY <1>3, <2>1 DEF InstanceDies, ConfigInv, ConfigTyped, RestartsStale
  <2>4. SavesStale' /\ HistoryKept'
    BY <1>3 DEF InstanceDies, ConfigInv, SavesStale, HistoryKept
  <2> QED BY <2>2, <2>3, <2>4 DEF ConfigInv
<1>4. CASE UNCHANGED configVars
  BY <1>4 DEF configVars, ConfigInv, ConfigTyped, SavesStale, HistoryKept, RestartsStale
<1> QED BY <1>1, <1>2, <1>3, <1>4, SaveConfigKeeps, AcceptRestartKeeps DEF ConfigNext

\* config_store.py, backend_restart.py: however often and to whichever instance
\* a save or a restart is repeated, it takes effect at most once, although the
\* store forgets the identities of older saves; every replaced revision is kept.
THEOREM ConfiguresOnce == ConfigSpec => []ConfiguredOnce
<1>1. ConfigInv => ConfiguredOnce
  BY DEF ConfigInv, SavesStale, HistoryKept, RestartsStale, ConfiguredOnce, SavedOnce, RestartedOnce
<1> QED BY <1>1, ConfigStarts, ConfigGoesOn, PTL DEF ConfigSpec
-----------------------------------------------------------------------------
(* The tool loop: what it remembers of its calls. *)

Stops == {"end_turn", "max_tokens", "fragment", "pause_turn", "other", "tool_use"}
Receipts == [status : {"none", "started", "completed"}, arg : Args \cup {0}]

LoopTyped ==
  /\ pc \in Stops \cup {"admit", "head", "tool", "execute", "dispatch", "record", "done", "error", "dead"}
  /\ todo \in Seq(Calls) /\ replies \in Seq(Answers)
  /\ asked \in Nat /\ asked <= Len(replies) /\ crashes \in Nat
  /\ receipt \in [Ids -> Receipts] /\ performed \in [Ids -> Nat]

\* The receipt runs ahead of the effect and never behind it; the call the loop
\* is executing is the one whose receipt is open.
ReceiptsAhead ==
  /\ \A i \in Ids :
       /\ receipt[i].status = "none" => performed[i] = 0
       /\ receipt[i].status = "completed" => performed[i] = 1
  /\ pc \in {"execute", "dispatch", "record"} =>
       /\ todo # <<>> /\ receipt[Head(todo).id].status = "started"
       /\ performed[Head(todo).id] = IF pc = "record" THEN 1 ELSE 0

\* A waiting call of the connection was admitted under the pinned incarnation.
EnteredPinned ==
  pc = "dispatch" /\ todo # <<>> /\ Head(todo).id \in External => entry.inc = pin.inc

LoopInv == LoopTyped /\ ReceiptsAhead

\* What an answer of the model can carry.
LEMMA AnswerShape ==
  ASSUME NEW r \in Answers
  PROVE  r.stop \in Stops /\ r.calls \in Seq(Calls) /\ (r.stop # "tool_use" => r.calls = <<>>)
<1>1. CASE r \in [stop : {"end_turn", "max_tokens", "fragment", "pause_turn", "other"}, calls : {<<>>}]
  <2>1. r.stop \in {"end_turn", "max_tokens", "fragment", "pause_turn", "other"} /\ r.calls = <<>>
    BY <1>1
  <2>2. <<>> \in Seq(Calls)
    OBVIOUS
  <2> QED BY <2>1, <2>2 DEF Stops
<1>2. CASE r \in [stop : {"tool_use"}, calls : {<<c>> : c \in Calls} \cup (Calls \X Calls)]
  <2>1. r.stop = "tool_use" /\ r.calls \in {<<c>> : c \in Calls} \cup (Calls \X Calls)
    BY <1>2
  <2>2. ASSUME NEW c \in Calls, r.calls = <<c>> PROVE r.calls \in Seq(Calls)
    BY <2>2
  <2>3. ASSUME NEW c \in Calls, NEW d \in Calls, r.calls = <<c, d>> PROVE r.calls \in Seq(Calls)
    BY <2>3
  <2> QED BY <2>1, <2>2, <2>3 DEF Stops
<1> QED BY <1>1, <1>2 DEF Answers

\* The first of the calls still to be done.
LEMMA NextCall ==
  ASSUME LoopTyped, todo # <<>>
  PROVE  /\ Head(todo) \in Calls /\ Head(todo).id \in Ids /\ Head(todo).arg \in Args
         /\ Tail(todo) \in Seq(Calls) /\ Len(todo) \in Nat /\ Len(todo) >= 1
<1>1. Head(todo) \in Calls /\ Tail(todo) \in Seq(Calls) /\ Len(todo) \in Nat /\ Len(todo) >= 1
  BY DEF LoopTyped
<1> QED BY <1>1 DEF Calls

LEMMA LoopStarts == LoopInit => LoopInv
BY DEF LoopInit, LoopInv, LoopTyped, ReceiptsAhead, NoReceipt, Receipts, Stops

LEMMA CallModelKeeps == ASSUME LoopInv, CallModel PROVE LoopInv'
<1>1. PICK r \in Answers :
        /\ IF asked < Len(replies)
           THEN r = replies[asked + 1] /\ UNCHANGED replies
           ELSE Len(replies) < MaxReplies /\ replies' = Append(replies, r)
        /\ asked' = asked + 1 /\ todo' = r.calls /\ pc' = r.stop
  BY DEF CallModel
<1>2. replies' \in Seq(Answers) /\ asked' \in Nat /\ asked' <= Len(replies')
  <2>1. replies \in Seq(Answers) /\ asked \in Nat /\ asked <= Len(replies) /\ Len(replies) \in Nat
    BY DEF LoopInv, LoopTyped
  <2>2. CASE asked < Len(replies)
    BY <1>1, <2>1, <2>2
  <2>3. CASE ~(asked < Len(replies))
    <3>1. replies' = Append(replies, r)
      BY <1>1, <2>3
    <3>2. Append(replies, r) \in Seq(Answers) /\ Len(Append(replies, r)) = Len(replies) + 1
      BY <2>1
    <3> QED BY <1>1, <2>1, <3>1, <3>2
  <2> QED BY <2>2, <2>3
<1>3. pc' \in Stops /\ todo' \in Seq(Calls) /\ UNCHANGED <<receipt, performed, crashes>>
  BY <1>1, AnswerShape DEF CallModel
<1> QED BY <1>2, <1>3 DEF LoopInv, LoopTyped, ReceiptsAhead, Stops

LEMMA BeginToolKeeps == ASSUME LoopInv, BeginTool PROVE LoopInv'
<1>1. PICK c \in Calls : c = Head(todo) /\ c.id \in Ids /\ c.arg \in Args
  BY NextCall DEF BeginTool, LoopInv
<1>2. UNCHANGED <<replies, asked, performed, crashes>> /\ todo # <<>> /\ pc = "tool"
  BY DEF BeginTool
<1>3. Tail(todo) \in Seq(Calls)
  BY <1>2, NextCall DEF LoopInv
<1>4. CASE Record(c)
  <2>1. receipt' \in [Ids -> Receipts] /\ receipt'[c.id].status = "started"
        /\ \A i \in Ids \ {c.id} : receipt'[i] = receipt[i]
    BY <1>1, <1>4 DEF Record, LoopInv, LoopTyped, Receipts
  <2>2. pc' = "execute" /\ UNCHANGED todo /\ performed[c.id] = 0
    BY <1>1, <1>4 DEF Record, LoopInv, ReceiptsAhead
  <2> QED BY <1>1, <1>2, <2>1, <2>2 DEF LoopInv, LoopTyped, ReceiptsAhead
<1>5. CASE Reuse(c)
  <2>1. UNCHANGED receipt /\ pc' = "tool" /\ todo' \in Seq(Calls)
    BY <1>3, <1>5 DEF Reuse
  <2> QED BY <1>2, <2>1 DEF LoopInv, LoopTyped, ReceiptsAhead
<1>6. CASE Conflict(c) \/ Unauthorized(c)
  <2>1. UNCHANGED <<receipt, todo>> /\ pc' = "error"
    BY <1>6 DEF Conflict, Unauthorized, Failed, Ends
  <2> QED BY <1>2, <2>1 DEF LoopInv, LoopTyped, ReceiptsAhead
<1> QED BY <1>1, <1>4, <1>5, <1>6 DEF BeginTool

LEMMA DispatchKeeps == ASSUME LoopInv, Dispatch PROVE LoopInv'
<1>1. PICK i \in Ids : i = Head(todo).id
  BY NextCall DEF Dispatch, LoopInv, ReceiptsAhead
<1>2. /\ todo # <<>> /\ receipt[i].status = "started" /\ performed[i] = 0
      /\ UNCHANGED <<todo, receipt, replies, asked, crashes>>
  BY <1>1 DEF Dispatch, LoopInv, ReceiptsAhead
<1>3. \/ performed' = [performed EXCEPT ![i] = @ + 1] /\ pc' \in {"record", "error"}
      \/ UNCHANGED performed /\ pc' = "error"
  BY <1>1 DEF Dispatch, Failed, Ends
<1> QED BY SMTT(60), <1>1, <1>2, <1>3 DEF LoopInv, LoopTyped, ReceiptsAhead

LEMMA CompleteKeeps == ASSUME LoopInv, Complete PROVE LoopInv'
<1>1. PICK i \in Ids : i = Head(todo).id
  BY NextCall DEF Complete, LoopInv, ReceiptsAhead
<1>2. /\ receipt[i].status = "started" /\ performed[i] = 1 /\ todo' \in Seq(Calls) /\ pc' = "tool"
      /\ UNCHANGED <<performed, replies, asked, crashes>>
  BY <1>1, NextCall DEF Complete, LoopInv, ReceiptsAhead
<1>3. receipt' \in [Ids -> Receipts] /\ receipt'[i].status = "completed"
      /\ \A j \in Ids \ {i} : receipt'[j] = receipt[j]
  BY <1>1 DEF Complete, LoopInv, LoopTyped, Receipts
<1> QED BY <1>1, <1>2, <1>3 DEF LoopInv, LoopTyped, ReceiptsAhead

LEMMA LoopGoesOn == LoopInv /\ [LoopNext]_loopVars => LoopInv'
<1> SUFFICES ASSUME LoopInv, [LoopNext]_loopVars PROVE LoopInv'
  OBVIOUS
<1>1. CASE \/ AdmitTurn \/ SafetyGuard \/ ModelFails \/ EndLoop \/ Continue \/ UnknownStop \/ ToolUse
           \/ ToolFails \/ ResultsIn \/ ChangeConnection \/ UNCHANGED loopVars
  <2>1. /\ UNCHANGED <<todo, replies, asked, receipt, performed, crashes>>
        /\ pc' \in {"head", "error", "done", "tool"} \/ UNCHANGED pc
    BY <1>1 DEF AdmitTurn, SafetyGuard, ModelFails, EndLoop, Continue, UnknownStop, ToolUse, ToolFails,
                ResultsIn, ChangeConnection, Failed, Ends, loopVars
  <2> QED BY <2>1 DEF LoopInv, LoopTyped, ReceiptsAhead
<1>2. CASE Execute
  <2>1. /\ UNCHANGED <<todo, replies, asked, receipt, performed, crashes>>
        /\ pc = "execute" /\ pc' \in {"dispatch", "error"}
    BY <1>2 DEF Execute, Failed, Ends
  <2> QED BY <2>1 DEF LoopInv, LoopTyped, ReceiptsAhead
<1>3. CASE LoopCrash
  BY <1>3 DEF LoopCrash, LoopInv, LoopTyped, ReceiptsAhead
<1>4. CASE LoopResume
  BY <1>4 DEF LoopResume, LoopInv, LoopTyped, ReceiptsAhead
<1> QED BY <1>1, <1>2, <1>3, <1>4, CallModelKeeps, BeginToolKeeps, DispatchKeeps, CompleteKeeps DEF LoopNext

\* registry.py: in every reachable state receipts and effects agree.
THEOREM LoopShape == LoopSpec => []LoopInv
BY LoopStarts, LoopGoesOn, PTL DEF LoopSpec

\* Each step admits, performs or confirms one call, or is none of EffectOnce's.
LEMMA EffectStep ==
  ASSUME LoopInv, [LoopNext]_loopVars
  PROVE  [ToolEffect!EffectNext]_(ToolEffect!effectVars)
<1>q. ASSUME receipt' = receipt, performed' = performed PROVE UNCHANGED ToolEffect!effectVars
  BY <1>q DEF ToolEffect!effectVars, EffectState
<1>1. CASE BeginTool
  <2>1. PICK c \in Calls : c = Head(todo) /\ c.id \in Ids /\ c.arg \in Args
    BY <1>1, NextCall DEF BeginTool, LoopInv
  <2>2. CASE Record(c)
    <3>1. receipt[c.id].status = "none" /\ receipt'[c.id].status = "started"
          /\ (\A i \in Ids \ {c.id} : receipt'[i] = receipt[i]) /\ performed' = performed
      BY <1>1, <2>1, <2>2 DEF BeginTool, Record, LoopInv, LoopTyped
    <3>2. ToolEffect!Admit(c.id)
      BY <2>1, <3>1 DEF ToolEffect!Admit, EffectState
    <3> QED BY <2>1, <3>2 DEF ToolEffect!EffectNext
  <2>3. CASE Reuse(c) \/ Conflict(c) \/ Unauthorized(c)
    BY <1>1, <1>q, <2>3 DEF BeginTool, Reuse, Conflict, Unauthorized
  <2> QED BY <1>1, <2>1, <2>2, <2>3 DEF BeginTool
<1>2. CASE Dispatch
  <2>1. PICK i \in Ids : i = Head(todo).id
    BY <1>2, NextCall DEF Dispatch, LoopInv, ReceiptsAhead
  <2>2. receipt[i].status = "started" /\ performed[i] = 0 /\ receipt' = receipt
        /\ (performed' = [performed EXCEPT ![i] = @ + 1] \/ performed' = performed)
    BY <1>2, <2>1 DEF Dispatch, LoopInv, ReceiptsAhead
  <2>3. CASE performed' = [performed EXCEPT ![i] = @ + 1]
    <3>1. ToolEffect!Happen(i)
      BY <2>2, <2>3 DEF ToolEffect!Happen, EffectState, LoopInv, LoopTyped
    <3> QED BY <3>1 DEF ToolEffect!EffectNext
  <2> QED BY <1>q, <2>2, <2>3
<1>3. CASE Complete
  <2>1. PICK i \in Ids : i = Head(todo).id
    BY <1>3, NextCall DEF Complete, LoopInv, ReceiptsAhead
  <2>2. /\ receipt[i].status = "started" /\ performed[i] = 1 /\ performed' = performed
        /\ receipt'[i].status = "completed" /\ \A j \in Ids \ {i} : receipt'[j] = receipt[j]
    BY <1>3, <2>1 DEF Complete, LoopInv, ReceiptsAhead, LoopTyped
  <2>3. ToolEffect!Confirm(i)
    BY <2>2 DEF ToolEffect!Confirm, EffectState
  <2> QED BY <2>3 DEF ToolEffect!EffectNext
<1>4. CASE \/ AdmitTurn \/ SafetyGuard \/ CallModel \/ ModelFails \/ EndLoop \/ Continue \/ UnknownStop \/ ToolUse
           \/ Execute \/ ToolFails \/ ResultsIn \/ LoopCrash \/ LoopResume \/ ChangeConnection \/ UNCHANGED loopVars
  <2>1. receipt' = receipt /\ performed' = performed
    BY <1>4 DEF AdmitTurn, SafetyGuard, CallModel, ModelFails, EndLoop, Continue, UnknownStop, ToolUse,
                Execute, ToolFails, ResultsIn, LoopCrash, LoopResume, ChangeConnection, loopVars
  <2> QED BY <1>q, <2>1
<1> QED BY <1>1, <1>2, <1>3, <1>4 DEF LoopNext

\* execute_recorded() executes at most once: for any answers, repeated
\* identities, replays and deaths the receipts implement EffectOnce.
THEOREM ToolsActOnce == LoopSpec => ToolEffects
<1>1. LoopInit => ToolEffect!EffectInit
  BY DEF LoopInit, ToolEffect!EffectInit, EffectState, NoReceipt
<1>2. LoopInv /\ [LoopNext]_loopVars => [ToolEffect!EffectNext]_(ToolEffect!effectVars)
  BY EffectStep
<1> QED BY <1>1, <1>2, LoopShape, PTL DEF LoopSpec, ToolEffects, ToolEffect!EffectSpec
-----------------------------------------------------------------------------
(* The tool loop: what a turn may do outside. *)

LEMMA EnteredStep ==
  ASSUME EnteredPinned, [LoopNext]_loopVars
  PROVE  EnteredPinned'
<1>1. CASE Execute
  <2>1. pc' = "dispatch" => Allowed(Head(todo).id) /\ entry' = [inc |-> mcp.inc, epoch |-> mcp.epoch]
    BY <1>1 DEF Execute, Failed, Ends
  <2>2. pin' = Pinned /\ todo' = todo
    BY <1>1 DEF Execute
  <2>3. Allowed(Head(todo).id) /\ Head(todo).id \in External => Pinned.inc = mcp.inc
    BY DEF Allowed
  <2> QED BY <2>1, <2>2, <2>3 DEF EnteredPinned
<1>2. CASE ChangeConnection \/ UNCHANGED loopVars
  BY <1>2 DEF ChangeConnection, loopVars, EnteredPinned
<1>3. CASE CallModel
  <2>1. pc' # "dispatch"
    BY <1>3, AnswerShape DEF CallModel, Stops
  <2> QED BY <2>1 DEF EnteredPinned
<1>4. CASE \/ AdmitTurn \/ SafetyGuard \/ ModelFails \/ EndLoop \/ Continue \/ UnknownStop \/ ToolUse \/ BeginTool
           \/ Dispatch \/ ToolFails \/ Complete \/ ResultsIn \/ LoopCrash \/ LoopResume
  <2>1. pc' # "dispatch"
    BY <1>4 DEF AdmitTurn, SafetyGuard, ModelFails, EndLoop, Continue, UnknownStop, ToolUse, BeginTool, Record,
                Reuse, Conflict, Unauthorized, Dispatch, ToolFails, Complete, ResultsIn, LoopCrash, LoopResume,
                Failed, Ends
  <2> QED BY <2>1 DEF EnteredPinned
<1> QED BY <1>1, <1>2, <1>3, <1>4 DEF LoopNext

\* The connection is pinned once, and an external effect is the pinned one's.
LEMMA AuthorityStep ==
  ASSUME LoopInv, EnteredPinned, LoopNext
  PROVE  /\ pin # Unpinned /\ pc' # "admit" => pin' = pin
         /\ \A i \in External : performed'[i] # performed[i] =>
              /\ mcp.inc = pin.inc /\ mcp.gen = pin.gen
              /\ mcp.active /\ mcp.epoch = entry.epoch
<1>1. CASE Dispatch
  <2>1. pin' = pin /\ pc = "dispatch" /\ todo # <<>>
    BY <1>1 DEF Dispatch, LoopInv, ReceiptsAhead
  <2>2. PICK e \in Ids : e = Head(todo).id
    BY <2>1, NextCall DEF LoopInv
  <2>3. ASSUME NEW i \in External, performed'[i] # performed[i] PROVE i = e /\ Admitted(e)
    BY <1>1, <2>2, <2>3, LoopAssumption DEF Dispatch, LoopInv, LoopTyped
  <2>4. ASSUME e \in External, Admitted(e)
        PROVE  mcp.inc = pin.inc /\ mcp.gen = pin.gen /\ mcp.active /\ mcp.epoch = entry.epoch
    BY <2>1, <2>2, <2>4 DEF Admitted, EnteredPinned
  <2> QED BY <2>1, <2>3, <2>4
<1>2. CASE LoopResume
  BY <1>2 DEF LoopResume
<1>3. CASE \/ AdmitTurn \/ SafetyGuard \/ CallModel \/ ModelFails \/ EndLoop \/ Continue \/ UnknownStop \/ ToolUse
           \/ BeginTool \/ Execute \/ ToolFails \/ Complete \/ ResultsIn \/ LoopCrash \/ ChangeConnection
  <2>1. performed' = performed /\ (pin' = pin \/ pin' = Pinned)
    BY <1>3 DEF AdmitTurn, SafetyGuard, CallModel, ModelFails, EndLoop, Continue, UnknownStop, ToolUse, BeginTool,
                Execute, ToolFails, Complete, ResultsIn, LoopCrash, ChangeConnection
  <2> QED BY <2>1 DEF Pinned
<1> QED BY <1>1, <1>2, <1>3 DEF LoopNext

\* registry.py, mcp/client.py: what a turn may do outside never grows, whatever
\* the owner does to the connection while its calls wait.
THEOREM AuthorityPinned == LoopSpec => PinnedAuthority
<1>1. LoopInit => EnteredPinned
  BY DEF LoopInit, EnteredPinned
<1> QED BY <1>1, EnteredStep, AuthorityStep, LoopShape, PTL DEF LoopSpec, PinnedAuthority

-----------------------------------------------------------------------------
(* The tool loop: the history a turn leaves. *)

Entries == [role : {"assistant", "user"}, calls : Seq(Ids)]
HistoryTyped == {messages, completed, stored} \subseteq Seq(Entries) /\ results \in Seq(Ids)

\* Every answer with calls is followed by the results of exactly those calls.
Paired(h) ==
  \A n \in DOMAIN h : h[n].role = "assistant" /\ h[n].calls # <<>> =>
    n < Len(h) /\ h[n + 1] = UserEntry(h[n].calls)

\* The result of a call can be seen.
Shown(h, i) == \E k \in DOMAIN h : \E l \in DOMAIN h[k].calls : h[k].role = "user" /\ h[k].calls[l] = i

\* While calls are worked the last answer waits for their results.
Pending(h, ids) ==
  /\ Len(h) >= 1 /\ h[Len(h)] = AssistantEntry(ids)
  /\ \A n \in 1 .. (Len(h) - 1) : h[n].role = "assistant" /\ h[n].calls # <<>> => h[n + 1] = UserEntry(h[n].calls)

Working == {"tool_use", "tool", "execute", "dispatch", "record"}

\* What is kept is paired; while calls are worked the last answer waits for
\* exactly the results there are and those still to come.
HistoryPaired ==
  /\ Paired(completed) /\ Paired(stored)
  /\ pc \notin Working \cup {"error"} => Paired(messages)
  /\ pc \in Working => Pending(messages, results \o IdsOf(todo))
  /\ pc \notin (Working \ {"tool_use"}) \cup {"error"} => results = <<>>

\* Unless the process died, a call that completed can be seen.
HistoryShown ==
  crashes = 0 => \A i \in Ids : receipt[i].status = "completed" =>
    /\ pc \in {"done", "error"} => Shown(stored, i)
    /\ pc \notin {"done", "error"} =>
         (Shown(completed, i) /\ Shown(messages, i)) \/ \E l \in DOMAIN results : results[l] = i

HistoryInv == HistoryTyped /\ HistoryPaired /\ HistoryShown

\* Answering the last entry pairs the whole history again.
LEMMA PendingAnswered ==
  ASSUME NEW h \in Seq(Entries), NEW ids \in Seq(Ids), Pending(h, ids)
  PROVE  /\ Append(h, UserEntry(ids)) \in Seq(Entries) /\ Paired(Append(h, UserEntry(ids)))
         /\ \A l \in DOMAIN ids : Shown(Append(h, UserEntry(ids)), ids[l])
<1> DEFINE n == Len(h)
           g == Append(h, UserEntry(ids))
<1>1. /\ n \in Nat /\ n >= 1 /\ UserEntry(ids) \in Entries /\ h[n] = AssistantEntry(ids)
      /\ UserEntry(ids).role = "user" /\ UserEntry(ids).calls = ids /\ AssistantEntry(ids).calls = ids
  BY DEF Pending, UserEntry, AssistantEntry, Entries
<1>2. /\ g \in Seq(Entries) /\ Len(g) = n + 1 /\ DOMAIN g = 1 .. (n + 1) /\ g[n + 1] = UserEntry(ids)
      /\ \A k \in 1 .. n : g[k] = h[k]
  BY <1>1
<1>3. ASSUME NEW k \in 1 .. (n + 1), g[k].role = "assistant", g[k].calls # <<>>
      PROVE  k < n + 1 /\ g[k + 1] = UserEntry(g[k].calls)
  <2>1. k # n + 1
    BY <1>1, <1>2, <1>3
  <2>2. CASE k = n
    BY <1>1, <1>2, <2>2
  <2>3. CASE k # n
    <3>1. k \in 1 .. (n - 1) /\ k + 1 \in 1 .. n
      BY <1>1, <2>1, <2>3
    <3> QED BY <1>1, <1>2, <1>3, <3>1 DEF Pending
  <2> QED BY <2>1, <2>2, <2>3
<1>4. Paired(g)
  BY <1>2, <1>3 DEF Paired
<1>5. ASSUME NEW l \in DOMAIN ids PROVE Shown(g, ids[l])
  <2>1. n + 1 \in DOMAIN g /\ g[n + 1].role = "user" /\ g[n + 1].calls = ids
    BY <1>1, <1>2
  <2> QED BY <2>1 DEF Shown
<1> QED BY <1>2, <1>4, <1>5

\* What was shown stays shown when the history grows.
LEMMA ShownGrows ==
  ASSUME NEW h \in Seq(Entries), NEW e \in Entries, NEW i, Shown(h, i)
  PROVE  Shown(Append(h, e), i)
<1>1. PICK k \in DOMAIN h : \E l \in DOMAIN h[k].calls : h[k].role = "user" /\ h[k].calls[l] = i
  BY DEF Shown
<1>2. k \in DOMAIN Append(h, e) /\ Append(h, e)[k] = h[k]
  OBVIOUS
<1> QED BY <1>1, <1>2 DEF Shown

\* An answer joins a paired history: without calls it is paired at once.
LEMMA AnswerJoins ==
  ASSUME NEW h \in Seq(Entries), NEW ids \in Seq(Ids), Paired(h)
  PROVE  /\ Append(h, AssistantEntry(ids)) \in Seq(Entries) /\ Pending(Append(h, AssistantEntry(ids)), ids)
         /\ ids = <<>> => Paired(Append(h, AssistantEntry(ids)))
<1> DEFINE n == Len(h)
           g == Append(h, AssistantEntry(ids))
<1>1. n \in Nat /\ AssistantEntry(ids) \in Entries /\ AssistantEntry(ids).calls = ids
  BY DEF AssistantEntry, Entries
<1>2. /\ g \in Seq(Entries) /\ Len(g) = n + 1 /\ DOMAIN g = 1 .. (n + 1) /\ DOMAIN h = 1 .. n
      /\ g[n + 1] = AssistantEntry(ids) /\ \A k \in 1 .. n : g[k] = h[k]
  BY <1>1
<1>3. ASSUME NEW k \in 1 .. n, g[k].role = "assistant", g[k].calls # <<>>
      PROVE  k < n + 1 /\ g[k + 1] = UserEntry(g[k].calls)
  <2>1. k < n /\ h[k + 1] = UserEntry(h[k].calls)
    BY <1>2, <1>3 DEF Paired
  <2>2. k + 1 \in 1 .. n
    BY <1>1, <2>1
  <2> QED BY <1>1, <1>2, <2>1, <2>2
<1>4. Pending(g, ids)
  <2>1. (n + 1) - 1 = n
    BY <1>1
  <2> QED BY <1>1, <1>2, <1>3, <2>1 DEF Pending
<1>5. ASSUME ids = <<>> PROVE Paired(g)
  <2>1. \A k \in 1 .. (n + 1) : k \in 1 .. n \/ k = n + 1
    BY <1>1
  <2> QED BY <1>1, <1>2, <1>3, <1>5, <2>1 DEF Paired
<1> QED BY <1>2, <1>4, <1>5

\* So does a note of the loop's own ("continue").
LEMMA NoteJoins ==
  ASSUME NEW h \in Seq(Entries), Paired(h)
  PROVE  Append(h, UserEntry(<<>>)) \in Seq(Entries) /\ Paired(Append(h, UserEntry(<<>>)))
<1> DEFINE n == Len(h)
           g == Append(h, UserEntry(<<>>))
<1>1. n \in Nat /\ UserEntry(<<>>) \in Entries /\ UserEntry(<<>>).role = "user"
  BY DEF UserEntry, Entries
<1>2. /\ g \in Seq(Entries) /\ Len(g) = n + 1 /\ DOMAIN g = 1 .. (n + 1) /\ DOMAIN h = 1 .. n
      /\ g[n + 1] = UserEntry(<<>>) /\ \A k \in 1 .. n : g[k] = h[k]
  BY <1>1
<1>3. ASSUME NEW k \in 1 .. (n + 1), g[k].role = "assistant", g[k].calls # <<>>
      PROVE  k < n + 1 /\ g[k + 1] = UserEntry(g[k].calls)
  <2>1. k \in 1 .. n
    BY <1>1, <1>2, <1>3
  <2>2. k < n /\ h[k + 1] = UserEntry(h[k].calls)
    BY <1>2, <1>3, <2>1 DEF Paired
  <2>3. k + 1 \in 1 .. n
    BY <1>1, <2>1, <2>2
  <2> QED BY <1>1, <1>2, <2>1, <2>2, <2>3
<1> QED BY <1>2, <1>3 DEF Paired

\* Two sequences one after the other.
LEMMA Joined ==
  ASSUME NEW S, NEW a \in Seq(S), NEW b \in Seq(S)
  PROVE  /\ a \o b \in Seq(S) /\ Len(a \o b) = Len(a) + Len(b)
         /\ \A k \in 1 .. (Len(a) + Len(b)) : (a \o b)[k] = IF k <= Len(a) THEN a[k] ELSE b[k - Len(a)]
OBVIOUS

\* A call that is over moves from the ones to do to the results.
LEMMA CallMoves ==
  ASSUME LoopTyped, results \in Seq(Ids), todo # <<>>
  PROVE  /\ IdsOf(todo) \in Seq(Ids) /\ IdsOf(Tail(todo)) \in Seq(Ids)
         /\ Append(results, Head(todo).id) \in Seq(Ids)
         /\ Append(results, Head(todo).id) \o IdsOf(Tail(todo)) = results \o IdsOf(todo)
<1> DEFINE m == Len(results)
           t == Len(todo)
           over == Append(results, Head(todo).id)
           left == over \o IdsOf(Tail(todo))
           right == results \o IdsOf(todo)
<1>1. m \in Nat /\ t \in Nat /\ t >= 1 /\ Head(todo) = todo[1] /\ Head(todo).id \in Ids
      /\ DOMAIN todo = 1 .. t /\ Tail(todo) \in Seq(Calls) /\ Len(Tail(todo)) = t - 1 /\ DOMAIN Tail(todo) = 1 .. (t - 1)
      /\ \A k \in 1 .. (t - 1) : Tail(todo)[k] = todo[k + 1]
  BY NextCall DEF LoopTyped
<1>2. \A k \in 1 .. t : todo[k].id \in Ids
  <2>1. \A k \in 1 .. t : todo[k] \in Calls
    BY <1>1 DEF LoopTyped
  <2> QED BY <2>1 DEF Calls
<1>3. IdsOf(todo) \in Seq(Ids) /\ Len(IdsOf(todo)) = t /\ \A k \in 1 .. t : IdsOf(todo)[k] = todo[k].id
  BY <1>1, <1>2 DEF IdsOf
<1>4. \A k \in 1 .. (t - 1) : Tail(todo)[k].id \in Ids
  BY <1>1, <1>2
<1>5. /\ IdsOf(Tail(todo)) \in Seq(Ids) /\ Len(IdsOf(Tail(todo))) = t - 1
      /\ \A k \in 1 .. (t - 1) : IdsOf(Tail(todo))[k] = todo[k + 1].id
  BY <1>1, <1>4 DEF IdsOf
<1>6. over \in Seq(Ids) /\ Len(over) = m + 1 /\ over[m + 1] = todo[1].id /\ \A k \in 1 .. m : over[k] = results[k]
  BY <1>1
<1> HIDE DEF over
<1>7. /\ left \in Seq(Ids) /\ Len(left) = m + t /\ right \in Seq(Ids) /\ Len(right) = m + t
      /\ \A k \in 1 .. (m + t) : left[k] = IF k <= m + 1 THEN over[k] ELSE IdsOf(Tail(todo))[k - (m + 1)]
      /\ \A k \in 1 .. (m + t) : right[k] = IF k <= m THEN results[k] ELSE IdsOf(todo)[k - m]
  <2>1. (m + 1) + (t - 1) = m + t
    BY <1>1
  <2>2. /\ left \in Seq(Ids) /\ Len(left) = Len(over) + Len(IdsOf(Tail(todo)))
        /\ \A k \in 1 .. (Len(over) + Len(IdsOf(Tail(todo)))) :
             left[k] = IF k <= Len(over) THEN over[k] ELSE IdsOf(Tail(todo))[k - Len(over)]
    BY <1>5, <1>6, Joined
  <2>3. /\ right \in Seq(Ids) /\ Len(right) = Len(results) + Len(IdsOf(todo))
        /\ \A k \in 1 .. (Len(results) + Len(IdsOf(todo))) :
             right[k] = IF k <= Len(results) THEN results[k] ELSE IdsOf(todo)[k - Len(results)]
    BY <1>3, Joined
  <2> HIDE DEF left, right
  <2> QED BY <1>3, <1>5, <1>6, <2>1, <2>2, <2>3
<1> HIDE DEF left, right
<1>8. ASSUME NEW k \in 1 .. (m + t) PROVE left[k] = right[k]
  <2>1. CASE k <= m
    <3>1. k \in 1 .. m /\ k <= m + 1
      BY <1>1, <2>1
    <3> QED BY <1>6, <1>7, <2>1, <3>1
  <2>2. CASE k = m + 1
    <3>1. k - m = 1 /\ ~(k <= m) /\ k <= m + 1 /\ 1 \in 1 .. t
      BY <1>1, <2>2
    <3> QED BY <1>3, <1>6, <1>7, <2>2, <3>1
  <2>3. CASE k > m + 1
    <3>1. k - (m + 1) \in 1 .. (t - 1) /\ k - m \in 1 .. t /\ (k - (m + 1)) + 1 = k - m /\ ~(k <= m) /\ ~(k <= m + 1)
      BY <1>1, <2>3
    <3> QED BY <1>3, <1>5, <1>7, <3>1
  <2> QED BY <1>1, <2>1, <2>2, <2>3
<1>9. left = right
  BY <1>1, <1>7, <1>8
<1> QED BY <1>3, <1>5, <1>6, <1>9 DEF over, left, right
LEMMA IdsTyped == ASSUME NEW s \in Seq(Calls) PROVE IdsOf(s) \in Seq(Ids) /\ (s = <<>> => IdsOf(s) = <<>>)
<1>1. \A k \in DOMAIN s : s[k].id \in Ids
  <2>1. \A k \in DOMAIN s : s[k] \in Calls
    OBVIOUS
  <2> QED BY <2>1 DEF Calls
<1>2. DOMAIN s = 1 .. Len(s) /\ Len(s) \in Nat
  OBVIOUS
<1>3. IdsOf(s) \in Seq(Ids) /\ Len(IdsOf(s)) = Len(s)
  BY <1>1, <1>2 DEF IdsOf
<1> QED BY <1>3

LEMMA HistoryStarts == LoopInit => HistoryInv
<1> SUFFICES ASSUME LoopInit PROVE HistoryInv
  OBVIOUS
<1>1. messages = <<>> /\ completed = <<>> /\ stored = <<>> /\ results = <<>> /\ pc = "admit"
      /\ \A i \in Ids : receipt[i].status = "none"
  BY DEF LoopInit, NoReceipt
<1>2. HistoryTyped
  BY <1>1 DEF HistoryTyped
<1>3. Paired(<<>>)
  BY DEF Paired
<1> QED BY <1>1, <1>2, <1>3 DEF HistoryInv, HistoryPaired, HistoryShown, Working

\* The except branch closes every pair and keeps what was done visible.
LEMMA FailedKeeps ==
  ASSUME LoopTyped, HistoryInv, pc \in Working, Failed, UNCHANGED <<results, receipt, crashes>>
  PROVE  HistoryInv'
<1> DEFINE ids == results \o IdsOf(todo)
           closed == Append(messages, UserEntry(ids))
<1>1. messages' = closed /\ completed' = closed /\ stored' = closed /\ pc' = "error"
  BY DEF Failed, Ends
<1>2. /\ messages \in Seq(Entries) /\ results \in Seq(Ids) /\ IdsOf(todo) \in Seq(Ids) /\ Pending(messages, ids)
  BY IdsTyped DEF HistoryInv, HistoryTyped, HistoryPaired, LoopTyped
<1>3. ids \in Seq(Ids) /\ \A l \in DOMAIN results : l \in DOMAIN ids /\ ids[l] = results[l]
  <2>1. /\ ids \in Seq(Ids) /\ Len(ids) = Len(results) + Len(IdsOf(todo))
        /\ \A k \in 1 .. (Len(results) + Len(IdsOf(todo))) :
             ids[k] = IF k <= Len(results) THEN results[k] ELSE IdsOf(todo)[k - Len(results)]
    BY <1>2, Joined
  <2>2. Len(results) \in Nat /\ Len(IdsOf(todo)) \in Nat /\ DOMAIN results = 1 .. Len(results)
    BY <1>2
  <2> HIDE DEF ids
  <2> QED BY <2>1, <2>2
<1> HIDE DEF ids
<1>4. closed \in Seq(Entries) /\ Paired(closed) /\ \A l \in DOMAIN ids : Shown(closed, ids[l])
  BY <1>2, <1>3, PendingAnswered
<1>5. UserEntry(ids) \in Entries
  BY <1>3 DEF UserEntry, Entries
<1>6. \A i \in Ids : Shown(messages, i) => Shown(closed, i)
  BY <1>2, <1>5, ShownGrows
<1> HIDE DEF closed
<1>7. pc \notin {"done", "error"}
  BY DEF Working
<1>8. HistoryTyped'
  BY <1>1, <1>2, <1>4 DEF HistoryTyped
<1>9. HistoryPaired'
  BY <1>1, <1>4 DEF HistoryPaired, Working
<1>10. HistoryShown'
  BY <1>1, <1>3, <1>4, <1>6, <1>7 DEF HistoryInv, HistoryShown
<1> QED BY <1>8, <1>9, <1>10 DEF HistoryInv

\* What the loop ends with is a history it already had.
LEMMA EndsKeeps ==
  ASSUME HistoryInv, NEW how \in {"done", "error"}, NEW h, Ends(how, h), h \in {completed, messages}, Paired(h),
         results = <<>>, pc \notin {"done", "error"}, UNCHANGED <<messages, results, receipt, crashes>>,
         how = "done" => h = messages
  PROVE  HistoryInv'
<1>1. completed' = h /\ stored' = h /\ pc' = how /\ h \in Seq(Entries) /\ Paired(h)
  BY DEF Ends, HistoryInv, HistoryTyped, HistoryPaired
<1>2. HistoryTyped'
  BY <1>1 DEF HistoryInv, HistoryTyped
<1>3. HistoryPaired'
  BY <1>1 DEF HistoryPaired, Working
<1>4. HistoryShown'
  <2>1. ASSUME NEW i \in Ids, crashes = 0, receipt[i].status = "completed" PROVE Shown(h, i)
    BY <2>1 DEF HistoryInv, HistoryShown
  <2> QED BY <1>1, <2>1 DEF HistoryShown
<1> QED BY <1>2, <1>3, <1>4 DEF HistoryInv

LEMMA AnswerKeeps == ASSUME LoopTyped, HistoryInv, CallModel PROVE HistoryInv'
<1>1. PICK r \in Answers :
        messages' = Append(messages, AssistantEntry(IdsOf(r.calls))) /\ todo' = r.calls /\ pc' = r.stop
  BY DEF CallModel
<1> DEFINE ids == IdsOf(r.calls)
<1>2. /\ r.stop \in Stops /\ r.calls \in Seq(Calls) /\ ids \in Seq(Ids) /\ (r.stop # "tool_use" => ids = <<>>)
  BY AnswerShape, IdsTyped
<1>3. /\ pc = "head" /\ results = <<>> /\ messages \in Seq(Entries) /\ Paired(messages)
      /\ UNCHANGED <<completed, stored, results, receipt, crashes>>
  BY DEF CallModel, HistoryInv, HistoryTyped, HistoryPaired, Working
<1>4. /\ messages' \in Seq(Entries) /\ Pending(messages', ids) /\ (ids = <<>> => Paired(messages'))
  BY <1>1, <1>2, <1>3, AnswerJoins
<1>5. <<>> \o ids = ids /\ AssistantEntry(ids) \in Entries
  BY <1>2 DEF AssistantEntry, Entries
<1>6. \A i \in Ids : Shown(messages, i) => Shown(messages', i)
  BY <1>1, <1>3, <1>5, ShownGrows
<1>7. HistoryTyped'
  BY <1>3, <1>4 DEF HistoryInv, HistoryTyped
<1>8. results' \o IdsOf(todo') = ids
  BY <1>1, <1>3, <1>5
<1> HIDE DEF ids
<1>9. HistoryPaired'
  BY <1>1, <1>2, <1>3, <1>4, <1>8 DEF HistoryInv, HistoryPaired, Working, Stops
<1>10. HistoryShown'
  BY <1>1, <1>2, <1>3, <1>6 DEF HistoryInv, HistoryShown, Stops
<1> QED BY <1>7, <1>9, <1>10 DEF HistoryInv

LEMMA ContinueKeeps == ASSUME LoopTyped, HistoryInv, Continue PROVE HistoryInv'
<1>1. /\ results = <<>> /\ Paired(messages) /\ messages \in Seq(Entries) /\ pc \notin {"done", "error"}
      /\ UNCHANGED <<results, receipt, crashes, todo>> /\ Paired(completed)
  BY DEF Continue, HistoryInv, HistoryTyped, HistoryPaired, Working
<1>2. CASE Ends("error", completed) /\ UNCHANGED messages
  BY <1>1, <1>2, EndsKeeps
<1>3. CASE pc' = "head" /\ messages' = Append(messages, UserEntry(<<>>)) /\ UNCHANGED <<completed, stored>>
  <2>1. messages' \in Seq(Entries) /\ Paired(messages')
    BY <1>1, <1>3, NoteJoins
  <2>2. UserEntry(<<>>) \in Entries
    BY DEF UserEntry, Entries
  <2>3. \A i \in Ids : Shown(messages, i) => Shown(messages', i)
    BY <1>1, <1>3, <2>2, ShownGrows
  <2> QED BY <1>1, <1>3, <2>1, <2>3 DEF HistoryInv, HistoryTyped, HistoryPaired, HistoryShown, Working
<1> QED BY <1>2, <1>3 DEF Continue

\* A result moves a call from the ones to do to the ones that are over.
LEMMA MovesKeep ==
  ASSUME LoopTyped, HistoryInv, todo # <<>>, pc \in {"tool", "record"}, pc' = "tool",
         results' = Append(results, Head(todo).id), todo' = Tail(todo),
         \A i \in Ids : receipt'[i].status = "completed" => receipt[i].status = "completed" \/ i = Head(todo).id,
         UNCHANGED <<messages, completed, stored, crashes>>
  PROVE  HistoryInv'
<1>1. results \in Seq(Ids) /\ Pending(messages, results \o IdsOf(todo)) /\ Head(todo).id \in Ids
  BY NextCall DEF HistoryInv, HistoryTyped, HistoryPaired, Working
<1>2. results' \in Seq(Ids) /\ results' \o IdsOf(todo') = results \o IdsOf(todo)
  BY <1>1, CallMoves
<1>3. \A i \in Ids : i = Head(todo).id \/ (\E l \in DOMAIN results : results[l] = i) => \E l \in DOMAIN results' : results'[l] = i
  <2>1. /\ DOMAIN results' = 1 .. (Len(results) + 1) /\ results'[Len(results) + 1] = Head(todo).id
        /\ Len(results) \in Nat /\ DOMAIN results = 1 .. Len(results)
        /\ \A l \in 1 .. Len(results) : results'[l] = results[l]
    BY <1>1
  <2> QED BY <2>1
<1>4. HistoryTyped'
  BY <1>2 DEF HistoryInv, HistoryTyped
<1>5. HistoryPaired'
  BY <1>1, <1>2 DEF HistoryInv, HistoryPaired, Working
<1>6. HistoryShown'
  BY <1>3 DEF HistoryInv, HistoryShown
<1> QED BY <1>4, <1>5, <1>6 DEF HistoryInv

LEMMA ResultsInKeeps == ASSUME LoopTyped, HistoryInv, ResultsIn PROVE HistoryInv'
<1>1. /\ pc = "tool" /\ todo = <<>> /\ results \in Seq(Ids) /\ messages \in Seq(Entries)
      /\ Pending(messages, results \o IdsOf(todo)) /\ IdsOf(todo) = <<>>
      /\ messages' = Append(messages, UserEntry(results)) /\ completed' = messages' /\ results' = <<>> /\ pc' = "head"
      /\ UNCHANGED <<stored, todo, receipt, crashes>>
  BY IdsTyped DEF ResultsIn, HistoryInv, HistoryTyped, HistoryPaired, Working, LoopTyped
<1>2. results \o IdsOf(todo) = results
  BY <1>1
<1>3. messages' \in Seq(Entries) /\ Paired(messages') /\ \A l \in DOMAIN results : Shown(messages', results[l])
  BY <1>1, <1>2, PendingAnswered
<1>4. UserEntry(results) \in Entries
  BY <1>1 DEF UserEntry, Entries
<1>5. \A i \in Ids : Shown(messages, i) => Shown(messages', i)
  BY <1>1, <1>4, ShownGrows
<1>6. HistoryTyped'
  BY <1>1, <1>3 DEF HistoryInv, HistoryTyped
<1>7. HistoryPaired'
  BY <1>1, <1>3 DEF HistoryInv, HistoryPaired, Working
<1>8. HistoryShown'
  BY <1>1, <1>3, <1>5 DEF HistoryInv, HistoryShown
<1> QED BY <1>6, <1>7, <1>8 DEF HistoryInv

\* The loop changes where it stands and nothing it remembers.
LEMMA PlaceKeeps ==
  ASSUME HistoryInv, UNCHANGED <<messages, completed, stored, results, todo, crashes>>,
         \A i \in Ids : receipt'[i].status = "completed" => receipt[i].status = "completed",
         \/ pc \in {"admit", "dead"} /\ pc' \in {"admit", "head"}
         \/ pc = "tool_use" /\ pc' = "tool"
         \/ pc \in Working \ {"tool_use"} /\ pc' \in Working \ {"tool_use"}
         \/ pc' = pc
  PROVE  HistoryInv'
BY DEF HistoryInv, HistoryTyped, HistoryPaired, HistoryShown, Working

\* Whatever the model, the tools, the owner and the process do next.
LEMMA HistoryGoesOn == LoopInv /\ HistoryInv /\ [LoopNext]_loopVars => HistoryInv'
<1> SUFFICES ASSUME LoopInv, HistoryInv, [LoopNext]_loopVars PROVE HistoryInv'
  OBVIOUS
<1>0. LoopTyped
  BY DEF LoopInv
<1>1. CASE AdmitTurn \/ LoopResume \/ ChangeConnection \/ UNCHANGED loopVars
  <2>1. /\ UNCHANGED <<messages, completed, stored, results, todo, crashes, receipt>>
        /\ (pc \in {"admit", "dead"} /\ pc' \in {"admit", "head"}) \/ pc' = pc
    BY <1>1 DEF AdmitTurn, LoopResume, ChangeConnection, loopVars
  <2> QED BY <2>1, PlaceKeeps
<1>2. CASE SafetyGuard \/ ModelFails \/ UnknownStop
  <2>1. /\ Ends("error", completed) /\ UNCHANGED <<messages, results, receipt, crashes>>
        /\ pc \notin {"done", "error"} /\ results = <<>> /\ Paired(completed)
    BY <1>2 DEF SafetyGuard, ModelFails, UnknownStop, Working, HistoryInv, HistoryPaired
  <2> QED BY <2>1, EndsKeeps
<1>3. CASE EndLoop
  <2>1. /\ Ends("done", messages) /\ UNCHANGED <<messages, results, receipt, crashes>>
        /\ pc \notin {"done", "error"} /\ results = <<>> /\ Paired(messages)
    BY <1>3 DEF EndLoop, Working, HistoryInv, HistoryPaired
  <2> QED BY <2>1, EndsKeeps
<1>4. CASE ToolUse
  <2>1. /\ pc = "tool_use" /\ results = <<>> /\ UNCHANGED <<messages, results, todo, receipt, crashes>>
        /\ (pc' = "tool" /\ UNCHANGED <<completed, stored>>) \/ Ends("error", completed)
    BY <1>4 DEF ToolUse, Working, HistoryInv, HistoryPaired
  <2>2. CASE pc' = "tool" /\ UNCHANGED <<completed, stored>>
    BY <2>1, <2>2, PlaceKeeps
  <2>3. CASE Ends("error", completed)
    <3>1. Paired(completed)
      BY DEF HistoryInv, HistoryPaired
    <3> QED BY <2>1, <2>3, <3>1, EndsKeeps
  <2> QED BY <2>1, <2>2, <2>3
<1>5. CASE BeginTool
  <2>1. PICK c \in Calls : c = Head(todo) /\ c.id \in Ids
    BY <1>0, <1>5, NextCall DEF BeginTool
  <2>2. pc = "tool" /\ todo # <<>> /\ UNCHANGED crashes
    BY <1>5 DEF BeginTool
  <2>3. CASE Record(c)
    <3>1. /\ pc' = "execute" /\ UNCHANGED <<messages, completed, stored, results, todo>>
          /\ \A i \in Ids : receipt'[i].status = "completed" => receipt[i].status = "completed"
      BY <1>0, <2>1, <2>3 DEF Record, LoopTyped
    <3> QED BY <2>2, <3>1, PlaceKeeps DEF Working
  <2>4. CASE Reuse(c)
    BY <1>0, <2>1, <2>2, <2>4, MovesKeep DEF Reuse
  <2>5. CASE Conflict(c) \/ Unauthorized(c)
    BY <1>0, <2>2, <2>5, FailedKeeps DEF Conflict, Unauthorized, Working
  <2> QED BY <1>5, <2>1, <2>3, <2>4, <2>5 DEF BeginTool
<1>6. CASE Execute
  <2>1. /\ pc = "execute" /\ UNCHANGED <<results, todo, receipt, crashes>>
        /\ (pc' = "dispatch" /\ UNCHANGED <<messages, completed, stored>>) \/ Failed
    BY <1>6 DEF Execute
  <2> QED BY <1>0, <2>1, PlaceKeeps, FailedKeeps DEF Working
<1>7. CASE Dispatch \/ ToolFails
  <2>1. /\ pc = "dispatch" /\ UNCHANGED <<results, todo, receipt, crashes>>
        /\ (pc' = "record" /\ UNCHANGED <<messages, completed, stored>>) \/ Failed
    BY <1>7 DEF Dispatch, ToolFails
  <2> QED BY <1>0, <2>1, PlaceKeeps, FailedKeeps DEF Working
<1>8. CASE Complete
  <2>1. PICK e \in Ids : e = Head(todo).id
    BY <1>0, <1>8, NextCall DEF Complete, LoopInv, ReceiptsAhead
  <2>2. /\ pc = "record" /\ todo # <<>> /\ pc' = "tool" /\ results' = Append(results, Head(todo).id) /\ todo' = Tail(todo)
        /\ UNCHANGED <<messages, completed, stored, crashes>>
    BY <1>8 DEF Complete, LoopInv, ReceiptsAhead
  <2>3. \A i \in Ids : receipt'[i].status = "completed" => receipt[i].status = "completed" \/ i = e
    BY <1>0, <1>8, <2>1 DEF Complete, LoopTyped
  <2> QED BY <1>0, <2>1, <2>2, <2>3, MovesKeep
<1>9. CASE LoopCrash
  <2>1. /\ messages' = <<>> /\ completed' = <<>> /\ results' = <<>> /\ UNCHANGED stored /\ pc' = "dead"
        /\ crashes' # 0
    BY <1>0, <1>9 DEF LoopCrash, LoopTyped
  <2>2. Paired(<<>>) /\ <<>> \in Seq(Entries) /\ <<>> \in Seq(Ids)
    BY DEF Paired
  <2> QED BY <2>1, <2>2 DEF HistoryInv, HistoryTyped, HistoryPaired, HistoryShown, Working
<1> QED BY <1>0, <1>1, <1>2, <1>3, <1>4, <1>5, <1>6, <1>7, <1>8, <1>9, AnswerKeeps, ContinueKeeps, ResultsInKeeps DEF LoopNext

\* The inductive invariant says what HistoryHonest asks of the saved history.
LEMMA HistorySays == LoopInv /\ HistoryInv => HistoryHonest
<1> SUFFICES ASSUME LoopInv, HistoryInv PROVE HistoryHonest
  OBVIOUS
<1>1. ASSUME pc \in {"done", "error"}, crashes = 0, NEW n \in 1 .. asked, NEW j \in DOMAIN replies[n].calls,
             receipt[replies[n].calls[j].id].status = "completed"
      PROVE  \E k \in DOMAIN stored : \E l \in DOMAIN stored[k].calls :
               stored[k].role = "user" /\ stored[k].calls[l] = replies[n].calls[j].id
  <2>1. replies[n] \in Answers
    BY DEF LoopInv, LoopTyped
  <2>2. replies[n].calls \in Seq(Calls)
    BY <2>1, AnswerShape
  <2>3. replies[n].calls[j] \in Calls
    BY <2>2
  <2>4. PICK i \in Ids : i = replies[n].calls[j].id
    BY <2>3 DEF Calls
  <2>5. Shown(stored, i)
    BY <1>1, <2>4 DEF HistoryInv, HistoryShown
  <2> QED BY <2>4, <2>5 DEF Shown
<1>2. Paired(stored)
  BY DEF HistoryInv, HistoryPaired
<1> QED BY <1>1, <1>2 DEF HistoryHonest, Paired

\* orchestrator.py: a turn saves a history in which every answer with calls is
\* followed by their results and, unless the process died, every finished action
\* can be seen, however the turn ended.
THEOREM HistoryAlwaysHonest == LoopSpec => []HistoryHonest
BY HistoryStarts, HistoryGoesOn, HistorySays, LoopShape, PTL DEF LoopSpec

-----------------------------------------------------------------------------
(* The Warden's transcript, on either entrance: what it holds of calls and answers, and of the file. *)

\* A sequence, of whatever: what it holds is its own alphabet.
IsSeq(s) == \E T : s \in Seq(T)

MessageFields == {"role", "use", "answer", "texts", "about", "whole", "elided"}
IsMessage(m) ==
  /\ DOMAIN m = MessageFields /\ m.role \in {"user", "assistant"}
  /\ m.use # 0 => m.role = "assistant"
  /\ m.answer # 0 => m.role = "user"
  /\ m.elided => m.about = 0
Messages(t) == IsSeq(t) /\ \A i \in 1 .. Len(t) : IsMessage(t[i])

\* Every call is answered by the message after it, unless it is the last, and every
\* answer follows its call.
Answered(t) ==
  /\ t # <<>> => t[1].role = "user"
  /\ \A i \in 1 .. Len(t) :
       /\ t[i].use # 0 /\ i < Len(t) => t[i + 1].answer = t[i].use
       /\ t[i].answer # 0 => i > 1 /\ t[i - 1].use = t[i].answer

Waits == {"head", "claim", "model", "handover", "backoff"}
WardenTyped ==
  /\ calls \in Nat /\ Messages(transcript)
  /\ lapAt \in Waits \cup {"idle", "ended"} \cup ToolKinds

\* On the Gate, where every turn is seeded from a repaired transcript.
GateTurn ==
  /\ Answered(transcript)
  /\ lapAt \in Waits => transcript # <<>> /\ transcript[Len(transcript)].role = "user"
  /\ lapAt \in ToolKinds =>
       /\ transcript # <<>> /\ calls # 0 /\ transcript[Len(transcript)].use = calls

Vouched(v, t) == v # 0 => \E i \in 1 .. Len(t) : t[i].about = v
Grounded ==
  /\ lapAt = "idle" => fileCache.version = 0
  /\ Running => Vouched(fileCache.version, transcript)

WardenInv == WardenTyped /\ (Entrance = "gate" => GateTurn)

LEMMA Appended ==
  ASSUME NEW s, IsSeq(s), NEW m
  PROVE  /\ IsSeq(Append(s, m)) /\ Len(s) \in Nat /\ Len(Append(s, m)) = Len(s) + 1
         /\ \A i \in 1 .. Len(s) : Append(s, m)[i] = s[i]
         /\ Append(s, m)[Len(s) + 1] = m
<1>1. PICK T : s \in Seq(T)
  BY DEF IsSeq
<1>2. s \in Seq(T \cup {m}) /\ m \in T \cup {m}
  BY <1>1
<1>3. Append(s, m) \in Seq(T \cup {m})
  BY <1>2
<1> QED BY <1>2, <1>3 DEF IsSeq

LEMMA AppendedTwo ==
  ASSUME NEW s, IsSeq(s), NEW m, NEW n
  PROVE  s \o <<m, n>> = Append(Append(s, m), n)
<1>1. PICK T : s \in Seq(T)
  BY DEF IsSeq
<1> DEFINE U == T \cup {m, n}
<1>2. s \in Seq(U) /\ m \in U /\ n \in U
  BY <1>1
<1> HIDE DEF U
<1> QED BY <1>2

LEMMA AppendedThree ==
  ASSUME NEW s, IsSeq(s), NEW m, NEW n, NEW k
  PROVE  s \o <<m, n, k>> = Append(Append(Append(s, m), n), k)
<1>1. PICK T : s \in Seq(T)
  BY DEF IsSeq
<1> DEFINE U == T \cup {m, n, k}
<1>2. s \in Seq(U) /\ m \in U /\ n \in U /\ k \in U
  BY <1>1
<1> HIDE DEF U
<1> QED BY <1>2

\* What a message holds when the loop makes it.
LEMMA Made ==
  ASSUME NEW x, NEW id
  PROVE  /\ IsMessage(User(x)) /\ User(x).role = "user" /\ User(x).use = 0 /\ User(x).answer = 0
         /\ IsMessage(Assistant(id)) /\ Assistant(id).use = id /\ Assistant(id).answer = 0
  BY DEF User, Assistant, IsMessage, MessageFields

LEMMA MadeResult ==
  ASSUME NEW id, NEW v, NEW w
  PROVE  /\ IsMessage(Result(id, v, w)) /\ Result(id, v, w).role = "user" /\ Result(id, v, w).use = 0
         /\ Result(id, v, w).answer = id /\ Result(id, v, w).about = v
  BY DEF User, Result, IsMessage, MessageFields

LEMMA MessagesAppend ==
  ASSUME NEW t, Messages(t), NEW m, IsMessage(m)
  PROVE  /\ Messages(Append(t, m)) /\ Len(t) \in Nat /\ Len(Append(t, m)) = Len(t) + 1 /\ Append(t, m) # <<>>
         /\ \A i \in 1 .. Len(t) : Append(t, m)[i] = t[i]
         /\ Append(t, m)[Len(t) + 1] = m
<1>1. IsSeq(t) /\ \A i \in 1 .. Len(t) : IsMessage(t[i])
  BY DEF Messages
<1>2. /\ IsSeq(Append(t, m)) /\ Len(t) \in Nat /\ Len(Append(t, m)) = Len(t) + 1
      /\ \A i \in 1 .. Len(t) : Append(t, m)[i] = t[i]
      /\ Append(t, m)[Len(t) + 1] = m
  BY <1>1, Appended
<1>3. \A i \in 1 .. Len(t) + 1 : i \in 1 .. Len(t) \/ i = Len(t) + 1
  BY <1>2
<1>4. Append(t, m) # <<>>
  BY <1>2
<1> QED BY Zenon, <1>1, <1>2, <1>3, <1>4 DEF Messages

\* An answer where one is due, and none where it is not.
LEMMA AnswersAppend ==
  ASSUME NEW t, Messages(t), Answered(t), NEW m, IsMessage(m),
         t = <<>> => m.role = "user" /\ m.answer = 0,
         t # <<>> /\ t[Len(t)].use # 0 => m.answer = t[Len(t)].use,
         t # <<>> /\ m.answer # 0 => m.answer = t[Len(t)].use
  PROVE  Answered(Append(t, m))
<1> DEFINE a == Append(t, m)
           n == Len(t)
<1>1. /\ n \in Nat /\ Len(a) = n + 1 /\ a[n + 1] = m /\ \A i \in 1 .. n : a[i] = t[i]
      /\ t = <<>> <=> n = 0
  <2>1. t = <<>> <=> n = 0
    BY DEF Messages, IsSeq
  <2> QED BY <2>1, MessagesAppend
<1> HIDE DEF a, n
<1>2. a[1].role = "user"
  BY <1>1 DEF Answered, n
<1>3. ASSUME NEW i \in 1 .. n + 1, a[i].use # 0, i < n + 1 PROVE a[i + 1].answer = a[i].use
  <2>1. CASE i < n
    BY <1>1, <1>3, <2>1 DEF Answered, n
  <2>2. CASE i = n
    BY <1>1, <1>3, <2>2 DEF n
  <2> QED BY <1>1, <1>3, <2>1, <2>2
<1>4. ASSUME NEW i \in 1 .. n + 1, a[i].answer # 0 PROVE i > 1 /\ a[i - 1].use = a[i].answer
  <2>1. CASE i < n + 1
    BY <1>1, <1>4, <2>1 DEF Answered, n
  <2>2. CASE i = n + 1
    BY <1>1, <1>4, <2>2 DEF n
  <2> QED BY <1>1, <1>4, <2>1, <2>2
<1> QED BY <1>1, <1>2, <1>3, <1>4 DEF Answered, a

Faded(m) == [m EXCEPT !.about = 0, !.whole = FALSE, !.elided = TRUE]

LEMMA FadedMessage ==
  ASSUME NEW m, IsMessage(m), NEW x, x = Faded(m)
  PROVE  IsMessage(x) /\ x.role = m.role /\ x.use = m.use /\ x.answer = m.answer /\ x.about = 0
  BY DEF Faded, IsMessage, MessageFields

\* Eliding changes what results say, never which call they answer.
LEMMA ElideKeeps ==
  ASSUME NEW t, Messages(t), NEW keep, NEW s, s = Elide(t, keep)
  PROVE  /\ Messages(s) /\ Len(s) = Len(t)
         /\ \A i \in 1 .. Len(t) : s[i].role = t[i].role /\ s[i].use = t[i].use /\ s[i].answer = t[i].answer
         /\ ~Freed(t, keep) => \A i \in 1 .. Len(t) : s[i].about = t[i].about
<1>1. PICK T : t \in Seq(T)
  BY DEF Messages, IsSeq
<1>2. DOMAIN t = 1 .. Len(t) /\ Len(t) \in Nat
  BY <1>1
<1>3. s = [i \in 1 .. Len(t) |-> IF i \in Doomed(t, keep) THEN Faded(t[i]) ELSE t[i]]
  BY Zenon, <1>2 DEF Elide, Faded
<1>4. s \in Seq({s[i] : i \in 1 .. Len(t)}) /\ Len(s) = Len(t)
  BY <1>2, <1>3
<1>5. ASSUME NEW i \in 1 .. Len(t)
      PROVE  /\ IsMessage(s[i]) /\ s[i].role = t[i].role /\ s[i].use = t[i].use /\ s[i].answer = t[i].answer
             /\ ~Freed(t, keep) => s[i].about = t[i].about
  <2>1. IsMessage(t[i])
    BY DEF Messages
  <2>2. CASE i \in Doomed(t, keep)
    <3>1. s[i] = Faded(t[i])
      BY <1>3, <2>2
    <3>2. ~Freed(t, keep) => t[i].about = 0
      BY <2>1, <2>2 DEF Freed, IsMessage
    <3> QED BY <2>1, <3>1, <3>2, FadedMessage
  <2>3. CASE i \notin Doomed(t, keep)
    BY <1>3, <2>1, <2>3
  <2> QED BY <2>2, <2>3
<1>6. IsSeq(s)
  BY Zenon, <1>4 DEF IsSeq
<1> QED BY <1>4, <1>5, <1>6 DEF Messages

LEMMA AnsweredAlike ==
  ASSUME NEW t, Messages(t), Answered(t), NEW s, Messages(s), Len(s) = Len(t),
         \A i \in 1 .. Len(t) : s[i].role = t[i].role /\ s[i].use = t[i].use /\ s[i].answer = t[i].answer
  PROVE  Answered(s)
<1>1. Len(t) \in Nat /\ (t = <<>> <=> Len(t) = 0) /\ (s = <<>> <=> Len(s) = 0)
  BY DEF Messages, IsSeq
<1>2. s # <<>> => s[1].role = "user"
  BY <1>1 DEF Answered
<1>3. ASSUME NEW i \in 1 .. Len(t), s[i].use # 0, i < Len(t) PROVE s[i + 1].answer = s[i].use
  BY <1>1, <1>3 DEF Answered
<1>4. ASSUME NEW i \in 1 .. Len(t), s[i].answer # 0 PROVE i > 1 /\ s[i - 1].use = s[i].answer
  <2>1. i > 1 /\ t[i - 1].use = t[i].answer
    BY <1>1, <1>4 DEF Answered
  <2> QED BY <1>1, <2>1
<1> QED BY <1>2, <1>3, <1>4 DEF Answered

\* The place in the old transcript of the message that follows a kept one.
LEMMA KeptPlaces ==
  ASSUME NEW c \in Nat, NEW m \in Nat, NEW i \in Int, i + 1 \in 2 .. m + 2 - c
  PROVE  c + (i + 1) - 2 = (c + i - 2) + 1 /\ c + i - 2 < m
<1>1. c + (i + 1) - 2 = (c + i - 2) + 1
  OBVIOUS
<1>2. i + 1 =< m + 2 - c
  OBVIOUS
<1>3. c + i - 2 < m
  BY <1>2
<1> QED BY <1>1, <1>3

\* The tail that is kept begins at a call, so no answer loses its call.
LEMMA RebuildKeeps ==
  ASSUME NEW t, Messages(t), NEW cut \in 3 .. Len(t) + 1, cut =< Len(t) => t[cut].use # 0,
         NEW s, s = Rebuild(t, cut)
  PROVE  /\ Messages(s) /\ s # <<>>
         /\ Answered(t) => Answered(s)
         /\ t # <<>> /\ t[Len(t)].role = "user" => s[Len(s)].role = "user"
<1> DEFINE head == User(t[1].texts \union Verbatim(t[1].texts))
           tail == SubSeq(t, cut, Len(t))
           n == Len(t)
<1>1. PICK T : t \in Seq(T)
  BY DEF Messages, IsSeq
<1>2. n \in Nat /\ cut \in Nat /\ cut >= 3 /\ cut =< n + 1 /\ (t = <<>> <=> n = 0)
  BY <1>1
<1>3. IsMessage(head) /\ head.role = "user" /\ head.use = 0 /\ head.answer = 0
  BY Made
<1>4. s = <<head>> \o tail
  BY DEF Rebuild
<1>5. tail \in Seq(T) /\ Len(tail) = n + 1 - cut /\ \A i \in 1 .. n + 1 - cut : tail[i] = t[cut + i - 1]
  BY <1>1, <1>2
<1> HIDE DEF head, tail
<1>6. /\ s \in Seq(T \cup {head}) /\ Len(s) = n + 2 - cut /\ s[1] = head
      /\ \A i \in 2 .. n + 2 - cut : s[i] = tail[i - 1]
  <2>1. tail \in Seq(T \cup {head}) /\ <<head>> \in Seq(T \cup {head}) /\ Len(<<head>>) = 1
    BY <1>5
  <2>2. s \in Seq(T \cup {head}) /\ Len(s) = 1 + Len(tail)
    BY <1>4, <2>1
  <2>3. s[1] = head
    BY <1>4, <2>1
  <2>4. \A i \in 2 .. 1 + Len(tail) : s[i] = tail[i - 1]
    BY <1>4, <1>5, <2>1
  <2>5. 1 + Len(tail) = n + 2 - cut
    BY <1>2, <1>5
  <2> QED BY <2>2, <2>3, <2>4, <2>5
<1>7. \A i \in 2 .. n + 2 - cut : s[i] = t[cut + i - 2] /\ cut + i - 2 \in 1 .. n
  BY <1>2, <1>5, <1>6
<1>8. Messages(s) /\ s # <<>>
  <2>1. IsSeq(s) /\ s # <<>>
    BY <1>2, <1>6 DEF IsSeq
  <2>2. \A i \in 1 .. Len(s) : i = 1 \/ i \in 2 .. n + 2 - cut
    BY <1>2, <1>6
  <2>3. \A i \in 1 .. Len(s) : IsMessage(s[i])
    BY <1>3, <1>6, <1>7, <2>2 DEF Messages
  <2> QED BY <2>1, <2>3 DEF Messages
<1>9. ASSUME Answered(t) PROVE Answered(s)
  <2>1. s[1].role = "user"
    BY <1>3, <1>6
  <2>2. ASSUME NEW i \in 1 .. Len(s), s[i].use # 0, i < Len(s) PROVE s[i + 1].answer = s[i].use
    <3>1. i \in 2 .. n + 2 - cut /\ i + 1 \in 2 .. n + 2 - cut
      BY <1>2, <1>3, <1>6, <2>2
    <3>2. s[i] = t[cut + i - 2] /\ s[i + 1] = t[(cut + i - 2) + 1] /\ cut + i - 2 \in 1 .. n /\ cut + i - 2 < n
      <4>1. s[i] = t[cut + i - 2] /\ cut + i - 2 \in 1 .. n
        BY Zenon, <1>7, <3>1
      <4>2. s[i + 1] = t[cut + (i + 1) - 2] /\ cut + (i + 1) - 2 \in 1 .. n
        BY Zenon, <1>7, <3>1
      <4>3. cut + (i + 1) - 2 = (cut + i - 2) + 1 /\ cut + i - 2 < n
        <5>1. cut \in Nat /\ n \in Nat /\ i \in Int /\ i + 1 \in 2 .. n + 2 - cut
          BY <1>2, <3>1
        <5> HIDE DEF n
        <5> QED BY Zenon, <5>1, KeptPlaces
      <4> QED BY <4>1, <4>2, <4>3
    <3> QED BY <1>9, <2>2, <3>2 DEF Answered
  <2>3. ASSUME NEW i \in 1 .. Len(s), s[i].answer # 0 PROVE i > 1 /\ s[i - 1].use = s[i].answer
    <3>1. i \in 2 .. n + 2 - cut
      BY <1>2, <1>3, <1>6, <2>3
    <3>2. s[i] = t[cut + i - 2] /\ cut + i - 2 \in 1 .. n
      BY <1>7, <3>1
    <3>3. IsMessage(s[i])
      BY <1>8 DEF Messages
    <3>4. i # 2
      <4>1. CASE i = 2
        <5>1. s[i].use # 0
          BY <1>2, <3>1, <3>2, <4>1
        <5> QED BY <2>3, <3>3, <5>1 DEF IsMessage
      <4> QED BY <4>1
    <3>5. i - 1 \in 2 .. n + 2 - cut /\ cut + (i - 1) - 2 = (cut + i - 2) - 1
      BY <1>2, <3>1, <3>4
    <3>6. s[i - 1] = t[(cut + i - 2) - 1]
      BY <1>7, <3>5
    <3> QED BY <1>9, <2>3, <3>1, <3>2, <3>6 DEF Answered
  <2> QED BY <2>1, <2>2, <2>3 DEF Answered
<1>10. ASSUME t # <<>>, t[Len(t)].role = "user" PROVE s[Len(s)].role = "user"
  <2>1. CASE cut = n + 1
    BY <1>2, <1>3, <1>6, <2>1
  <2>2. CASE cut # n + 1
    <3>1. Len(s) \in 2 .. n + 2 - cut /\ cut + Len(s) - 2 = n
      BY <1>2, <1>6, <2>2
    <3> QED BY <1>7, <1>10, <3>1
  <2> QED BY <2>1, <2>2
<1> QED BY <1>8, <1>9, <1>10

\* A nonempty set of numbers has a least element.
LEMMA LeastNumber ==
  ASSUME NEW T \in SUBSET Nat, T # {} PROVE \E x \in T : \A y \in T : x =< y
<1>2. PICK x \in T : \A y \in T : ~(<<y, x>> \in OpToRel(<, Nat))
  BY ZenonT(60), NatLessThanWellFounded, WFMin
<1>3. \A y \in T : y \in Nat /\ x \in Nat /\ ~(y < x)
  BY <1>2 DEF OpToRel
<1>4. \A y \in T : x =< y
  BY <1>3
<1> QED BY ZenonT(60), <1>2, <1>4

LEMMA CutAtACall ==
  ASSUME NEW t, Messages(t), NEW keeps, NEW cut \in AnyCut(t, keeps)
  PROVE  cut \in 3 .. Len(t) + 1 /\ (cut =< Len(t) => t[cut].use # 0)
<1>1. \E keep : cut \in FindCut(t, keep)
  BY Zenon DEF AnyCut
<1>2. PICK keep : cut \in FindCut(t, keep)
  BY <1>1
<1>3. DOMAIN t = 1 .. Len(t) /\ Len(t) \in Nat
  BY DEF Messages, IsSeq
<1>4. cut > 2 /\ (cut = Len(t) + 1 \/ cut \in OpensACycle(t))
  BY Zenon, <1>2 DEF FindCut, CutStarts
<1> QED BY <1>3, <1>4 DEF OpensACycle

LEMMA CompactKeeps ==
  ASSUME Messages(transcript), NEW forced \in BOOLEAN, NEW freed \in BOOLEAN, Compact(forced, freed)
  PROVE  /\ Messages(transcript')
         /\ Answered(transcript) => Answered(transcript')
         /\ transcript # <<>> /\ transcript[Len(transcript)].role = "user" =>
              transcript' # <<>> /\ transcript'[Len(transcript')].role = "user"
         /\ Vouched(fileCache.version, transcript) => Vouched(fileCache'.version, transcript')
<1> DEFINE keep == IF forced THEN 1 ELSE ElideAfterCycles
           thin == Elide(transcript, keep)
           elided == Freed(transcript, keep)
           keeps == IF forced THEN ForcedKeeps ELSE <<KeepCycles>>
<1>1. \/ transcript' = transcript /\ fileCache' = fileCache
      \/ transcript' = thin /\ fileCache' = NoFile
      \/ transcript' = thin /\ ~elided /\ fileCache' = fileCache
      \/ \E cut \in AnyCut(thin, keeps) : transcript' = Rebuild(thin, cut) /\ fileCache' = NoFile
  BY Zenon DEF Compact, ForgetFiles
<1>0. thin = Elide(transcript, keep) /\ elided = Freed(transcript, keep)
  OBVIOUS
<1> HIDE DEF keep, keeps, thin, elided
<1>2. /\ Messages(thin) /\ Len(thin) = Len(transcript)
      /\ \A i \in 1 .. Len(transcript) :
           /\ thin[i].role = transcript[i].role /\ thin[i].use = transcript[i].use
           /\ thin[i].answer = transcript[i].answer
      /\ ~elided => \A i \in 1 .. Len(transcript) : thin[i].about = transcript[i].about
  BY <1>0, ElideKeeps
<1>3. Answered(transcript) => Answered(thin)
  BY <1>2, AnsweredAlike
<1>4. transcript # <<>> /\ transcript[Len(transcript)].role = "user" => thin # <<>> /\ thin[Len(thin)].role = "user"
  <2>1. Len(transcript) \in Nat /\ (transcript = <<>> <=> Len(transcript) = 0) /\ (thin = <<>> <=> Len(thin) = 0)
    BY <1>2 DEF Messages, IsSeq
  <2> QED BY <1>2, <2>1
<1>5. NoFile.version = 0
  BY DEF NoFile
<1>6. CASE transcript' = transcript /\ fileCache' = fileCache
  BY <1>6
<1>7. CASE transcript' = thin /\ (fileCache' = NoFile \/ (~elided /\ fileCache' = fileCache))
  BY <1>2, <1>3, <1>4, <1>5, <1>7 DEF Vouched
<1>8. CASE \E cut \in AnyCut(thin, keeps) : transcript' = Rebuild(thin, cut) /\ fileCache' = NoFile
  <2>1. PICK cut \in AnyCut(thin, keeps) : transcript' = Rebuild(thin, cut) /\ fileCache' = NoFile
    BY <1>8
  <2>2. cut \in 3 .. Len(thin) + 1 /\ (cut =< Len(thin) => thin[cut].use # 0)
    BY <1>2, CutAtACall
  <2>3. /\ Messages(transcript') /\ transcript' # <<>>
        /\ Answered(thin) => Answered(transcript')
        /\ thin # <<>> /\ thin[Len(thin)].role = "user" => transcript'[Len(transcript')].role = "user"
    BY <1>2, <2>1, <2>2, RebuildKeeps
  <2> QED BY <1>3, <1>4, <1>5, <2>1, <2>3 DEF Vouched
<1> QED BY <1>1, <1>6, <1>7, <1>8

LEMMA Counting ==
  ASSUME NEW S, 0 \in S, \A n \in Nat : n \in S => n + 1 \in S PROVE Nat \subseteq S
<1> SUFFICES ASSUME Nat \ S # {} PROVE FALSE
  OBVIOUS
<1>1. PICK x \in Nat \ S : \A y \in Nat \ S : x =< y
  BY LeastNumber
<1>2. x # 0 /\ x - 1 \in Nat /\ x = (x - 1) + 1
  BY <1>1
<1>3. x - 1 \in S
  BY <1>1, <1>2
<1> QED BY <1>1, <1>2, <1>3

\* A list of lists is joined one list after the other.
LEMMA Flattening ==
  ASSUME NEW T, NEW ss \in Seq(Seq(T)), ss # <<>>
  PROVE  \E flat : /\ FlattenSeq(ss) = flat[Len(ss)]
                   /\ \A i \in 1 .. Len(ss) : flat[i] = IF i = 1 THEN ss[i] ELSE flat[i - 1] \o ss[i]
<1> DEFINE flatten[i \in 1 .. Len(ss)] == IF i = 1 THEN ss[i] ELSE flatten[i - 1] \o ss[i]
           IsIt(f, m) == f = [i \in 1 .. m |-> IF i = 1 THEN ss[i] ELSE f[i - 1] \o ss[i]]
<1>0. Len(ss) \in Nat \ {0} /\ DOMAIN ss = 1 .. Len(ss)
  OBVIOUS
<1>1. FlattenSeq(ss) = flatten[Len(ss)]
  <2>1. Len(ss) # 0
    BY <1>0
  <2> QED BY Zenon, <2>1 DEF FlattenSeq
<1>2. flatten = CHOOSE f : IsIt(f, Len(ss))
  OBVIOUS
<1> HIDE DEF flatten
<1>3. \A m \in Nat : \E f : IsIt(f, m)
  <2> DEFINE S == {m \in Nat : \E f : IsIt(f, m)}
  <2>1. 0 \in S
    <3>1. IsIt([i \in 1 .. 0 |-> 0], 0)
      OBVIOUS
    <3> QED BY <3>1
  <2>2. \A m \in Nat : m \in S => m + 1 \in S
    <3> SUFFICES ASSUME NEW m \in Nat, m \in S PROVE m + 1 \in S
      OBVIOUS
    <3>0. PICK f : IsIt(f, m)
      OBVIOUS
    <3> DEFINE h == [i \in 1 .. m + 1 |-> IF i \in 1 .. m THEN f[i] ELSE IF i = 1 THEN ss[i] ELSE f[i - 1] \o ss[i]]
    <3>1. \A i \in 1 .. m + 1 : h[i] = IF i = 1 THEN ss[i] ELSE h[i - 1] \o ss[i]
      <4> TAKE i \in 1 .. m + 1
      <4>1. CASE i = 1
        BY <3>0, <4>1
      <4>2. CASE i # 1
        <5>1. i - 1 \in 1 .. m /\ h[i - 1] = f[i - 1]
          BY SMTT(60), <4>2
        <5>2. h[i] = f[i - 1] \o ss[i]
          BY ZenonT(60), <3>0, <4>2, <5>1
        <5> QED BY <4>2, <5>1, <5>2
      <4> QED BY <4>1, <4>2
    <3>2. IsIt(h, m + 1)
      BY ZenonT(60), <3>1
    <3>3. \E k : IsIt(k, m + 1)
      BY Zenon, <3>2
    <3>4. m + 1 \in Nat
      OBVIOUS
    <3> QED BY Zenon, <3>3, <3>4
  <2> HIDE DEF S
  <2>3. Nat \subseteq S
    BY <2>1, <2>2, Counting
  <2> QED BY <2>3 DEF S
<1>4. flatten = [i \in 1 .. Len(ss) |-> IF i = 1 THEN ss[i] ELSE flatten[i - 1] \o ss[i]]
  <2>1. IsIt(flatten, Len(ss))
    BY ZenonT(60), <1>0, <1>2, <1>3
  <2> QED BY ZenonT(60), <2>1
<1>5. \A i \in 1 .. Len(ss) : flatten[i] = IF i = 1 THEN ss[i] ELSE flatten[i - 1] \o ss[i]
  BY <1>4
<1> QED BY <1>1, <1>5

LEMMA Before == \A k \in Nat : k # 0 => k + 1 # 1 /\ (k + 1) - 1 = k
  OBVIOUS

LEMMA SinglesOf ==
  ASSUME NEW T, NEW h \in Seq(T), NEW flat, NEW m \in 0 .. Len(h)
  PROVE  (\A i \in 1 .. m : flat[i] = IF i = 1 THEN <<h[i]>> ELSE flat[i - 1] \o <<h[i]>>)
         => \A k \in 1 .. m : flat[k] \in Seq(T) /\ Len(flat[k]) = k /\ \A j \in 1 .. k : flat[k][j] = h[j]
<1> DEFINE Good(k) == flat[k] \in Seq(T) /\ Len(flat[k]) = k /\ \A j \in 1 .. k : flat[k][j] = h[j]
           S == {k \in Nat : k \in 1 .. m => Good(k)}
<1>j. SUFFICES ASSUME \A i \in 1 .. m : flat[i] = IF i = 1 THEN <<h[i]>> ELSE flat[i - 1] \o <<h[i]>>
                PROVE  \A k \in 1 .. m : Good(k)
  OBVIOUS
<1>0. Len(h) \in Nat /\ m \in Nat /\ m =< Len(h) /\ \A i \in 1 .. m : h[i] \in T /\ <<h[i]>> \in Seq(T)
  OBVIOUS
<1>1. 0 \in S
  OBVIOUS
<1>2. ASSUME NEW k \in Nat, k \in S PROVE k + 1 \in S
  <2> SUFFICES ASSUME k + 1 \in 1 .. m PROVE Good(k + 1)
    OBVIOUS
  <2>1. CASE k = 0
    <3>1. flat[1] = <<h[1]>> /\ h[1] \in T /\ <<h[1]>> \in Seq(T)
      <4>1. 1 \in 1 .. m
        BY <1>0, <2>1
      <4> QED BY Zenon, <1>j, <1>0, <4>1
    <3> DEFINE x == h[1]
    <3>2. x \in T /\ flat[1] = <<x>> /\ x = h[1]
      BY <3>1
    <3> HIDE DEF x
    <3>3. flat[1] \in Seq(T) /\ Len(flat[1]) = 1 /\ flat[1][1] = h[1]
      BY <3>2
    <3>4. k + 1 = 1 /\ 1 .. k + 1 = {1}
      BY <2>1
    <3> QED BY <3>3, <3>4
  <2>2. CASE k # 0
    <3>1. Good(k) /\ k \in 1 .. m
      BY <1>2, <2>2
    <3>2. flat[k + 1] = flat[k] \o <<h[k + 1]>>
      <4>1. k + 1 # 1 /\ (k + 1) - 1 = k
        BY Zenon, <2>2, Before
      <4> QED BY Zenon, <1>j, <4>1
    <3>3. h[k + 1] \in T
      BY <1>0
    <3> DEFINE a == flat[k]
               x == h[k + 1]
    <3>4. a \in Seq(T) /\ x \in T /\ flat[k + 1] = a \o <<x>> /\ Len(a) = k /\ \A j \in 1 .. k : a[j] = h[j]
      BY <3>1, <3>2, <3>3
    <3> HIDE DEF a
    <3>5. flat[k + 1] = Append(a, x)
      <4> HIDE DEF x
      <4> QED BY <3>4
    <3>6. flat[k + 1] \in Seq(T) /\ Len(flat[k + 1]) = k + 1 /\ flat[k + 1][k + 1] = x /\ \A j \in 1 .. k : flat[k + 1][j] = a[j]
      <4> HIDE DEF x
      <4> QED BY SMTT(60), <3>4, <3>5
    <3> QED BY <3>4, <3>6
  <2> QED BY <2>1, <2>2
<1> HIDE DEF S
<1>3. Nat \subseteq S
  BY <1>1, <1>2, Counting
<1> QED BY <1>0, <1>3 DEF S

\* s is how h begins; flat collects h one by one.
Prefix(s, h, k) == IsSeq(s) /\ Len(s) = k /\ \A j \in 1 .. k : s[j] = h[j]
OneByOne(flat, h, m) == \A i \in 1 .. m : flat[i] = IF i = 1 THEN <<h[i]>> ELSE flat[i - 1] \o <<h[i]>>

LEMMA SinglesJoined ==
  ASSUME NEW h, IsSeq(h), NEW n, Len(h) = n, NEW flat, NEW m \in 0 .. n, OneByOne(flat, h, m)
  PROVE  \A k \in 1 .. m : Prefix(flat[k], h, k)
<1>1. PICK T : h \in Seq(T)
  BY Zenon DEF IsSeq
<1>2. m \in 0 .. Len(h)
  OBVIOUS
<1>3. \A k \in 1 .. m : flat[k] \in Seq(T) /\ Len(flat[k]) = k /\ \A j \in 1 .. k : flat[k][j] = h[j]
  <2>1. \A i \in 1 .. m : flat[i] = IF i = 1 THEN <<h[i]>> ELSE flat[i - 1] \o <<h[i]>>
    BY Zenon DEF OneByOne
  <2> QED BY ONLY <1>1, <1>2, <2>1, SinglesOf
<1> QED BY Zenon, <1>3 DEF Prefix, IsSeq

LEMMA SameSequence ==
  ASSUME NEW a, NEW b, IsSeq(b), Prefix(a, b, Len(b)) PROVE a = b
<1>0. PICK T, U : a \in Seq(T) /\ b \in Seq(U)
  BY Zenon DEF IsSeq, Prefix
<1>1. a \in Seq(T \cup U) /\ b \in Seq(T \cup U)
  BY <1>0
<1>2. Len(a) = Len(b) /\ \A j \in 1 .. Len(b) : a[j] = b[j]
  BY Zenon DEF Prefix
<1> QED BY <1>1, <1>2

LEMMA TrimmedAlready ==
  ASSUME NEW t, Messages(t), t # <<>>, t[1].role = "user", t[Len(t)].role = "user"
  PROVE  TrimEdges(t) = t
<1> DEFINE users == {i \in DOMAIN t : t[i].role = "user"}
           first == CHOOSE i \in users : \A j \in users : i <= j
           last == CHOOSE i \in users : \A j \in users : i >= j
<1>1. PICK T : t \in Seq(T)
  BY DEF Messages, IsSeq
<1>2. 1 \in users /\ Len(t) \in users /\ users \subseteq 1 .. Len(t) /\ Len(t) \in Nat
  BY <1>1
<1> HIDE DEF users
<1>3. first = 1
  <2>1. \E i \in users : \A j \in users : i <= j
    BY <1>2
  <2>2. first \in users /\ \A j \in users : first <= j
    BY Zenon, <2>1
  <2> HIDE DEF first
  <2> QED BY <1>2, <2>2
<1>4. last = Len(t)
  <2>1. \E i \in users : \A j \in users : i >= j
    BY <1>2
  <2>2. last \in users /\ \A j \in users : last >= j
    BY Zenon, <2>1
  <2> HIDE DEF last
  <2> QED BY <1>2, <2>2
<1>5. SubSeq(t, 1, Len(t)) = t
  BY <1>1
<1>6. users # {}
  BY <1>2
<1>7. TrimEdges(t) = IF users = {} THEN <<>> ELSE SubSeq(t, first, last)
  BY Zenon DEF TrimEdges, users
<1> QED BY <1>3, <1>4, <1>5, <1>6, <1>7

Pieces(h, n, due, r) == [i \in 1 .. n + 1 |-> IF i = n /\ due THEN <<h[i], r>> ELSE <<h[i]>>]

\* n messages that answer each other, and one more.
Coupled(h, n) ==
  /\ \A i \in 1 .. n + 1 : IsMessage(h[i])
  /\ \A i \in 1 .. n : h[i].use # 0 /\ i < n => h[i + 1].answer = h[i].use
  /\ \A i \in 1 .. n : h[i].answer # 0 => i > 1 /\ h[i - 1].use = h[i].answer

\* The repair, message by message: only a call that ends the transcript lacks its answer.
LEMMA PairedPieces ==
  ASSUME NEW n \in Nat, NEW h, DOMAIN h = 1 .. n + 1, Len(h) = n + 1, Coupled(h, n),
         h[n + 1].role = "user", h[n + 1].answer = 0,
         NEW due \in BOOLEAN, due <=> n # 0 /\ h[n].use # 0, NEW r, due => r = Result(h[n].use, 0, FALSE)
  PROVE  PairTools(h) = FlattenSeq(Pieces(h, n, due, r))
<1> DEFINE ss == Pieces(h, n, due, r)
<1>a. \A i \in 1 .. n + 1 : ss[i] = IF i = n /\ due THEN <<h[i], r>> ELSE <<h[i]>>
  BY Zenon DEF Pieces
<1>b. ss = [i \in 1 .. n + 1 |-> ss[i]]
  BY Zenon DEF Pieces
<1> HIDE DEF ss
<1>c. /\ \A i \in 1 .. n + 1 : IsMessage(h[i])
      /\ \A i \in 1 .. n : h[i].use # 0 /\ i < n => h[i + 1].answer = h[i].use
      /\ \A i \in 1 .. n : h[i].answer # 0 => i > 1 /\ h[i - 1].use = h[i].answer
  BY Zenon DEF Coupled
<1> DEFINE Asked(i) == IF i = 1 THEN 0 ELSE h[i - 1].use
           Replied(i) == i < Len(h) /\ h[i + 1].answer = h[i].use
           Mended(i) ==
             IF h[i].use # 0 /\ ~Replied(i) THEN <<h[i], Result(h[i].use, 0, FALSE)>>
             ELSE IF h[i].answer \in {0, Asked(i)} THEN <<h[i]>>
             ELSE IF h[i].texts = {} THEN <<>> ELSE <<User(h[i].texts)>>
<1>1. PairTools(h) = FlattenSeq([i \in DOMAIN h |-> Mended(i)])
  BY Zenon DEF PairTools
<1>2. ASSUME NEW i \in 1 .. n + 1 PROVE Mended(i) = ss[i]
  <2>1. h[i].use # 0 => h[i].answer = 0
    BY <1>c DEF IsMessage
  <2>2. h[i].answer # 0 => i # 1 /\ h[i - 1].use = h[i].answer
    BY <1>c, <2>1
  <2>3. h[i].answer \in {0, Asked(i)}
    BY <2>2
  <2>4. (h[i].use # 0 /\ ~Replied(i)) <=> (i = n /\ due)
    <3>1. h[n + 1].use = 0
      BY <1>c DEF IsMessage
    <3>2. CASE i = n + 1
      BY <3>1, <3>2
    <3>3. CASE i = n
      BY <3>3
    <3>4. CASE i < n
      BY <1>c, <3>4
    <3> QED BY <3>2, <3>3, <3>4
  <2>5. CASE i = n /\ due
    <3>1. r = Result(h[i].use, 0, FALSE) /\ ss[i] = <<h[i], r>>
      BY Zenon, <1>a, <2>5
    <3> QED BY Zenon, <2>4, <2>5, <3>1
  <2>6. CASE ~(i = n /\ due)
    <3>1. ss[i] = <<h[i]>>
      BY Zenon, <1>a, <2>6
    <3> QED BY Zenon, <2>3, <2>4, <2>6, <3>1
  <2> QED BY <2>5, <2>6
<1> HIDE DEF Paired
<1>3. [i \in DOMAIN h |-> Mended(i)] = ss
  BY ZenonT(60), <1>b, <1>2
<1> QED BY Zenon, <1>1, <1>3 DEF ss

LEMMA ListOf ==
  ASSUME NEW U, NEW n \in Nat, NEW ss, ss = [i \in 1 .. n + 1 |-> ss[i]], \A i \in 1 .. n + 1 : ss[i] \in U
  PROVE  ss \in Seq(U) /\ Len(ss) = n + 1 /\ ss # <<>>
  OBVIOUS

ListsOf(ss, n) == Len(ss) = n /\ ss # <<>> /\ \E T : ss \in Seq(Seq(T))

LEMMA PiecesTyped ==
  ASSUME NEW n \in Nat, NEW h, IsSeq(h), Len(h) = n + 1, NEW due \in BOOLEAN, NEW r
  PROVE  ListsOf(Pieces(h, n, due, r), n + 1)
<1> DEFINE ss == Pieces(h, n, due, r)
<1>0. PICK U : h \in Seq(U)
  BY Zenon DEF IsSeq
<1> DEFINE T == U \cup {r}
<1>1. \A x \in T : <<x>> \in Seq(T) /\ <<x, r>> \in Seq(T)
  <2> r \in T
    OBVIOUS
  <2> HIDE DEF T
  <2> QED OBVIOUS
<1>t. \A i \in 1 .. n + 1 : h[i] \in T
  BY <1>0
<1> HIDE DEF T
<1>2. \A i \in 1 .. n + 1 : ss[i] \in Seq(T)
  BY Zenon, <1>1, <1>t DEF Pieces
<1>3. ss = [i \in 1 .. n + 1 |-> ss[i]]
  BY Zenon DEF Pieces
<1> HIDE DEF ss
<1>4. ss \in Seq(Seq(T)) /\ Len(ss) = n + 1 /\ ss # <<>>
  BY ONLY n \in Nat, <1>2, <1>3, ListOf
<1> QED BY Zenon, <1>4 DEF ss, ListsOf

Flattens(flat, ss, n) == \A i \in 1 .. n : flat[i] = IF i = 1 THEN ss[i] ELSE flat[i - 1] \o ss[i]

LEMMA Flattened ==
  ASSUME NEW ss, NEW n, ListsOf(ss, n)
  PROVE  \E flat : FlattenSeq(ss) = flat[n] /\ Flattens(flat, ss, n)
<1>1. PICK T : ss \in Seq(Seq(T))
  BY Zenon DEF ListsOf
<1>2. Len(ss) = n /\ ss # <<>>
  BY Zenon DEF ListsOf
<1>3. \E flat : /\ FlattenSeq(ss) = flat[Len(ss)]
                /\ \A i \in 1 .. Len(ss) : flat[i] = IF i = 1 THEN ss[i] ELSE flat[i - 1] \o ss[i]
  BY <1>1, <1>2, Flattening
<1> QED BY Zenon, <1>2, <1>3 DEF Flattens

LEMMA Below ==
  ASSUME NEW n \in Nat, n > 1
  PROVE  /\ n - 1 \in Nat /\ n - 1 \in 0 .. n + 1 /\ n - 1 \in 1 .. n - 1 /\ n # 1 /\ n \in 1 .. n + 1 /\ n + 1 # 1
         /\ (n + 1) - 1 = n /\ n # n + 1 /\ n + 1 \in 1 .. n + 1
         /\ \A i \in 1 .. n - 1 : i # n /\ i \in 1 .. n + 1
  OBVIOUS

LEMMA AppendsSplit ==
  ASSUME NEW a, IsSeq(a), NEW x, NEW r, NEW m
  PROVE  (a \o <<x, r>>) \o <<m>> = Append(Append(Append(a, x), r), m)
<1>1. PICK U : a \in Seq(U)
  BY Zenon DEF IsSeq
<1> DEFINE T == U \cup {x, r, m}
<1>2. a \in Seq(T) /\ x \in T /\ r \in T /\ m \in T
  BY <1>1
<1> HIDE DEF T
<1>3. a \o <<x, r>> = Append(Append(a, x), r)
  BY <1>2
<1>4. Append(Append(a, x), r) \in Seq(T)
  BY <1>2
<1>5. \A b \in Seq(T) : b \o <<m>> = Append(b, m)
  BY <1>2
<1> QED BY Zenon, <1>3, <1>4, <1>5

LEMMA PiecesJoined ==
  ASSUME NEW t, IsSeq(t), NEW m, NEW r, NEW due \in BOOLEAN, due => Len(t) > 1
  PROVE  FlattenSeq(Pieces(Append(t, m), Len(t), due, r)) = IF due THEN Append(Append(t, r), m) ELSE Append(t, m)
<1> DEFINE n == Len(t)
           h == Append(t, m)
           ss == Pieces(h, n, due, r)
<1>1. /\ n \in Nat /\ IsSeq(h) /\ Len(h) = n + 1 /\ h[n + 1] = m
      /\ \A i \in 1 .. n : h[i] = t[i]
  BY Appended
<1> HIDE DEF h, n
<1>2. ListsOf(ss, n + 1)
  <2>1. n \in Nat /\ IsSeq(h) /\ Len(h) = n + 1
    BY <1>1
  <2>2. ListsOf(Pieces(h, n, due, r), n + 1)
    BY ONLY <2>1, PiecesTyped
  <2> QED BY Zenon, <2>2
<1>s. \A i \in 1 .. n + 1 : ss[i] = IF i = n /\ due THEN <<h[i], r>> ELSE <<h[i]>>
  BY Zenon DEF Pieces
<1> HIDE DEF ss
<1>3. PICK flat : FlattenSeq(ss) = flat[n + 1] /\ Flattens(flat, ss, n + 1)
  BY Zenon, <1>2, Flattened
<1>4. CASE ~due
  <2>1. \A i \in 1 .. n + 1 : ss[i] = <<h[i]>>
    BY Zenon, <1>4, <1>s
  <2>2. OneByOne(flat, h, n + 1)
    BY Zenon, <1>3, <2>1 DEF OneByOne, Flattens
  <2>3. n + 1 \in 0 .. n + 1 /\ n + 1 \in 1 .. n + 1
    BY <1>1
  <2>4. Prefix(flat[n + 1], h, n + 1)
    BY Zenon, <1>1, <2>2, <2>3, SinglesJoined
  <2>5. flat[n + 1] = h
    BY Zenon, <1>1, <2>4, SameSequence
  <2> QED BY Zenon, <1>3, <1>4, <2>5 DEF ss, h, n
<1>5. CASE due
  <2>0. n > 1
    BY Zenon, <1>5 DEF n
  <2>1. /\ n - 1 \in Nat /\ n - 1 \in 0 .. n + 1 /\ n - 1 \in 1 .. n - 1 /\ n # 1 /\ n \in 1 .. n + 1 /\ n + 1 # 1
        /\ (n + 1) - 1 = n /\ n # n + 1 /\ n + 1 \in 1 .. n + 1
        /\ \A i \in 1 .. n - 1 : i # n /\ i \in 1 .. n + 1
    BY Zenon, <1>1, <2>0, Below
  <2>2. (\A i \in 1 .. n - 1 : ss[i] = <<h[i]>>) /\ ss[n] = <<h[n], r>> /\ ss[n + 1] = <<h[n + 1]>>
    BY Zenon, <1>5, <1>s, <2>1
  <2>3. OneByOne(flat, h, n - 1)
    BY ZenonT(60), <1>3, <2>1, <2>2 DEF OneByOne, Flattens
  <2>4. Prefix(flat[n - 1], h, n - 1)
    BY Zenon, <1>1, <2>1, <2>3, SinglesJoined
  <2>5. FlattenSeq(ss) = (flat[n - 1] \o <<h[n], r>>) \o <<h[n + 1]>>
    BY Zenon, <1>3, <2>1, <2>2 DEF Flattens
  <2> DEFINE a == flat[n - 1]
             x == h[n]
  <2>6. IsSeq(a) /\ Len(a) = n - 1 /\ x = t[n] /\ \A j \in 1 .. n - 1 : a[j] = t[j]
    <3>1. \A j \in 1 .. n - 1 : j \in 1 .. n
      BY <1>1
    <3>2. n \in 1 .. n
      BY <1>1, <2>0
    <3> QED BY Zenon, <1>1, <2>4, <3>1, <3>2 DEF Prefix
  <2> HIDE DEF a, x
  <2>7. Append(a, x) = t
    <3>1. /\ IsSeq(Append(a, x)) /\ Len(Append(a, x)) = (n - 1) + 1
          /\ \A i \in 1 .. n - 1 : Append(a, x)[i] = a[i]
          /\ Append(a, x)[(n - 1) + 1] = x
      <4>1. /\ IsSeq(Append(a, x)) /\ Len(Append(a, x)) = Len(a) + 1
            /\ \A i \in 1 .. Len(a) : Append(a, x)[i] = a[i]
            /\ Append(a, x)[Len(a) + 1] = x
        <5>1. IsSeq(a)
          BY Zenon, <2>6
        <5> QED BY ONLY <5>1, Appended
      <4> QED BY Zenon, <2>6, <4>1
    <3>2. (n - 1) + 1 = n /\ \A i \in 1 .. n : i \in 1 .. n - 1 \/ i = n
      BY <1>1, <2>0
    <3>3. \A j \in 1 .. n : Append(a, x)[j] = t[j]
      BY Zenon, <2>6, <3>1, <3>2
    <3>4. Prefix(Append(a, x), t, Len(t))
      BY Zenon, <3>1, <3>2, <3>3 DEF Prefix, n
    <3> QED BY Zenon, <3>4, SameSequence
  <2>8. (a \o <<x, r>>) \o <<m>> = Append(Append(Append(a, x), r), m)
    <3>1. IsSeq(a)
      BY Zenon, <2>6
    <3> QED BY ONLY <3>1, AppendsSplit
  <2>9. FlattenSeq(ss) = Append(Append(t, r), m)
    <3>1. FlattenSeq(ss) = (a \o <<x, r>>) \o <<m>>
      BY Zenon, <1>1, <2>5 DEF a, x
    <3> QED BY Zenon, <2>7, <2>8, <3>1
  <2> QED BY Zenon, <1>5, <2>9 DEF ss, h, n
<1> QED BY Zenon, <1>4, <1>5

\* The prompt follows the transcript, or the error that answers its last call.
LEMMA SeededSound ==
  ASSUME NEW t, Messages(t), Answered(t), NEW m, IsMessage(m), m.role = "user", m.answer = 0,
         NEW s, s = RepairTranscript(Append(t, m))
  PROVE  Messages(s) /\ Answered(s) /\ s # <<>> /\ s[Len(s)].role = "user"
<1> DEFINE h == Append(t, m)
           n == Len(t)
           due == n # 0 /\ h[n].use # 0
           r == Result(h[n].use, 0, FALSE)
<1>1. IsSeq(t) /\ n \in Nat /\ (t = <<>> <=> n = 0)
  BY DEF Messages, IsSeq
<1>2. /\ Messages(h) /\ Len(h) = n + 1 /\ h # <<>> /\ h[n + 1] = m
      /\ \A i \in 1 .. n : h[i] = t[i]
  BY MessagesAppend
<1>3. DOMAIN h = 1 .. n + 1
  <2>1. DOMAIN h = 1 .. Len(h)
    <3> HIDE DEF h
    <3> QED BY <1>2 DEF Messages, IsSeq
  <2> QED BY Zenon, <1>2, <2>1
<1>4. /\ \A i \in 1 .. n : t[i].use # 0 /\ i < n => t[i + 1].answer = t[i].use
      /\ \A i \in 1 .. n : t[i].answer # 0 => i > 1 /\ t[i - 1].use = t[i].answer
      /\ n # 0 => t[1].role = "user"
  BY Zenon, <1>1 DEF Answered
<1> HIDE DEF h, n
<1>5. \A i \in 1 .. n + 1 : IsMessage(h[i])
  BY Zenon, <1>2 DEF Messages
<1>6. \A i \in 1 .. n : h[i].use # 0 /\ i < n => h[i + 1].answer = h[i].use
  <2> SUFFICES ASSUME NEW i \in 1 .. n, h[i].use # 0, i < n PROVE h[i + 1].answer = h[i].use
    OBVIOUS
  <2>1. i + 1 \in 1 .. n
    BY ONLY <1>1, i \in 1 .. n, i < n
  <2> QED BY Zenon, <1>2, <1>4, <2>1
<1>7. \A i \in 1 .. n : h[i].answer # 0 => i > 1 /\ h[i - 1].use = h[i].answer
  <2> SUFFICES ASSUME NEW i \in 1 .. n, h[i].answer # 0 PROVE i > 1 /\ h[i - 1].use = h[i].answer
    OBVIOUS
  <2>1. i > 1 /\ t[i - 1].use = t[i].answer
    BY Zenon, <1>2, <1>4
  <2>2. i - 1 \in 1 .. n
    BY ONLY <1>1, <2>1, i \in 1 .. n
  <2> QED BY Zenon, <1>2, <2>1, <2>2
<1>8. due => n > 1 /\ h[n] = t[n] /\ h[n].answer = 0 /\ h[n].use # 0
  <2> SUFFICES ASSUME due PROVE n > 1 /\ h[n] = t[n] /\ h[n].answer = 0 /\ h[n].use # 0
    OBVIOUS
  <2>1. n \in 1 .. n /\ n \in 1 .. n + 1 /\ n # 0
    BY <1>1
  <2>2. IsMessage(h[n]) /\ h[n] = t[n]
    BY Zenon, <1>2, <1>5, <2>1
  <2>3. h[n].role = "assistant" /\ h[n].answer = 0
    BY Zenon, <2>2 DEF IsMessage
  <2>4. n # 1
    BY <1>4, <2>1, <2>2, <2>3
  <2>5. n > 1
    BY ONLY <1>1, <2>1, <2>4
  <2> QED BY Zenon, <2>1, <2>2, <2>3, <2>5
<1> HIDE DEF r, due
<1>9. PairTools(h) = FlattenSeq(Pieces(h, n, due, r))
  <2>1. h[n + 1].role = "user" /\ h[n + 1].answer = 0
    BY Zenon, <1>2
  <2>2. due <=> n # 0 /\ h[n].use # 0
    BY Zenon DEF due
  <2>3. due \in BOOLEAN
    BY Zenon DEF due
  <2>4. due => r = Result(h[n].use, 0, FALSE)
    BY Zenon DEF r
  <2>5. Coupled(h, n)
    BY Zenon, <1>5, <1>6, <1>7 DEF Coupled
  <2>6. n \in Nat /\ Len(h) = n + 1
    BY Zenon, <1>1, <1>2
  <2> QED BY ONLY ZenonT(60), <1>3, <2>1, <2>2, <2>3, <2>4, <2>5, <2>6, PairedPieces
<1>10. PairTools(h) = IF due THEN Append(Append(t, r), m) ELSE h
  <2>1. due => Len(t) > 1
    BY Zenon, <1>8 DEF n
  <2>2. due \in BOOLEAN
    BY Zenon DEF due
  <2>3. FlattenSeq(Pieces(Append(t, m), Len(t), due, r)) = IF due THEN Append(Append(t, r), m) ELSE Append(t, m)
    BY ZenonT(60), <1>1, <2>1, <2>2, PiecesJoined
  <2> QED BY Zenon, <1>9, <2>3 DEF h, n
<1>11. s = TrimEdges(PairTools(h))
  BY Zenon DEF RepairTranscript, h
<1> DEFINE q == PairTools(h)
<1>12. Messages(q) /\ Answered(q) /\ q # <<>> /\ q[Len(q)] = m
  <2>1. CASE ~due
    <3>1. q = h
      BY Zenon, <1>10, <2>1
    <3>2. Answered(h)
      <4>1. t # <<>> => n \in 1 .. n /\ h[n] = t[n] /\ n # 0
        BY <1>1, <1>2
      <4>2. t # <<>> => t[Len(t)].use = 0
        BY Zenon, <2>1, <4>1 DEF due, n
      <4> QED BY Zenon, <4>2, AnswersAppend DEF h
    <3> QED BY Zenon, <1>2, <3>1, <3>2
  <2>2. CASE due
    <3> DEFINE a == Append(t, r)
    <3>1. IsMessage(r) /\ r.role = "user" /\ r.use = 0 /\ r.answer = h[n].use
      <4>1. r = Result(h[n].use, 0, FALSE)
        BY Zenon DEF r
      <4> QED BY ONLY <4>1 DEF Result, User, IsMessage, MessageFields
    <3>2. t # <<>> /\ t[Len(t)].use = r.answer /\ t[Len(t)].use # 0
      <4>1. n # 0
        BY <1>1, <1>8, <2>2
      <4>2. t # <<>> /\ t[n].use = r.answer /\ t[n].use # 0
        BY Zenon, <1>1, <1>8, <2>2, <3>1, <4>1
      <4> QED BY Zenon, <4>2 DEF n
    <3>3. Messages(a) /\ Len(a) = Len(t) + 1 /\ a # <<>> /\ a[Len(t) + 1] = r
      <4>1. IsMessage(r)
        BY Zenon, <3>1
      <4> QED BY ONLY <4>1, Messages(t), MessagesAppend
    <3>4. Answered(a)
      <4>1. IsMessage(r)
        BY Zenon, <3>1
      <4> QED BY ONLY <3>2, <4>1, Messages(t), Answered(t), AnswersAppend
    <3> HIDE DEF a
    <3>5. a[Len(a)].use = 0
      BY Zenon, <3>1, <3>3
    <3>6. Messages(Append(a, m)) /\ Append(a, m) # <<>> /\ Append(a, m)[Len(Append(a, m))] = m
      <4>1. Messages(Append(a, m)) /\ Append(a, m) # <<>> /\ Len(Append(a, m)) = Len(a) + 1 /\ Append(a, m)[Len(a) + 1] = m
        BY ONLY <3>3, IsMessage(m), MessagesAppend
      <4> QED BY Zenon, <4>1
    <3>7. Answered(Append(a, m))
      BY Zenon, <3>3, <3>4, <3>5, AnswersAppend
    <3>8. q = Append(a, m)
      BY Zenon, <1>10, <2>2 DEF a
    <3> QED BY Zenon, <3>6, <3>7, <3>8
  <2> QED BY Zenon, <2>1, <2>2
<1> HIDE DEF q
<1>13. q[1].role = "user"
  BY Zenon, <1>12 DEF Answered
<1>14. TrimEdges(q) = q
  BY Zenon, <1>12, <1>13, TrimmedAlready
<1> QED BY Zenon, <1>11, <1>12, <1>14 DEF q

Ending(t) == t[Len(t)]

\* The loop says one thing more: an answer exactly where one is due.
LEMMA SaidNext ==
  ASSUME NEW t, Messages(t), NEW m, IsMessage(m), NEW s, s = Append(t, m)
  PROVE  /\ Messages(s) /\ s # <<>> /\ Ending(s) = m
         /\ Answered(t) /\ t # <<>> /\ Ending(t).use = m.answer => Answered(s)
         /\ \A v : Vouched(v, t) => Vouched(v, s)
         /\ Vouched(m.about, s)
<1>1. /\ Messages(s) /\ Len(t) \in Nat /\ Len(s) = Len(t) + 1 /\ s # <<>>
      /\ \A i \in 1 .. Len(t) : s[i] = t[i]
      /\ s[Len(t) + 1] = m
  BY MessagesAppend
<1>2. Ending(s) = m
  BY Zenon, <1>1 DEF Ending
<1>3. ASSUME Answered(t), t # <<>>, Ending(t).use = m.answer PROVE Answered(s)
  <2>1. t[Len(t)].use = m.answer
    BY Zenon, <1>3 DEF Ending
  <2> QED BY Zenon, <1>3, <2>1, AnswersAppend
<1>4. (\A i \in 1 .. Len(t) : i \in 1 .. Len(s)) /\ Len(t) + 1 \in 1 .. Len(s)
  BY <1>1
<1>5. \A v : Vouched(v, t) => Vouched(v, s)
  BY Zenon, <1>1, <1>4 DEF Vouched
<1>6. Vouched(m.about, s)
  BY Zenon, <1>1, <1>4 DEF Vouched
<1> QED BY Zenon, <1>1, <1>2, <1>3, <1>5, <1>6

LEMMA ListMade ==
  ASSUME NEW U, NEW n \in Nat, NEW ss, ss = [i \in 1 .. n |-> ss[i]], \A i \in 1 .. n : ss[i] \in U
  PROVE  ss \in Seq(U) /\ Len(ss) = n
  OBVIOUS

WithLast(t, y) == [t EXCEPT ![Len(t)] = y]

LEMMA LastReplaced ==
  ASSUME NEW t, IsSeq(t), NEW y
  PROVE  /\ IsSeq(WithLast(t, y)) /\ Len(WithLast(t, y)) = Len(t) /\ Len(t) \in Nat /\ (t = <<>> <=> Len(t) = 0)
         /\ \A i \in 1 .. Len(t) : WithLast(t, y)[i] = IF i = Len(t) THEN y ELSE t[i]
<1> DEFINE s == WithLast(t, y)
           n == Len(t)
<1>1. PICK U : t \in Seq(U)
  BY Zenon DEF IsSeq
<1> DEFINE T == U \cup {y}
<1>2. t \in Seq(T) /\ y \in T
  BY <1>1
<1> HIDE DEF T
<1>3. n \in Nat /\ (t = <<>> <=> n = 0) /\ DOMAIN t = 1 .. n /\ \A i \in 1 .. n : t[i] \in T
  BY <1>2
<1>4. s = [t EXCEPT ![n] = y]
  BY DEF WithLast
<1> HIDE DEF n, s
<1>5. \A i \in 1 .. n : s[i] = IF i = n THEN y ELSE t[i]
  BY Zenon, <1>3, <1>4
<1>6. s = [i \in 1 .. n |-> s[i]] /\ \A i \in 1 .. n : s[i] \in T
  BY Zenon, <1>2, <1>3, <1>4
<1>7. s \in Seq(T) /\ Len(s) = n
  BY ONLY <1>3, <1>6, ListMade
<1> QED BY Zenon, <1>3, <1>5, <1>7 DEF IsSeq, n, s

WithTexts(t, x) == [t EXCEPT ![Len(t)].texts = @ \union x]

\* What the operator typed joins the message the transcript ends on.
LEMMA JoinedToLast ==
  ASSUME NEW t, Messages(t), NEW x, NEW s, s = WithTexts(t, x)
  PROVE  /\ Messages(s)
         /\ Answered(t) => Answered(s)
         /\ t # <<>> => s # <<>> /\ Ending(s).role = Ending(t).role
         /\ \A v : Vouched(v, t) => Vouched(v, s)
<1> DEFINE n == Len(t)
           m == [t[n] EXCEPT !.texts = @ \union x]
<1>1. s = WithLast(t, m)
  BY DEF WithLast, WithTexts
<1>i. IsSeq(t)
  BY Zenon DEF Messages
<1>p. m = [t[n] EXCEPT !.texts = @ \union x]
  OBVIOUS
<1> HIDE DEF m
<1>2. /\ IsSeq(s) /\ Len(s) = n /\ n \in Nat /\ (t = <<>> <=> n = 0)
      /\ \A i \in 1 .. n : s[i] = IF i = n THEN m ELSE t[i]
  BY ONLY <1>1, <1>i, LastReplaced
<1>3. \A i \in 1 .. n : IsMessage(t[i])
  BY Zenon DEF Messages
<1>4. n # 0 => IsMessage(m) /\ m.role = t[n].role /\ m.use = t[n].use /\ m.answer = t[n].answer /\ m.about = t[n].about
  <2>1. n # 0 => IsMessage(t[n])
    BY <1>2, <1>3
  <2> QED BY <1>p, <2>1 DEF IsMessage, MessageFields
<1> HIDE DEF n
<1>5. \A i \in 1 .. n : /\ IsMessage(s[i]) /\ s[i].role = t[i].role /\ s[i].use = t[i].use
                        /\ s[i].answer = t[i].answer /\ s[i].about = t[i].about
  <2> SUFFICES ASSUME NEW i \in 1 .. n
               PROVE  /\ IsMessage(s[i]) /\ s[i].role = t[i].role /\ s[i].use = t[i].use
                      /\ s[i].answer = t[i].answer /\ s[i].about = t[i].about
    OBVIOUS
  <2>1. CASE i = n
    <3>1. n # 0
      BY <1>2, <2>1
    <3> QED BY Zenon, <1>2, <1>4, <2>1, <3>1
  <2>2. CASE i # n
    BY Zenon, <1>2, <1>3, <2>2
  <2> QED BY <2>1, <2>2
<1>6. Messages(s)
  BY Zenon, <1>2, <1>5 DEF Messages
<1>7. Answered(t) => Answered(s)
  <2>1. Len(s) = Len(t) /\ \A i \in 1 .. Len(t) : s[i].role = t[i].role /\ s[i].use = t[i].use /\ s[i].answer = t[i].answer
    BY Zenon, <1>2, <1>5 DEF n
  <2> QED BY ONLY <1>6, <2>1, Messages(t), AnsweredAlike
<1>8. t # <<>> => s # <<>> /\ Ending(s).role = Ending(t).role
  <2>1. t # <<>> => n \in 1 .. n /\ s # <<>>
    BY <1>2
  <2> QED BY Zenon, <1>2, <1>5, <2>1 DEF Ending, n
<1>9. \A v : Vouched(v, t) => Vouched(v, s)
  BY Zenon, <1>2, <1>5 DEF Vouched, n
<1> QED BY Zenon, <1>6, <1>7, <1>8, <1>9
-----------------------------------------------------------------------------
(* One step of the loop. *)

Unshared == "task" \notin ToolKinds
LoopSound == WardenInv /\ (Unshared => Grounded)

LEMMA Places == \A k \in ToolKinds : k \notin Waits \cup {"idle", "ended"}
  BY WardenAssumption DEF Waits

LEMMA Onward ==
  ASSUME calls' \in Nat, Messages(transcript'), lapAt' \in Waits \cup {"ended"},
         Entrance = "gate" => Answered(transcript'),
         Entrance = "gate" /\ lapAt' # "ended" => transcript' # <<>> /\ Ending(transcript').role = "user",
         Unshared /\ lapAt' # "ended" => Vouched(fileCache'.version, transcript')
  PROVE  LoopSound'
<1>1. lapAt' \in Waits => lapAt' # "ended"
  BY DEF Waits
<1>2. lapAt' \notin ToolKinds /\ lapAt' # "idle"
  BY Places DEF Waits
<1>3. WardenTyped'
  BY Zenon DEF WardenTyped
<1>4. Entrance = "gate" => GateTurn'
  BY Zenon, <1>1, <1>2 DEF GateTurn, Ending
<1>5. Unshared => Grounded'
  BY Zenon, <1>1, <1>2 DEF Grounded, Running
<1> QED BY Zenon, <1>3, <1>4, <1>5 DEF LoopSound, WardenInv, Unshared

LEMMA Standing ==
  ASSUME LoopSound
  PROVE  /\ calls \in Nat /\ Messages(transcript)
         /\ Entrance = "gate" => Answered(transcript)
         /\ Entrance = "gate" /\ lapAt \in Waits =>
              transcript # <<>> /\ Ending(transcript).role = "user" /\ Ending(transcript).use = 0
         /\ Unshared /\ Running => Vouched(fileCache.version, transcript)
<1>1. transcript # <<>> /\ Ending(transcript).role = "user" => Ending(transcript).use = 0
  BY DEF LoopSound, WardenInv, WardenTyped, Messages, IsSeq, Ending, IsMessage
<1> QED BY Zenon, <1>1 DEF LoopSound, WardenInv, WardenTyped, GateTurn, Grounded, Ending

LEMMA RunningWaits == ASSUME lapAt \in Waits PROVE Running /\ lapAt # "ended" /\ lapAt # "idle"
  BY DEF Waits, Running

LEMMA NoChangeSound ==
  ASSUME LoopSound, UNCHANGED wardenVars PROVE LoopSound'
  BY Zenon DEF LoopSound, WardenInv, WardenTyped, GateTurn, Grounded, Vouched, Running, wardenVars

\* The transcript stays: the operator types or interrupts, the loop waits or ends.
LEMMA StaysSound ==
  ASSUME LoopSound, Running, UNCHANGED <<transcript, calls, fileCache>>,
         lapAt' = lapAt \/ lapAt' = "ended" \/ (lapAt \in Waits /\ lapAt' \in Waits)
  PROVE  LoopSound'
<1>1. CASE lapAt' = lapAt
  BY Zenon, <1>1 DEF LoopSound, WardenInv, WardenTyped, GateTurn, Grounded, Vouched, Running
<1>2. CASE lapAt' = "ended" \/ (lapAt \in Waits /\ lapAt' \in Waits)
  BY Zenon, <1>2, Standing, Onward
<1> QED BY Zenon, <1>1, <1>2

LEMMA BeginTurnSound ==
  ASSUME LoopSound, NEW rule, BeginTurn(rule) PROVE LoopSound'
<1> DEFINE carried == IF Entrance = "repl" THEN pending ELSE {}
           m == User({Prompt(prompts + 1)} \union carried)
<1>1. /\ lapAt = "idle" /\ lapAt' = "head"
      /\ transcript' = IF Entrance = "gate" THEN RepairTranscript(Append(transcript, m)) ELSE Append(transcript, m)
      /\ UNCHANGED <<calls, fileCache>>
  BY Zenon DEF BeginTurn
<1>2. IsMessage(m) /\ m.role = "user" /\ m.answer = 0
  BY Zenon, Made
<1> HIDE DEF m
<1>3. Messages(transcript) /\ calls \in Nat /\ (Entrance = "gate" => Answered(transcript))
  BY Zenon, Standing
<1>4. Unshared => fileCache'.version = 0
  BY Zenon, <1>1 DEF LoopSound, Grounded
<1>5. CASE Entrance = "gate"
  <2>1. /\ Messages(transcript') /\ Answered(transcript') /\ transcript' # <<>>
        /\ Ending(transcript').role = "user"
    BY Zenon, <1>1, <1>2, <1>3, <1>5, SeededSound DEF Ending
  <2> QED BY Zenon, <1>1, <1>3, <1>4, <2>1, Onward DEF Waits, Vouched
<1>6. CASE Entrance # "gate"
  <2>1. Messages(transcript')
    BY Zenon, <1>1, <1>2, <1>3, <1>6, MessagesAppend
  <2> QED BY Zenon, <1>1, <1>3, <1>4, <1>6, <2>1, Onward DEF Waits, Vouched
<1> QED BY Zenon, <1>5, <1>6

LEMMA CloseTurnSound ==
  ASSUME LoopSound, CloseTurn PROVE LoopSound'
<1>1. lapAt' = "idle" /\ fileCache' = NoFile /\ UNCHANGED <<transcript, calls>>
  BY Zenon DEF CloseTurn
<1>2. lapAt' \notin Waits /\ lapAt' \notin ToolKinds
  BY <1>1, Places DEF Waits
<1>3. NoFile.version = 0
  BY DEF NoFile
<1> QED BY Zenon, <1>1, <1>2, <1>3 DEF LoopSound, WardenInv, WardenTyped, GateTurn, Grounded, Running

LEMMA CompactedSound ==
  ASSUME LoopSound, lapAt \in Waits, NEW forced \in BOOLEAN, NEW freed \in BOOLEAN, Compact(forced, freed),
         lapAt' \in Waits \cup {"ended"}, UNCHANGED calls
  PROVE  LoopSound'
<1>1. Messages(transcript)
  BY Zenon, Standing
<1>2. /\ Messages(transcript')
      /\ Answered(transcript) => Answered(transcript')
      /\ transcript # <<>> /\ Ending(transcript).role = "user" =>
           transcript' # <<>> /\ Ending(transcript').role = "user"
      /\ Vouched(fileCache.version, transcript) => Vouched(fileCache'.version, transcript')
  BY Zenon, <1>1, CompactKeeps DEF Ending
<1>3. Running
  BY Zenon, RunningWaits
<1> QED BY Zenon, <1>2, <1>3, Standing, Onward

LEMMA MakeRoomSound ==
  ASSUME LoopSound, MakeRoom PROVE LoopSound'
<1>1. lapAt \in Waits /\ lapAt' \in Waits /\ UNCHANGED calls
  BY Zenon DEF MakeRoom, Waits
<1>2. (\E freed \in BOOLEAN : Compact(FALSE, freed)) \/ UNCHANGED <<transcript, fileCache>>
  BY Zenon DEF MakeRoom
<1>3. CASE \E freed \in BOOLEAN : Compact(FALSE, freed)
  BY Zenon, <1>1, <1>3, CompactedSound
<1>4. CASE UNCHANGED <<transcript, fileCache>>
  BY Zenon, <1>1, <1>4, StaysSound, RunningWaits
<1> QED BY Zenon, <1>2, <1>3, <1>4

LEMMA TurnFailsSound ==
  ASSUME LoopSound, NEW kind, TurnFails(kind) PROVE LoopSound'
<1>1. lapAt \in Waits /\ UNCHANGED calls
  BY Zenon DEF TurnFails, Waits
<1>2. \/ \E freed \in BOOLEAN : Compact(TRUE, freed) /\ lapAt' = (IF freed THEN "head" ELSE "ended")
      \/ lapAt' \in Waits \cup {"ended"} /\ UNCHANGED <<transcript, fileCache>>
  BY Zenon DEF TurnFails, Waits
<1>3. CASE \E freed \in BOOLEAN : Compact(TRUE, freed) /\ lapAt' = (IF freed THEN "head" ELSE "ended")
  <2>1. PICK freed \in BOOLEAN : Compact(TRUE, freed) /\ lapAt' = (IF freed THEN "head" ELSE "ended")
    BY Zenon, <1>3
  <2>2. lapAt' \in Waits \cup {"ended"}
    BY Zenon, <2>1 DEF Waits
  <2> QED BY Zenon, <1>1, <2>1, <2>2, CompactedSound
<1>4. CASE lapAt' \in Waits \cup {"ended"} /\ UNCHANGED <<transcript, fileCache>>
  BY Zenon, <1>1, <1>4, StaysSound, RunningWaits
<1> QED BY Zenon, <1>2, <1>3, <1>4

LEMMA ClaimSound ==
  ASSUME LoopSound, ClaimBeforeModel PROVE LoopSound'
<1>1. /\ lapAt = "claim" /\ lapAt' = "model" /\ UNCHANGED <<calls, fileCache>>
      /\ \/ transcript' = transcript
         \/ /\ Ending(transcript).role = "user"
            /\ transcript' = [transcript EXCEPT ![Len(transcript)].texts = @ \union pending]
         \/ Ending(transcript).role # "user" /\ transcript' = Append(transcript, User(pending))
  BY Zenon DEF ClaimBeforeModel, Last, Ending
<1>2. lapAt \in Waits /\ lapAt' \in Waits /\ Running /\ lapAt' # "ended"
  BY <1>1 DEF Waits, Running
<1>3. CASE transcript' = transcript
  BY Zenon, <1>1, <1>2, <1>3, StaysSound
<1>4. CASE /\ Ending(transcript).role = "user"
           /\ transcript' = [transcript EXCEPT ![Len(transcript)].texts = @ \union pending]
  <2>0. transcript' = WithTexts(transcript, pending)
    BY Zenon, <1>4 DEF WithTexts
  <2>1. /\ Messages(transcript')
        /\ Answered(transcript) => Answered(transcript')
        /\ transcript # <<>> => transcript' # <<>> /\ Ending(transcript').role = Ending(transcript).role
        /\ \A v : Vouched(v, transcript) => Vouched(v, transcript')
    BY Zenon, <2>0, Standing, JoinedToLast
  <2> QED BY Zenon, <1>1, <1>2, <2>1, Standing, Onward
<1>5. CASE Ending(transcript).role # "user" /\ transcript' = Append(transcript, User(pending))
  <2>1. /\ Messages(transcript')
        /\ \A v : Vouched(v, transcript) => Vouched(v, transcript')
    BY Zenon, <1>5, Standing, Made, SaidNext
  <2>2. Entrance # "gate"
    BY Zenon, <1>2, <1>5, Standing
  <2> QED BY Zenon, <1>1, <1>2, <2>1, <2>2, Standing, Onward
<1> QED BY Zenon, <1>1, <1>3, <1>4, <1>5

\* The loop says one thing, and goes on only when that is the user's to answer.
LEMMA OneSaid ==
  ASSUME LoopSound, lapAt \in Waits, NEW m, IsMessage(m), m.answer = 0,
         transcript' = Append(transcript, m), UNCHANGED fileCache, calls' \in Nat,
         lapAt' \in Waits \cup {"ended"}, lapAt' # "ended" => m.role = "user"
  PROVE  LoopSound'
<1>1. Running
  BY Zenon, RunningWaits
<1>2. Entrance = "gate" => Answered(transcript) /\ transcript # <<>> /\ Ending(transcript).use = 0
  BY Zenon, Standing
<1>3. /\ Messages(transcript') /\ transcript' # <<>> /\ Ending(transcript') = m
      /\ Entrance = "gate" => Answered(transcript')
      /\ \A v : Vouched(v, transcript) => Vouched(v, transcript')
  BY Zenon, <1>2, Standing, SaidNext
<1> QED BY Zenon, <1>1, <1>3, Standing, Onward

LEMMA TwoSaid ==
  ASSUME LoopSound, lapAt \in Waits, NEW x,
         transcript' = transcript \o <<Assistant(0), User(x)>>, UNCHANGED fileCache, calls' \in Nat,
         lapAt' \in Waits \cup {"ended"}
  PROVE  LoopSound'
<1> DEFINE t == Append(transcript, Assistant(0))
<1>1. Running
  BY Zenon, RunningWaits
<1>2. Entrance = "gate" => Answered(transcript) /\ transcript # <<>> /\ Ending(transcript).use = 0
  BY Zenon, Standing
<1>3. Messages(transcript) /\ IsSeq(transcript)
  BY Zenon, Standing DEF Messages
<1>4. transcript' = Append(t, User(x))
  <2>1. transcript \o <<Assistant(0), User(x)>> = Append(Append(transcript, Assistant(0)), User(x))
    BY ONLY <1>3, AppendedTwo
  <2> QED BY Zenon, <2>1
<1>5. IsMessage(Assistant(0)) /\ Assistant(0).use = 0 /\ Assistant(0).answer = 0
  BY Zenon, Made
<1>6. IsMessage(User(x)) /\ User(x).answer = 0 /\ User(x).role = "user"
  BY Zenon, Made
<1>7. /\ Messages(t) /\ t # <<>> /\ Ending(t) = Assistant(0)
      /\ Entrance = "gate" => Answered(t)
      /\ \A v : Vouched(v, transcript) => Vouched(v, t)
  BY Zenon, <1>2, <1>3, <1>5, SaidNext
<1> HIDE DEF t
<1>8. /\ Messages(transcript') /\ transcript' # <<>> /\ Ending(transcript') = User(x)
      /\ Entrance = "gate" => Answered(transcript')
      /\ \A v : Vouched(v, t) => Vouched(v, transcript')
  BY Zenon, <1>4, <1>5, <1>6, <1>7, SaidNext
<1> QED BY Zenon, <1>1, <1>6, <1>7, <1>8, Standing, Onward

Dropped(id) == Result(id, 0, FALSE)

\* The interrupt finds a call that gets no chance to run: its answer says so.
LEMMA CallDropped ==
  ASSUME LoopSound, lapAt \in Waits, NEW id, NEW x,
         transcript' = transcript \o <<Assistant(id), Dropped(id), User(x)>>,
         UNCHANGED fileCache, calls' \in Nat, lapAt' = "ended"
  PROVE  LoopSound'
<1> DEFINE t == Append(transcript, Assistant(id))
           u == Append(t, Dropped(id))
<1>2. Entrance = "gate" => Answered(transcript) /\ transcript # <<>> /\ Ending(transcript).use = 0
  BY Zenon, Standing
<1>3. Messages(transcript) /\ IsSeq(transcript)
  BY Zenon, Standing DEF Messages
<1>4. transcript' = Append(u, User(x))
  <2>1. transcript \o <<Assistant(id), Dropped(id), User(x)>>
          = Append(Append(Append(transcript, Assistant(id)), Dropped(id)), User(x))
    <3> DEFINE c == Assistant(id)
               d == Dropped(id)
               e == User(x)
    <3> HIDE DEF c, d, e
    <3>1. transcript \o <<c, d, e>> = Append(Append(Append(transcript, c), d), e)
      BY ONLY <1>3, AppendedThree
    <3> QED BY Zenon, <3>1 DEF c, d, e
  <2> QED BY Zenon, <2>1
<1>5. IsMessage(Assistant(id)) /\ Assistant(id).use = id /\ Assistant(id).answer = 0
  BY Zenon, Made
<1>6. IsMessage(User(x)) /\ User(x).answer = 0
  BY Zenon, Made
<1>7. IsMessage(Dropped(id)) /\ Dropped(id).answer = id /\ Dropped(id).use = 0
  BY DEF Dropped, Result, User, IsMessage, MessageFields
<1>8. /\ Messages(t) /\ t # <<>> /\ Ending(t) = Assistant(id)
      /\ Entrance = "gate" => Answered(t)
  BY Zenon, <1>2, <1>3, <1>5, SaidNext
<1> HIDE DEF t
<1>9. /\ Messages(u) /\ u # <<>> /\ Ending(u) = Dropped(id)
      /\ Entrance = "gate" => Answered(u)
  BY Zenon, <1>5, <1>7, <1>8, SaidNext
<1> HIDE DEF u
<1>10. /\ Messages(transcript')
       /\ Entrance = "gate" => Answered(transcript')
  BY Zenon, <1>4, <1>6, <1>7, <1>9, SaidNext
<1> QED BY Zenon, <1>10, Onward

LEMMA AbortedSound ==
  ASSUME LoopSound, NEW tool, NEW full, AbortedAfterModel(tool, full) PROVE LoopSound'
<1>1. lapAt \in Waits /\ lapAt' = "ended" /\ UNCHANGED fileCache /\ lapAt' \in Waits \cup {"ended"}
  BY Zenon DEF AbortedAfterModel, Waits
<1>2. calls' \in Nat
  <2>1. calls \in Nat
    BY Zenon, Standing
  <2> QED BY <2>1 DEF AbortedAfterModel
<1>3. \/ transcript' = transcript \o <<Assistant(calls'), Dropped(calls'), User({Nudge})>>
      \/ transcript' = transcript \o <<Assistant(0), User({Nudge})>>
  BY DEF AbortedAfterModel, Dropped
<1>4. CASE transcript' = transcript \o <<Assistant(calls'), Dropped(calls'), User({Nudge})>>
  BY Zenon, <1>1, <1>2, <1>4, CallDropped
<1>5. CASE transcript' = transcript \o <<Assistant(0), User({Nudge})>>
  BY Zenon, <1>1, <1>2, <1>5, TwoSaid
<1> QED BY Zenon, <1>3, <1>4, <1>5

LEMMA EndsWith ==
  ASSUME LoopSound, lapAt \in Waits, lapAt' = "ended", UNCHANGED <<calls, fileCache>>,
         transcript' = Append(transcript, Assistant(0))
  PROVE  LoopSound'
  BY Zenon, Standing, Made, OneSaid

LEMMA GoesOnWith ==
  ASSUME LoopSound, lapAt \in Waits, lapAt' \in Waits, UNCHANGED <<calls, fileCache>>, NEW x,
         transcript' = transcript \o <<Assistant(0), User(x)>>
  PROVE  LoopSound'
  BY Zenon, Standing, TwoSaid

LEMMA WindDownSound ==
  ASSUME LoopSound, WindDown PROVE LoopSound'
<1>1. /\ lapAt \in Waits /\ lapAt' \in Waits \cup {"ended"} /\ UNCHANGED <<calls, fileCache>>
      /\ \/ lapAt' = "ended" /\ UNCHANGED transcript
         \/ transcript' = Append(transcript, User({Nudge}))
  BY Zenon DEF WindDown, Waits
<1>2. CASE lapAt' = "ended" /\ UNCHANGED transcript
  BY Zenon, <1>1, <1>2, StaysSound, RunningWaits
<1>3. CASE transcript' = Append(transcript, User({Nudge}))
  BY Zenon, <1>1, <1>3, Standing, Made, OneSaid
<1> QED BY Zenon, <1>1, <1>2, <1>3

LEMMA HandoverSound ==
  ASSUME LoopSound, NEW ok, Handover(ok) PROVE LoopSound'
<1>1. /\ lapAt \in Waits /\ lapAt' = "ended" /\ UNCHANGED <<calls, fileCache>>
      /\ transcript' = Append(transcript, Assistant(0)) \/ UNCHANGED transcript
  BY Zenon DEF Handover, Waits
<1>2. CASE UNCHANGED transcript
  BY Zenon, <1>1, <1>2, StaysSound, RunningWaits
<1>3. CASE transcript' = Append(transcript, Assistant(0))
  BY Zenon, <1>1, <1>3, EndsWith
<1> QED BY Zenon, <1>1, <1>2, <1>3

LEMMA BackoffSound ==
  ASSUME LoopSound, Backoff PROVE LoopSound'
<1>1. /\ lapAt \in Waits /\ lapAt' \in Waits \cup {"ended"} /\ UNCHANGED <<transcript, calls, fileCache>>
  BY Zenon DEF Backoff, Waits
<1> QED BY Zenon, <1>1, StaysSound, RunningWaits

LEMMA TruncatedSound ==
  ASSUME LoopSound, NEW full, Truncated(full) PROVE LoopSound'
<1>1. /\ lapAt \in Waits /\ UNCHANGED <<calls, fileCache>>
      /\ \/ lapAt' = "ended" /\ transcript' = Append(transcript, Assistant(0))
         \/ lapAt' \in Waits /\ transcript' = transcript \o <<Assistant(0), User({Nudge})>>
  BY Zenon DEF Truncated, Waits
<1>2. CASE lapAt' = "ended" /\ transcript' = Append(transcript, Assistant(0))
  BY Zenon, <1>1, <1>2, EndsWith
<1>3. CASE lapAt' \in Waits /\ transcript' = transcript \o <<Assistant(0), User({Nudge})>>
  BY Zenon, <1>1, <1>3, GoesOnWith
<1> QED BY Zenon, <1>1, <1>2, <1>3

LEMMA FinishedSound ==
  ASSUME LoopSound, NEW full, Finished(full) PROVE LoopSound'
<1>1. /\ lapAt \in Waits /\ UNCHANGED <<calls, fileCache>>
      /\ \/ lapAt' = "ended" /\ transcript' = Append(transcript, Assistant(0))
         \/ lapAt' \in Waits /\ transcript' = transcript \o <<Assistant(0), User(pending)>>
         \/ lapAt' \in Waits /\ transcript' = transcript \o <<Assistant(0), User({Nudge})>>
  BY Zenon DEF Finished, Waits
<1>2. CASE lapAt' = "ended" /\ transcript' = Append(transcript, Assistant(0))
  BY Zenon, <1>1, <1>2, EndsWith
<1>3. CASE lapAt' \in Waits /\ transcript' = transcript \o <<Assistant(0), User(pending)>>
  BY Zenon, <1>1, <1>3, GoesOnWith
<1>4. CASE lapAt' \in Waits /\ transcript' = transcript \o <<Assistant(0), User({Nudge})>>
  BY Zenon, <1>1, <1>4, GoesOnWith
<1> QED BY Zenon, <1>1, <1>2, <1>3, <1>4

LEMMA AskForToolSound ==
  ASSUME LoopSound, NEW kind \in ToolKinds, NEW full, AskForTool(kind, full) PROVE LoopSound'
<1>1. /\ lapAt \in Waits /\ lapAt' = kind /\ UNCHANGED fileCache
      /\ calls' = calls + 1 /\ transcript' = Append(transcript, Assistant(calls'))
  BY Zenon DEF AskForTool, Waits
<1>2. calls' \in Nat /\ calls' # 0
  <2>1. calls \in Nat
    BY Zenon, Standing
  <2> QED BY <1>1, <2>1
<1>3. IsMessage(Assistant(calls')) /\ Assistant(calls').use = calls' /\ Assistant(calls').answer = 0
  BY Zenon, Made
<1>4. Entrance = "gate" => Answered(transcript) /\ transcript # <<>> /\ Ending(transcript).use = 0
  BY Zenon, <1>1, Standing
<1>5. /\ Messages(transcript') /\ transcript' # <<>> /\ Ending(transcript') = Assistant(calls')
      /\ Entrance = "gate" => Answered(transcript')
      /\ \A v : Vouched(v, transcript) => Vouched(v, transcript')
  BY Zenon, <1>1, <1>3, <1>4, Standing, SaidNext
<1>6. lapAt' \notin Waits /\ lapAt' # "idle" /\ lapAt' \in ToolKinds
  BY <1>1, Places
<1>7. WardenTyped'
  BY Zenon, <1>2, <1>5, <1>6 DEF WardenTyped
<1>8. Entrance = "gate" => GateTurn'
  BY Zenon, <1>2, <1>3, <1>5, <1>6 DEF GateTurn, Ending
<1>9. Unshared => Grounded'
  BY Zenon, <1>1, <1>5, <1>6, RunningWaits, Standing DEF Grounded
<1> QED BY Zenon, <1>7, <1>8, <1>9 DEF LoopSound, WardenInv, Unshared

\* What a tool vouches for afterwards is what it vouched for, or what its result is about.
LEMMA OutcomeAbout ==
  ASSUME Unshared, NEW kind, NEW outcome \in ToolOutcomes(kind), kind \in ToolKinds
  PROVE  outcome.cache = fileCache \/ outcome.cache.version = outcome.result.about
<1>0. kind # "task"
  BY DEF Unshared
<1>1. \/ outcome = Untouched \/ outcome = Written \/ outcome = [Untouched EXCEPT !.disk = diskFile + 1]
      \/ \E how \in {"whole", "window", "refused"} : outcome = ReadFile(how)
  BY <1>0 DEF ToolOutcomes
<1>2. CASE outcome = Untouched \/ outcome = [Untouched EXCEPT !.disk = diskFile + 1]
  BY <1>2 DEF Untouched
<1>3. CASE outcome = Written
  BY <1>3 DEF Written
<1>4. CASE \E how \in {"whole", "window", "refused"} : outcome = ReadFile(how)
  BY <1>4 DEF ReadFile
<1> QED BY <1>1, <1>2, <1>3, <1>4

AnswerText(id, v, w, x) == [Result(id, v, w) EXCEPT !.texts = x]
LEMMA AnswerMade ==
  ASSUME NEW id, NEW v, NEW w, NEW x, NEW m, m = AnswerText(id, v, w, x)
  PROVE  IsMessage(m) /\ m.role = "user" /\ m.use = 0 /\ m.answer = id /\ m.about = v
  BY DEF AnswerText, User, Result, IsMessage, MessageFields

LEMMA ObserveSound ==
  ASSUME LoopSound, Observe PROVE LoopSound'
<1>1. lapAt \in ToolKinds
  BY Zenon DEF Observe
<1>2. PICK outcome \in ToolOutcomes(lapAt) : RunTool(outcome)
  BY Zenon DEF Observe
<1> DEFINE m == AnswerText(calls, outcome.result.about, outcome.result.whole, pending)
<1>3. /\ transcript' = Append(transcript, m) /\ UNCHANGED calls /\ fileCache' = outcome.cache
      /\ lapAt' \in Waits \cup {"ended"}
  BY Zenon, <1>2 DEF RunTool, Waits, AnswerText
<1>4. IsMessage(m) /\ m.role = "user" /\ m.use = 0 /\ m.answer = calls /\ m.about = outcome.result.about
  <2>1. m = AnswerText(calls, outcome.result.about, outcome.result.whole, pending)
    OBVIOUS
  <2> HIDE DEF m
  <2> QED BY ONLY <2>1, AnswerMade
<1> HIDE DEF m
<1>5. Running
  BY Zenon, <1>1, Places DEF Running
<1>6. Entrance = "gate" => Answered(transcript) /\ transcript # <<>> /\ Ending(transcript).use = calls
  BY Zenon, <1>1 DEF LoopSound, WardenInv, GateTurn, Ending
<1>7. /\ Messages(transcript') /\ transcript' # <<>> /\ Ending(transcript') = m
      /\ Entrance = "gate" => Answered(transcript')
      /\ \A v : Vouched(v, transcript) => Vouched(v, transcript')
      /\ Vouched(m.about, transcript')
  BY Zenon, <1>3, <1>4, <1>6, Standing, SaidNext
<1>8. Unshared => fileCache' = fileCache \/ fileCache'.version = m.about
  BY Zenon, <1>1, <1>3, <1>4, OutcomeAbout
<1>9. Unshared => Vouched(fileCache'.version, transcript')
  BY Zenon, <1>5, <1>7, <1>8, Standing
<1> QED BY Zenon, <1>3, <1>4, <1>7, <1>9, Standing, Onward

LEMMA WardenInitSound == WardenInit => LoopSound
<1> SUFFICES ASSUME WardenInit PROVE LoopSound
  OBVIOUS
<1>1. /\ lapAt = "idle" /\ transcript = <<>> /\ calls = 0 /\ fileCache.version = 0
  BY DEF WardenInit, NoFile
<1>2. Messages(transcript) /\ Answered(transcript)
  BY <1>1 DEF Messages, Answered, IsSeq
<1>3. lapAt \notin Waits /\ lapAt \notin ToolKinds
  BY <1>1, Places DEF Waits
<1>4. ~Running
  BY Zenon, <1>1 DEF Running
<1>5. calls \in Nat
  BY <1>1
<1> QED BY Zenon, <1>1, <1>2, <1>3, <1>4, <1>5 DEF LoopSound, WardenInv, WardenTyped, GateTurn, Grounded

LEMMA WardenStepSound == LoopSound /\ [WardenNext]_wardenVars => LoopSound'
<1> SUFFICES ASSUME LoopSound, [WardenNext]_wardenVars PROVE LoopSound'
  OBVIOUS
<1>1. CASE \E rule \in BOOLEAN : BeginTurn(rule)
  BY Zenon, <1>1, BeginTurnSound
<1>2. CASE CloseTurn
  BY Zenon, <1>2, CloseTurnSound
<1>3. CASE MakeRoom \/ ClaimBeforeModel \/ WindDown \/ Backoff \/ Observe
  BY Zenon, <1>3, MakeRoomSound, ClaimSound, WindDownSound, BackoffSound, ObserveSound
<1>4. CASE \E ok \in BOOLEAN : Handover(ok)
  BY Zenon, <1>4, HandoverSound
<1>5. CASE \E kind \in {"recoverable", "transient", "fatal"} : TurnFails(kind)
  BY Zenon, <1>5, TurnFailsSound
<1>6. CASE \E full \in BOOLEAN : \/ Truncated(full) \/ Finished(full)
                                 \/ \E tool \in BOOLEAN : AbortedAfterModel(tool, full)
                                 \/ \E kind \in ToolKinds : AskForTool(kind, full)
  BY Zenon, <1>6, TruncatedSound, FinishedSound, AbortedSound, AskForToolSound
<1>7. CASE \E x \in Typed : Type(x)
  BY Zenon, <1>7, StaysSound DEF Type
<1>8. CASE InterruptTurn \/ ForcedStop
  BY Zenon, <1>8, StaysSound DEF InterruptTurn, ForcedStop
<1>9. CASE UNCHANGED wardenVars
  BY Zenon, <1>9, NoChangeSound
<1> QED BY Zenon, <1>1, <1>2, <1>3, <1>4, <1>5, <1>6, <1>7, <1>8, <1>9 DEF WardenNext, TurnStep

\* Whatever is elided, cut out, retried, resumed, interrupted, dropped or killed, the
\* transcript of the Gate answers every call but the one at work, and on either
\* entrance the file the cache vouches for is one a message is still about.
THEOREM WardenLoopSound == WardenSpec => []LoopSound
<1> QED BY WardenInitSound, WardenStepSound, PTL DEF WardenSpec

\* What the model is called with: the loop is at none of the calls.
LEMMA ModelSeesAnswers ==
  ASSUME LoopSound, Entrance = "gate" PROVE TranscriptPaired
<1> SUFFICES ASSUME lapAt \in {"model", "handover"}
             PROVE  /\ transcript[1].role = "user" /\ Last(transcript).role = "user"
                    /\ \A i \in DOMAIN transcript :
                         /\ transcript[i].use # 0 =>
                              i < Len(transcript) /\ transcript[i + 1].answer = transcript[i].use
                         /\ transcript[i].answer # 0 => i > 1 /\ transcript[i - 1].use = transcript[i].answer
  BY Zenon DEF TranscriptPaired
<1>1. lapAt \in Waits
  BY DEF Waits
<1>2. /\ Messages(transcript) /\ Answered(transcript) /\ transcript # <<>>
      /\ Ending(transcript).role = "user" /\ Ending(transcript).use = 0
  BY Zenon, <1>1, Standing
<1>3. DOMAIN transcript = 1 .. Len(transcript) /\ Len(transcript) \in Nat
  BY <1>2 DEF Messages, IsSeq
<1>4. Last(transcript).role = "user" /\ transcript[Len(transcript)].use = 0
  BY Zenon, <1>2 DEF Last, Ending
<1>5. transcript[1].role = "user"
  BY Zenon, <1>2 DEF Answered
<1>6. ASSUME NEW i \in 1 .. Len(transcript)
      PROVE  /\ transcript[i].use # 0 =>
                  i < Len(transcript) /\ transcript[i + 1].answer = transcript[i].use
             /\ transcript[i].answer # 0 => i > 1 /\ transcript[i - 1].use = transcript[i].answer
  <2>1. i = Len(transcript) \/ i < Len(transcript)
    <3> DEFINE n == Len(transcript)
    <3>1. n \in Nat /\ i \in 1 .. n
      BY Zenon, <1>3, <1>6
    <3> HIDE DEF n
    <3>2. i = n \/ i < n
      BY ONLY <3>1
    <3> QED BY Zenon, <3>2 DEF n
  <2> QED BY Zenon, <1>2, <1>4, <2>1 DEF Answered
<1> QED BY Zenon, <1>3, <1>4, <1>5, <1>6

\* On the Gate, where every turn is seeded from a repaired transcript, the model is
\* never called with a call that lacks its answer, or an answer that lacks its call.
THEOREM TranscriptPairedHolds ==
  ASSUME Entrance = "gate" PROVE WardenSpec => []TranscriptPaired
<1>1. LoopSound => TranscriptPaired
  BY ModelSeesAnswers
<1> QED BY <1>1, WardenLoopSound, PTL

\* Of an agent that is offered no subagents: the version an edit may be checked
\* against is one the agent can still see.
THEOREM CacheGroundedHolds ==
  ASSUME "task" \notin ToolKinds PROVE WardenSpec => []CacheGrounded
<1>1. LoopSound => CacheGrounded
  <2> SUFFICES ASSUME LoopSound, Running, fileCache.version # 0
               PROVE  \E i \in DOMAIN transcript : transcript[i].about = fileCache.version
    BY Zenon DEF CacheGrounded
  <2>1. Vouched(fileCache.version, transcript) /\ Messages(transcript)
    BY Zenon, Standing DEF Unshared
  <2>2. DOMAIN transcript = 1 .. Len(transcript)
    BY <2>1 DEF Messages, IsSeq
  <2> QED BY Zenon, <2>1, <2>2 DEF Vouched
<1> QED BY <1>1, WardenLoopSound, PTL

-----------------------------------------------------------------------------
(* Numbers in their order. *)

Rank(S, m) == Cardinality({k \in S : k <= m})

\* A greater number of a finite set has a greater rank.
LEMMA RankGrows ==
  ASSUME NEW S \in SUBSET Nat, IsFiniteSet(S)
  PROVE  /\ \A m \in Nat : Rank(S, m) \in Nat /\ Rank(S, m) <= Cardinality(S)
         /\ \A m \in S : Rank(S, m) >= 1
         /\ \A m, n \in S : m < n => Rank(S, m) < Rank(S, n)
<1>1. \A m \in Nat : Rank(S, m) \in Nat /\ Rank(S, m) <= Cardinality(S) /\ IsFiniteSet({k \in S : k <= m})
  <2> TAKE m \in Nat
  <2>1. {k \in S : k <= m} \subseteq S
    OBVIOUS
  <2> QED BY <2>1, FS_Subset, FS_CardinalityType DEF Rank
<1>2. ASSUME NEW m \in S PROVE Rank(S, m) >= 1
  <2>1. m \in {k \in S : k <= m} /\ m \in Nat
    OBVIOUS
  <2>2. Rank(S, m) # 0
    BY <1>1, <2>1, FS_EmptySet DEF Rank
  <2>3. Rank(S, m) \in Nat
    BY <1>1, <2>1
  <2> QED BY <2>2, <2>3
<1>3. ASSUME NEW m \in S, NEW n \in S, m < n PROVE Rank(S, m) < Rank(S, n)
  <2> DEFINE A == {k \in S : k <= m}
             B == {k \in S : k <= n}
  <2>0. m \in Nat /\ n \in Nat /\ (\A k \in S : k \in Nat)
    OBVIOUS
  <2>1. A \subseteq B /\ n \in B /\ n \notin A
    <3>1. ~(n <= m) /\ n <= n /\ \A k \in Nat : k <= m => k <= n
      BY <1>3, <2>0
    <3> QED BY <2>0, <3>1
  <2>2. IsFiniteSet(A) /\ IsFiniteSet(B) /\ Rank(S, m) = Cardinality(A) /\ Rank(S, n) = Cardinality(B)
    BY <1>1 DEF Rank
  <2>3. Cardinality(A) <= Cardinality(B) /\ (Cardinality(A) = Cardinality(B) => A = B)
    BY <2>1, <2>2, FS_Subset
  <2>4. Cardinality(A) # Cardinality(B)
    BY <2>1, <2>3
  <2> QED BY <1>1, <2>2, <2>3, <2>4
<1> QED BY <1>1, <1>2, <1>3

\* Every number up to their count is the rank of one of them.
LEMMA RankMeets ==
  ASSUME NEW S \in SUBSET Nat, IsFiniteSet(S), NEW n \in 1 .. Cardinality(S)
  PROVE  \E m \in S : Rank(S, m) = n
<1> DEFINE f == [m \in S |-> Rank(S, m)]
           T == {f[m] : m \in S}
<1>1. f \in Surjection(S, T)
  BY Zenon DEF Surjection
<1>2. \A m, k \in S : f[m] = f[k] => m = k
  BY RankGrows
<1>3. f \in Injection(S, T)
  BY <1>1, <1>2 DEF Injection, Surjection, IsInjective
<1>4. IsFiniteSet(T) /\ Cardinality(T) = Cardinality(S)
  BY <1>1, <1>3, FS_Surjection
<1>5. T \subseteq 1 .. Cardinality(S)
  <2> SUFFICES ASSUME NEW m \in S PROVE f[m] \in 1 .. Cardinality(S)
    BY Zenon
  <2>1. f[m] = Rank(S, m) /\ m \in Nat
    OBVIOUS
  <2>2. Rank(S, m) \in Nat /\ Rank(S, m) <= Cardinality(S) /\ Rank(S, m) >= 1
    BY Zenon, <2>1, RankGrows
  <2>3. Cardinality(S) \in Nat
    BY FS_CardinalityType
  <2> QED BY <2>1, <2>2, <2>3
<1>6. IsFiniteSet(1 .. Cardinality(S)) /\ Cardinality(1 .. Cardinality(S)) = Cardinality(S)
  BY FS_Interval, FS_CardinalityType
<1>7. T = 1 .. Cardinality(S)
  BY <1>4, <1>5, <1>6, FS_Subset
<1> QED BY <1>7

\* The ordering of a finite set lists it, each number once, from below.
LEMMA AscendingLists ==
  ASSUME NEW S \in SUBSET Nat, IsFiniteSet(S)
  PROVE  /\ Cardinality(S) \in Nat
         /\ Ascending(S) \in [1 .. Cardinality(S) -> S]
         /\ \A i, j \in 1 .. Cardinality(S) : i < j => Ascending(S)[i] < Ascending(S)[j]
         /\ \A m \in S : \E i \in 1 .. Cardinality(S) : Ascending(S)[i] = m
<1>1. Cardinality(S) \in Nat
  BY FS_CardinalityType
<1>2. ASSUME NEW i \in 1 .. Cardinality(S) PROVE Ascending(S)[i] \in S /\ Rank(S, Ascending(S)[i]) = i
  <2>1. Ascending(S)[i] = CHOOSE m \in S : Rank(S, m) = i
    BY Zenon DEF Ascending, Rank
  <2> QED BY <2>1, RankMeets
<1>3. Ascending(S) \in [1 .. Cardinality(S) -> S]
  <2>1. Ascending(S) = [i \in 1 .. Cardinality(S) |-> Ascending(S)[i]]
    BY <1>1 DEF Ascending
  <2> QED BY Zenon, <1>2, <2>1
<1>4. ASSUME NEW i \in 1 .. Cardinality(S), NEW j \in 1 .. Cardinality(S), i < j PROVE Ascending(S)[i] < Ascending(S)[j]
  <2>1. Ascending(S)[i] \in S /\ Ascending(S)[j] \in S /\ Rank(S, Ascending(S)[i]) = i /\ Rank(S, Ascending(S)[j]) = j
    BY <1>2
  <2> DEFINE a == Ascending(S)[i]
             b == Ascending(S)[j]
  <2>3. a \in Nat /\ b \in Nat
    BY <2>1
  <2>4. b < a => Rank(S, b) < Rank(S, a)
    BY Zenon, <2>1, RankGrows
  <2>2. a # b /\ ~(b < a)
    BY <1>4, <2>1, <2>4
  <2> QED BY <2>2, <2>3
<1>5. ASSUME NEW m \in S PROVE \E i \in 1 .. Cardinality(S) : Ascending(S)[i] = m
  <2> DEFINE i == Rank(S, m)
  <2>1. i \in 1 .. Cardinality(S)
    BY RankGrows, <1>1
  <2>2. Ascending(S)[i] \in S /\ Rank(S, Ascending(S)[i]) = i
    BY <1>2, <2>1
  <2> DEFINE b == Ascending(S)[i]
  <2>5. (b < m => Rank(S, b) < Rank(S, m)) /\ (m < b => Rank(S, m) < Rank(S, b))
    BY Zenon, <2>2, RankGrows
  <2>6. Rank(S, b) = Rank(S, m) /\ Rank(S, m) \in Int
    BY <2>1, <2>2
  <2> HIDE DEF i, b
  <2>3. ~(b < m) /\ ~(m < b)
    BY <2>5, <2>6
  <2>7. b \in Nat /\ m \in Nat
    BY <2>2 DEF b
  <2>4. b = m
    BY <2>3, <2>7
  <2> QED BY <2>1, <2>4 DEF b
<1> QED BY <1>1, <1>3, <1>4, <1>5

\* Only the ordering does that.
LEMMA AscendingOnly ==
  ASSUME NEW S \in SUBSET Nat, IsFiniteSet(S), NEW c \in Nat, NEW f \in [1 .. c -> S],
         \A i, j \in 1 .. c : i < j => f[i] < f[j],
         \A m \in S : \E i \in 1 .. c : f[i] = m
  PROVE  f = Ascending(S) /\ c = Cardinality(S)
<1>0. \A i \in 1 .. c : i \in Nat /\ f[i] \in Nat
  <2> TAKE i \in 1 .. c
  <2>1. i \in Nat /\ f[i] \in S
    OBVIOUS
  <2> QED BY <2>1
<1>a. \A i, j \in 1 .. c : f[i] = f[j] => i = j
  <2> SUFFICES ASSUME NEW i \in 1 .. c, NEW j \in 1 .. c, f[i] = f[j], i # j PROVE FALSE
    OBVIOUS
  <2>1. i < j \/ j < i
    BY <1>0
  <2>2. f[i] < f[j] \/ f[j] < f[i]
    BY <2>1
  <2> QED BY <1>0, <2>2
<1>1. f \in Bijection(1 .. c, S)
  <2>1. \A i, j \in 1 .. c : f[i] = f[j] => i = j
    BY <1>a
  <2> QED BY <2>1 DEF Bijection, Injection, Surjection, IsInjective
<1>2. IsFiniteSet(1 .. c) /\ Cardinality(1 .. c) = c
  BY FS_Interval
<1>3. Cardinality(S) = c
  BY <1>1, <1>2, FS_Bijection DEF ExistsBijection
<1>4. ASSUME NEW i \in 1 .. c PROVE Rank(S, f[i]) = i
  <2> DEFINE A == {k \in S : k <= f[i]}
             g == [j \in 1 .. i |-> f[j]]
  <2>1. \A j \in 1 .. i : g[j] = f[j] /\ f[j] \in A
    <3> TAKE j \in 1 .. i
    <3>1. j \in 1 .. c /\ (j < i \/ j = i)
      OBVIOUS
    <3>2. f[j] < f[i] \/ f[j] = f[i]
      BY <3>1
    <3>3. f[j] <= f[i]
      BY <1>0, <3>1, <3>2
    <3> QED BY <3>1, <3>3
  <2>2. \A m \in A : \E j \in 1 .. i : g[j] = m
    <3> TAKE m \in A
    <3>1. PICK j \in 1 .. c : f[j] = m
      OBVIOUS
    <3>2. ~(i < j)
      <4> SUFFICES ASSUME i < j PROVE FALSE
        OBVIOUS
      <4>1. f[i] < f[j] /\ f[j] <= f[i]
        BY <3>1
      <4> QED BY <1>0, <4>1
    <3>3. j \in 1 .. i
      BY <1>0, <3>2
    <3> QED BY <3>1, <3>3, <2>1
  <2>3. \A j, k \in 1 .. i : g[j] = g[k] => j = k
    <3>1. \A j \in 1 .. i : j \in 1 .. c /\ g[j] = f[j]
      OBVIOUS
    <3> QED BY <1>a, <3>1
  <2>4. g \in Bijection(1 .. i, A)
    BY <2>1, <2>2, <2>3 DEF Bijection, Injection, Surjection, IsInjective
  <2>5. IsFiniteSet(1 .. i) /\ Cardinality(1 .. i) = i
    BY FS_Interval
  <2> QED BY <2>4, <2>5, FS_Bijection DEF Rank, ExistsBijection
<1>5. ASSUME NEW i \in 1 .. c PROVE Ascending(S)[i] = f[i]
  <2>1. Ascending(S)[i] = CHOOSE m \in S : Rank(S, m) = i
    BY Zenon, <1>3 DEF Ascending, Rank
  <2>2. PICK m \in S : m = Ascending(S)[i] /\ Rank(S, m) = i
    BY <1>4, <2>1
  <2>3. PICK j \in 1 .. c : f[j] = m
    OBVIOUS
  <2>4. j = i
    BY <1>4, <2>2, <2>3
  <2> QED BY <2>2, <2>3, <2>4
<1>6. Ascending(S) = [i \in 1 .. c |-> Ascending(S)[i]]
  BY <1>3 DEF Ascending
<1> QED BY <1>3, <1>5, <1>6

\* What holds of 0 and goes on from each number to the next holds of all.
LEMMA OnAndOn ==
  ASSUME NEW S, 0 \in S, \A n \in Nat : n \in S => n + 1 \in S PROVE \A n \in Nat : n \in S
<1> SUFFICES ASSUME Nat \ S # {} PROVE FALSE
  OBVIOUS
<1>1. PICK x \in Nat \ S : \A y \in Nat \ S : x <= y
  <2>1. PICK x \in Nat \ S : \A y \in Nat \ S : ~(<<y, x>> \in OpToRel(<, Nat))
    BY ZenonT(60), NatLessThanWellFounded, WFMin
  <2>2. \A y \in Nat \ S : y \in Nat /\ x \in Nat /\ ~(y < x)
    BY <2>1 DEF OpToRel
  <2>3. \A y \in Nat \ S : x <= y
    BY <2>2
  <2> QED BY ZenonT(60), <2>1, <2>3
<1>2. x # 0 /\ x - 1 \in Nat /\ x = (x - 1) + 1
  BY <1>1
<1>3. x - 1 \in S
  BY <1>1, <1>2
<1> QED BY <1>1, <1>2, <1>3

\* A number above the others comes last.
LEMMA AscendingNext ==
  ASSUME NEW S \in SUBSET Nat, IsFiniteSet(S), NEW l \in Nat, \A m \in S : m < l
  PROVE  /\ Cardinality(S \cup {l}) = Cardinality(S) + 1
         /\ Ascending(S \cup {l}) = [i \in 1 .. (Cardinality(S) + 1) |-> IF i <= Cardinality(S) THEN Ascending(S)[i] ELSE l]
<1> DEFINE T == S \cup {l}
           c == Cardinality(S)
           a == Ascending(S)
           f == [i \in 1 .. (c + 1) |-> IF i <= c THEN a[i] ELSE l]
<1>1. T \in SUBSET Nat /\ IsFiniteSet(T)
  BY FS_AddElement
<1>2. /\ c \in Nat /\ a \in [1 .. c -> S]
      /\ \A i, j \in 1 .. c : i < j => a[i] < a[j]
      /\ \A m \in S : \E i \in 1 .. c : a[i] = m
  BY Zenon, AscendingLists
<1> HIDE DEF a, c
<1>3. \A i \in 1 .. (c + 1) : (i \in 1 .. c /\ f[i] = a[i] /\ f[i] \in S /\ i # c + 1) \/ (i = c + 1 /\ f[i] = l)
  BY <1>2
<1>4. f \in [1 .. (c + 1) -> T]
  BY <1>3
<1>5. \A i, j \in 1 .. (c + 1) : i < j => f[i] < f[j]
  <2> SUFFICES ASSUME NEW i \in 1 .. (c + 1), NEW j \in 1 .. (c + 1), i < j PROVE f[i] < f[j]
    OBVIOUS
  <2>1. i \in 1 .. c
    BY <1>2
  <2>2. f[i] = a[i] /\ f[i] \in S
    BY <1>3, <2>1
  <2>3. CASE j \in 1 .. c
    BY <1>2, <1>3, <2>1, <2>2, <2>3
  <2>4. CASE j = c + 1
    BY <1>3, <2>2, <2>4
  <2> QED BY <1>3, <2>3, <2>4
<1>6. \A m \in T : \E i \in 1 .. (c + 1) : f[i] = m
  <2> TAKE m \in T
  <2>1. CASE m = l
    BY <1>2, <1>3, <2>1
  <2>2. CASE m \in S
    <3>1. PICK i \in 1 .. c : a[i] = m
      BY <1>2, <2>2
    <3>2. i \in 1 .. (c + 1) /\ i # c + 1
      BY <1>2
    <3> QED BY <1>3, <3>1, <3>2
  <2> QED BY <2>1, <2>2
<1>7. c + 1 \in Nat
  BY <1>2
<1> HIDE DEF f, T
<1>8. f = Ascending(T) /\ c + 1 = Cardinality(T)
  BY Zenon, <1>1, <1>4, <1>5, <1>6, <1>7, AscendingOnly
<1> QED BY <1>8 DEF T, f, c, a

\* What a sequence has at some places, by one place more.
LEMMA AtNext ==
  ASSUME NEW w, NEW S \in SUBSET Nat, IsFiniteSet(S), NEW l \in Nat, \A m \in S : m < l
  PROVE  At(w, S \cup {l}) = Append(At(w, S), w[l])
<1> DEFINE c == Cardinality(S)
           a == Ascending(S)
           b == Ascending(S \cup {l})
<1>1. c \in Nat /\ a \in [1 .. c -> S]
  BY Zenon, AscendingLists
<1>2. b = [i \in 1 .. (c + 1) |-> IF i <= c THEN a[i] ELSE l]
  BY Zenon, AscendingNext
<1>3. At(w, S) = [i \in 1 .. c |-> w[a[i]]]
  BY <1>1 DEF At
<1>4. At(w, S \cup {l}) = [i \in 1 .. (c + 1) |-> w[b[i]]]
  BY <1>1, <1>2 DEF At
<1> HIDE DEF a, b, c
<1>5. \A i \in 1 .. (c + 1) : w[b[i]] = IF i <= c THEN w[a[i]] ELSE w[l]
  BY <1>1, <1>2
<1>6. Append(At(w, S), w[l]) = [i \in 1 .. (c + 1) |-> IF i <= c THEN w[a[i]] ELSE w[l]]
  <2> DEFINE u == [i \in 1 .. c |-> w[a[i]]]
  <2>1. u \in Seq({u[i] : i \in 1 .. c} \cup {w[l]}) /\ Len(u) = c
    BY <1>1
  <2>2. Append(u, w[l]) = [i \in 1 .. (c + 1) |-> IF i <= c THEN u[i] ELSE w[l]]
    BY <1>1, <2>1
  <2> QED BY <1>1, <1>3, <2>2
<1> QED BY <1>4, <1>5, <1>6

\* What a sequence has at some places, is a sequence of it.
LEMMA AtSeq ==
  ASSUME NEW w, NEW S \in SUBSET Nat, IsFiniteSet(S)
  PROVE  /\ At(w, S) = [i \in 1 .. Cardinality(S) |-> w[Ascending(S)[i]]]
         /\ At(w, S) \in Seq({w[j] : j \in S}) /\ Len(At(w, S)) = Cardinality(S)
<1> DEFINE c == Cardinality(S)
           a == Ascending(S)
<1>1. c \in Nat /\ a \in [1 .. c -> S]
  BY Zenon, AscendingLists
<1>3. At(w, S) = [i \in 1 .. c |-> w[a[i]]]
  BY <1>1 DEF At
<1> HIDE DEF a, c
<1>4. At(w, S) \in [1 .. c -> {w[j] : j \in S}]
  BY <1>1, <1>3
<1>5. At(w, S) \in Seq({w[j] : j \in S}) /\ Len(At(w, S)) = c
  BY <1>1, <1>4
<1> QED BY <1>3, <1>5 DEF a, c

\* No places, no elements.
LEMMA AtNone == ASSUME NEW w PROVE At(w, {}) = <<>>
<1>1. Ascending({}) = <<>>
  BY FS_EmptySet DEF Ascending
<1> QED BY <1>1 DEF At

\* The greatest and the least of some numbers.
LEMMA AscendingEnds ==
  ASSUME NEW S \in SUBSET Nat, IsFiniteSet(S), S # {}
  PROVE  /\ Max(S) \in S /\ \A m \in S : m <= Max(S)
         /\ Min(S) \in S /\ \A m \in S : Min(S) <= m
<1> DEFINE c == Cardinality(S)
           a == Ascending(S)
<1>1. /\ c \in Nat /\ a \in [1 .. c -> S]
      /\ \A i, j \in 1 .. c : i < j => a[i] < a[j]
      /\ \A m \in S : \E i \in 1 .. c : a[i] = m
  BY Zenon, AscendingLists
<1> HIDE DEF a, c
<1>2. 1 \in 1 .. c /\ c \in 1 .. c
  <2>1. PICK i \in 1 .. c : TRUE
    BY <1>1
  <2> QED BY <1>1, <2>1
<1>3. \A m \in S : m \in Nat
  OBVIOUS
<1>4. a[1] \in S /\ a[c] \in S
  BY <1>1, <1>2
<1>5. ASSUME NEW m \in S PROVE a[1] <= m /\ m <= a[c]
  <2>1. PICK i \in 1 .. c : a[i] = m
    BY <1>1
  <2>2. (i = 1 \/ 1 < i) /\ (i = c \/ i < c)
    BY <1>1
  <2>3. (a[1] = m \/ a[1] < m) /\ (a[c] = m \/ m < a[c])
    BY <1>1, <1>2, <2>1, <2>2
  <2>4. a[1] \in Nat /\ a[c] \in Nat /\ m \in Nat
    BY <1>3, <1>4
  <2> QED BY <2>3, <2>4
<1>6. Max(S) \in S /\ \A m \in S : Max(S) >= m
  <2>1. \E x \in S : \A y \in S : x >= y
    <3>1. \A y \in S : a[c] >= y
      BY <1>3, <1>4, <1>5
    <3> QED BY <1>4, <3>1
  <2> QED BY <2>1 DEF Max
<1>7. Min(S) \in S /\ \A m \in S : Min(S) <= m
  <2>1. \E x \in S : \A y \in S : x <= y
    BY <1>4, <1>5
  <2> QED BY <2>1 DEF Min
<1> QED BY <1>3, <1>6, <1>7

-----------------------------------------------------------------------------
(* The fold of the stored rows. *)

NoRows == [rows |-> <<>>, held |-> <<>>]
Folded(g, s, k) == g = [u \in SUBSET (1 .. k) |-> IF u = {} THEN NoRows ELSE FoldRow(g[u \ {Max(u)}], s[Max(u)])]

\* The fold is read from a function on the parts of the sequence.
LEMMA FoldBy ==
  ASSUME NEW s, NEW m \in Nat, DOMAIN s = 1 .. m
  PROVE  FoldLeft(FoldRow, NoRows, s) = (CHOOSE g : Folded(g, s, m))[1 .. m]
  BY DEF FoldLeft, MapThenFoldSet, Folded

\* The greatest number up to n + 1 is that number when it is there.
LEMMA MaxLast ==
  ASSUME NEW n \in Nat, NEW u \in SUBSET (1 .. (n + 1)), n + 1 \in u PROVE Max(u) = n + 1
<1>1. \A y \in u : y \in Int /\ n + 1 >= y
  OBVIOUS
<1>2. Max(u) \in u /\ \A y \in u : Max(u) >= y
  BY <1>1 DEF Max
<1>3. Max(u) >= n + 1 /\ n + 1 >= Max(u) /\ Max(u) \in Int
  BY <1>1, <1>2
<1> QED BY <1>3

\* That function goes one step further.
LEMMA FoldOn ==
  ASSUME NEW s, NEW k \in Nat, NEW g, Folded(g, s, k) PROVE \E h : Folded(h, s, k + 1)
<1> DEFINE h == [u \in SUBSET (1 .. (k + 1)) |-> IF k + 1 \in u THEN FoldRow(g[u \ {k + 1}], s[k + 1]) ELSE g[u]]
           next(u) == IF u = {} THEN NoRows ELSE FoldRow(h[u \ {Max(u)}], s[Max(u)])
<1>1. ASSUME NEW u \in SUBSET (1 .. (k + 1)) PROVE h[u] = next(u)
  <2>1. CASE k + 1 \in u
    <3>1. Max(u) = k + 1 /\ u # {}
      BY MaxLast, <2>1
    <3>2. u \ {k + 1} \in SUBSET (1 .. (k + 1)) /\ k + 1 \notin u \ {k + 1}
      OBVIOUS
    <3>3. h[u \ {k + 1}] = g[u \ {k + 1}]
      BY Zenon, <3>2
    <3>4. h[u] = FoldRow(g[u \ {k + 1}], s[k + 1])
      BY Zenon, <2>1
    <3> HIDE DEF h
    <3> QED BY Zenon, <3>1, <3>3, <3>4
  <2>2. CASE k + 1 \notin u
    <3>1. u \in SUBSET (1 .. k)
      BY <2>2
    <3>2. h[u] = g[u]
      BY Zenon, <2>2
    <3>3. g[u] = IF u = {} THEN NoRows ELSE FoldRow(g[u \ {Max(u)}], s[Max(u)])
      BY Zenon, <3>1 DEF Folded
    <3>4. u \ {Max(u)} \in SUBSET (1 .. (k + 1)) /\ k + 1 \notin u \ {Max(u)}
      BY <2>2
    <3>5. h[u \ {Max(u)}] = g[u \ {Max(u)}]
      BY Zenon, <3>4
    <3> HIDE DEF h
    <3> QED BY Zenon, <3>2, <3>3, <3>5
  <2> QED BY <2>1, <2>2
<1>2. h = [u \in SUBSET (1 .. (k + 1)) |-> h[u]]
  BY Zenon
<1> HIDE DEF h
<1>3. h = [u \in SUBSET (1 .. (k + 1)) |-> next(u)]
  BY Zenon, <1>1, <1>2
<1>4. Folded(h, s, k + 1)
  BY Zenon, <1>3 DEF Folded
<1> QED BY <1>4

\* So it is there for every length.
LEMMA FoldThere == ASSUME NEW s PROVE \A k \in Nat : \E g : Folded(g, s, k)
<1> DEFINE S == {k \in Nat : \E g : Folded(g, s, k)}
<1>1. 0 \in S
  <2> DEFINE g == [u \in SUBSET (1 .. 0) |-> NoRows]
  <2>1. \A u \in SUBSET (1 .. 0) : u = {}
    OBVIOUS
  <2>2. Folded(g, s, 0)
    BY Zenon, <2>1 DEF Folded
  <2> QED BY <2>2
<1>2. ASSUME NEW n \in Nat, n \in S PROVE n + 1 \in S
  <2>1. PICK g : Folded(g, s, n)
    BY <1>2
  <2> QED BY <2>1, FoldOn
<1> HIDE DEF S
<1>3. \A n \in Nat : n \in S
  BY Zenon, <1>1, <1>2, OnAndOn
<1> QED BY <1>3 DEF S

\* The fold of a sequence goes through the folds of its beginnings.
LEMMA FoldSteps ==
  ASSUME NEW s, NEW m \in Nat, DOMAIN s = 1 .. m
  PROVE  \E x : /\ x[0] = NoRows
                /\ \A k \in 0 .. (m - 1) : x[k + 1] = FoldRow(x[k], s[k + 1])
                /\ FoldLeft(FoldRow, NoRows, s) = x[m]
<1>1. PICK g : g = (CHOOSE h : Folded(h, s, m)) /\ Folded(g, s, m)
  BY Zenon, FoldThere
<1> DEFINE x == [k \in 0 .. m |-> g[1 .. k]]
<1>2. x[0] = NoRows
  <2>1. 1 .. 0 = {} /\ {} \in SUBSET (1 .. m)
    OBVIOUS
  <2>2. g[{}] = NoRows
    BY Zenon, <1>1, <2>1 DEF Folded
  <2> QED BY <2>1, <2>2
<1>3. ASSUME NEW k \in 0 .. (m - 1) PROVE x[k + 1] = FoldRow(x[k], s[k + 1])
  <2>1. k \in Nat /\ 1 .. (k + 1) \in SUBSET (1 .. m) /\ k + 1 \in 1 .. (k + 1) /\ 1 .. (k + 1) # {}
    <3>1. k \in Nat /\ k + 1 <= m
      OBVIOUS
    <3>2. k + 1 \in 1 .. (k + 1)
      BY <3>1
    <3>3. \A j \in 1 .. (k + 1) : j \in 1 .. m
      BY <3>1
    <3> QED BY <3>1, <3>2, <3>3
  <2>2. Max(1 .. (k + 1)) = k + 1
    BY MaxLast, <2>1
  <2>3. (1 .. (k + 1)) \ {k + 1} = 1 .. k
    BY <2>1
  <2>4. g[1 .. (k + 1)] = FoldRow(g[(1 .. (k + 1)) \ {Max(1 .. (k + 1))}], s[Max(1 .. (k + 1))])
    BY Zenon, <1>1, <2>1 DEF Folded
  <2>5. k \in 0 .. m /\ k + 1 \in 0 .. m
    OBVIOUS
  <2>6. x[k] = g[1 .. k] /\ x[k + 1] = g[1 .. (k + 1)]
    BY Zenon, <2>5
  <2> QED BY Zenon, <2>2, <2>3, <2>4, <2>6
<1>4. FoldLeft(FoldRow, NoRows, s) = x[m]
  <2>1. FoldLeft(FoldRow, NoRows, s) = g[1 .. m]
    BY Zenon, FoldBy, <1>1
  <2> QED BY <2>1
<1> QED BY Zenon, <1>2, <1>3, <1>4

-----------------------------------------------------------------------------
(* The conversation. *)

TurnRecords == {NoTurn} \cup [made : {TRUE}, body : Bodies, replay : Nat]
RoundStatuses == {"running", "waiting_room"} \cup Over
RoundRecords == [id : TurnIds, body : Bodies, message : Nat \ {0}, replayed : BOOLEAN, straight : BOOLEAN,
                 status : RoundStatuses]
StepRecords == [run : Nat \ {0}, private : BOOLEAN, status : {"running", "succeeded", "cancelled"}, message : Nat]
EndKinds == {"round_finished", "run_stopped"}
AnswerKinds == {"message", "consult_result"}
EventRecords == [kind : {"user_message", "speaker_started", "contribution_stopped"} \cup EndKinds \cup AnswerKinds,
                 run : Nat, step : Nat, message : Nat]
RequestRecords == {Calm} \cup [pc : {"idle", "mapping", "attaching", "admitting"}, answer : {"none", "told", "refused"},
                               id : TurnIds, body : Bodies]
Streams == [pc : {"polling", "checking", "done"}, run : Nat, cursor : Nat, private : SUBSET Nat, sent : Seq(Nat)]

ConversationsTyped ==
  /\ timeline \in Seq([role : {"user", "assistant"}, seed : BOOLEAN, step : Nat])
  /\ hidden \subseteq DOMAIN timeline
  /\ turns \in [TurnIds -> TurnRecords]
  /\ room \in [made : BOOLEAN, active : Nat, removed : BOOLEAN]
  /\ rounds \in Seq(RoundRecords)
  /\ log \in Seq(EventRecords)
  /\ contributions \in Seq(StepRecords)
  /\ asking \in [Clients -> RequestRecords]
  /\ files \in [of : [TurnIds -> Nat], uploaded : Nat]
  /\ watch \in {Unwatched} \cup Streams

\* Nothing was said in a conversation that has no room yet.
RoomFirst ==
  ~room.made => /\ rounds = <<>> /\ log = <<>> /\ contributions = <<>>
                /\ \A t \in TurnIds : ~turns[t].made
                /\ \A n \in DOMAIN timeline : timeline[n].step = 0

\* The run that holds the slot is the one that is running; one that waits was not
\* admitted to a free slot.
SlotHeld ==
  /\ room.active \in 0 .. Len(rounds)
  /\ \A i \in DOMAIN rounds : /\ rounds[i].status = "running" <=> room.active = i
                              /\ rounds[i].status = "waiting_room" => ~rounds[i].straight

\* A request that goes on has been named, with its own input, and so has one that
\* was told of success; the message that is to be answered again is the owner's.
RequestsNamed ==
  /\ \A c \in Clients :
       /\ asking[c].pc # "idle" => asking[c] # Calm
       /\ asking[c].pc \in {"attaching", "admitting"} =>
            turns[asking[c].id].made /\ turns[asking[c].id].body = asking[c].body
       /\ asking[c].answer = "told" =>
            turns[asking[c].id].made /\ turns[asking[c].id].body = asking[c].body /\ RunsOf(asking[c].id) # {}
  /\ \A t \in TurnIds : turns[t].replay # 0 => turns[t].replay \in DOMAIN timeline /\ timeline[turns[t].replay].role = "user"

\* Each run has its own request and, unless it answers again, its own message.
RunsNamed ==
  /\ \A i \in DOMAIN rounds :
       /\ turns[rounds[i].id].made /\ rounds[i].body = turns[rounds[i].id].body
       /\ rounds[i].message \in DOMAIN timeline /\ timeline[rounds[i].message].role = "user"
  /\ \A i, j \in DOMAIN rounds : rounds[i].id = rounds[j].id => i = j
  /\ \A i, j \in DOMAIN rounds : i < j /\ ~rounds[j].replayed => rounds[i].message < rounds[j].message

\* A contribution and its message know one another; the question came before.
StepsStored ==
  /\ \A n \in DOMAIN timeline :
       /\ timeline[n].seed => timeline[n].role = "user"
       /\ timeline[n].role = "user" => timeline[n].step = 0
       /\ timeline[n].step # 0 => timeline[n].step \in DOMAIN contributions /\ contributions[timeline[n].step].message = n
  /\ \A s \in DOMAIN contributions :
       /\ contributions[s].run \in DOMAIN rounds
       /\ contributions[s].message # 0 <=> contributions[s].status = "succeeded"
       /\ contributions[s].message # 0 =>
            /\ contributions[s].message \in DOMAIN timeline /\ timeline[contributions[s].message].step = s
            /\ rounds[contributions[s].run].message < contributions[s].message

\* What an event tells of, by its kind.
EventsTrue ==
  \A k \in DOMAIN log :
    /\ log[k].run = 0 => log[k].kind \in {"user_message", "message"} /\ log[k].step = 0 /\ log[k].message = k
                         /\ timeline[k].step = 0
    /\ log[k].run # 0 => log[k].run \in DOMAIN rounds /\ (log[k].step # 0 <=> log[k].kind \notin {"user_message"} \cup EndKinds)
    /\ log[k].step # 0 => log[k].step \in DOMAIN contributions /\ contributions[log[k].step].run = log[k].run
    /\ log[k].message \in 0 .. Len(timeline)
    /\ log[k].run # 0 /\ log[k].kind = "user_message" => log[k].message = rounds[log[k].run].message
    /\ log[k].kind \in AnswerKinds /\ log[k].step # 0 =>
         /\ log[k].message # 0 /\ log[k].message = contributions[log[k].step].message
    /\ log[k].kind \notin {"user_message"} \cup AnswerKinds => log[k].message = 0
    /\ log[k].kind \in EndKinds => rounds[log[k].run].status \in Over

Begins(k, s) == log[k].kind = "speaker_started" /\ log[k].step = s
Opens(k, i) == log[k].kind = "user_message" /\ log[k].run = i

\* The order of a run's events: the question, what is said, the end.
EventsOrdered ==
  /\ \A k, l \in DOMAIN log : k < l /\ log[k].run # 0 /\ log[k].run = log[l].run =>
       log[k].kind \notin EndKinds /\ log[l].kind # "user_message"
  /\ \A k, l \in DOMAIN log : k < l /\ log[k].step # 0 /\ log[k].step = log[l].step => log[l].kind # "speaker_started"
  /\ \A k, l \in DOMAIN log : k < l /\ log[k].kind = "user_message" /\ log[l].kind = "user_message" =>
       log[k].run <= log[l].run
  /\ \A k, l \in DOMAIN log : k < l /\ log[l].run = 0 => log[k].run = 0

\* Every run was opened, every contribution begun, and its answer told.
EventsThere ==
  /\ \A i \in DOMAIN rounds : \E k \in DOMAIN log : Opens(k, i)
  /\ \A s \in DOMAIN contributions :
       /\ \E k \in DOMAIN log : Begins(k, s)
       /\ contributions[s].status = "succeeded" => \E k \in DOMAIN log : log[k].kind \in AnswerKinds /\ log[k].step = s

\* The stream knows of the consultations up to its cursor.
StreamKnows ==
  watch.pc # "idle" =>
    /\ watch.run \in DOMAIN rounds /\ watch.cursor \in 0 .. Len(log)
    /\ watch.private = {log[k].step : k \in {n \in 1 .. watch.cursor : log[n].kind = "speaker_started" /\ IsPrivate(log[n].step)}}

\* Those that brought attachments can be counted.
AttachedFew == IsFiniteSet({t \in TurnIds : files.of[t] > 0})

ConversationsInv ==
  /\ ConversationsTyped /\ RoomFirst /\ SlotHeld /\ RequestsNamed /\ RunsNamed /\ StepsStored
  /\ EventsTrue /\ EventsOrdered /\ EventsThere /\ StreamKnows
  /\ AttachedOnce /\ AttachedFew /\ AnswersVisible /\ StreamTold

-----------------------------------------------------------------------------
(* The fold of the stored rows, step by step. *)

\* The row of the j-th visible message, and whether the k-th one takes it along.
VisibleList == Ascending(VisibleIds)
TakenBy(j, k) == timeline[VisibleList[j]].seed /\ timeline[VisibleList[k]].role = "assistant"
RowAt == [j \in 1 .. Cardinality(VisibleIds) |->
            [message |-> VisibleList[j], seed |-> IF j > 1 /\ TakenBy(j - 1, j) THEN VisibleList[j - 1] ELSE 0]]
Stands(m) == {j \in 1 .. m : j < m => ~TakenBy(j, j + 1)}
Held(k) == k > 0 /\ timeline[VisibleList[k]].seed

\* The rows up to the k-th, without a seed that waits.
StandingRows(k) == IF Held(k) THEN Stands(k) \ {k} ELSE Stands(k)

\* The visible messages are some numbers, in their order.
LEMMA VisibleNumbers ==
  ASSUME ConversationsTyped
  PROVE  /\ VisibleIds \in SUBSET Nat /\ IsFiniteSet(VisibleIds) /\ 0 \notin VisibleIds
         /\ Cardinality(VisibleIds) \in Nat /\ VisibleList \in [1 .. Cardinality(VisibleIds) -> VisibleIds]
         /\ \A i, j \in 1 .. Cardinality(VisibleIds) : i < j => VisibleList[i] < VisibleList[j]
         /\ \A n \in VisibleIds : \E i \in 1 .. Cardinality(VisibleIds) : VisibleList[i] = n
         /\ VisibleIds \subseteq DOMAIN timeline
<1>1. Len(timeline) \in Nat /\ DOMAIN timeline = 1 .. Len(timeline)
  BY DEF ConversationsTyped
<1>2. VisibleIds \subseteq 1 .. Len(timeline)
  BY <1>1 DEF VisibleIds
<1>3. IsFiniteSet(VisibleIds) /\ VisibleIds \in SUBSET Nat /\ 0 \notin VisibleIds
  <2>1. IsFiniteSet(1 .. Len(timeline))
    BY <1>1, FS_Interval
  <2>2. IsFiniteSet(VisibleIds)
    BY Zenon, <1>2, <2>1, FS_Subset
  <2> QED BY <1>1, <1>2, <2>2
<1> QED BY <1>1, <1>2, <1>3, AscendingLists DEF VisibleList

\* PagePlaces up to a number are finitely many.
LEMMA FewPlaces == ASSUME NEW k \in Nat, NEW S \in SUBSET (1 .. k) PROVE S \in SUBSET Nat /\ IsFiniteSet(S)
<1>1. IsFiniteSet(1 .. k)
  BY FS_Interval
<1>2. IsFiniteSet(S)
  BY Zenon, <1>1, FS_Subset
<1>3. \A j \in S : j \in Nat
  OBVIOUS
<1> QED BY <1>2, <1>3

\* One more visible message changes the rows that stand as the fold does.
LEMMA StandsNext ==
  ASSUME NEW k \in Nat, \A j \in 1 .. k + 1 : timeline[VisibleList[j]].seed => timeline[VisibleList[j]].role = "user"
  PROVE  /\ Held(k) /\ timeline[VisibleList[k + 1]].role = "assistant" => StandingRows(k + 1) = StandingRows(k) \cup {k + 1}
         /\ Held(k) /\ timeline[VisibleList[k + 1]].role # "assistant" =>
              /\ StandingRows(k) \cup {k} = Stands(k) /\ k \notin StandingRows(k)
              /\ StandingRows(k + 1) = IF Held(k + 1) THEN Stands(k) ELSE Stands(k) \cup {k + 1}
         /\ ~Held(k) => StandingRows(k + 1) = IF Held(k + 1) THEN StandingRows(k) ELSE StandingRows(k) \cup {k + 1}
<1>1. \A j : j \in 1 .. (k + 1) <=> j \in 1 .. k \/ j = k + 1
  OBVIOUS
<1>2. k + 1 \in Stands(k + 1) /\ k + 1 \notin Stands(k)
  BY DEF Stands
<1>3. \A j \in 1 .. k : j # k => (j \in Stands(k + 1) <=> j \in Stands(k))
  BY DEF Stands
<1>4. k > 0 => k \in Stands(k) /\ (k \in Stands(k + 1) <=> ~TakenBy(k, k + 1))
  BY DEF Stands
<1>5. Stands(k) \subseteq 1 .. k /\ Stands(k + 1) \subseteq 1 .. (k + 1) /\ k \in Nat /\ k # k + 1 /\ (k = 0 => 1 .. k = {})
  BY DEF Stands
<1>6. Held(k) <=> k > 0 /\ timeline[VisibleList[k]].seed
  BY DEF Held
<1>7. Held(k + 1) <=> timeline[VisibleList[k + 1]].seed
  BY DEF Held
<1>8. k > 0 => (TakenBy(k, k + 1) <=> Held(k) /\ timeline[VisibleList[k + 1]].role = "assistant")
  BY DEF TakenBy, Held
<1>9. Held(k + 1) => timeline[VisibleList[k + 1]].role # "assistant"
  BY <1>7
<1>10. Stands(k + 1) = IF Held(k) /\ timeline[VisibleList[k + 1]].role = "assistant" THEN (Stands(k) \ {k}) \cup {k + 1} ELSE Stands(k) \cup {k + 1}
  <2>1. ASSUME NEW j
        PROVE  j \in Stands(k + 1) <=> j = k + 1 \/ (j \in Stands(k) /\ ~(j = k /\ Held(k) /\ timeline[VisibleList[k + 1]].role = "assistant"))
    <3>1. CASE j \notin 1 .. k
      BY <1>1, <1>2, <1>5, <3>1
    <3>2. CASE j \in 1 .. k /\ j # k
      BY <1>3, <1>5, <3>2
    <3>3. CASE j \in 1 .. k /\ j = k
      BY <1>4, <1>5, <1>8, <3>3
    <3> QED BY <3>1, <3>2, <3>3
  <2> QED BY <2>1
<1>11. Held(k) => k \in Stands(k)
  BY <1>4, <1>6
<1> QED BY <1>2, <1>5, <1>9, <1>10, <1>11 DEF StandingRows

\* The fold keeps the rows of what stands, and holds a seed back by one message.
LEMMA RowsFold ==
  ASSUME ConversationsTyped, StepsStored
  PROVE  RowsFromMessages = At(RowAt, Stands(Cardinality(VisibleIds)))
<1> DEFINE m == Cardinality(VisibleIds)
<1>1. /\ m \in Nat /\ VisibleList \in [1 .. m -> VisibleIds] /\ VisibleIds \subseteq DOMAIN timeline
      /\ \A j \in 1 .. m : VisibleList[j] \in DOMAIN timeline
  BY VisibleNumbers
<1>2. DOMAIN VisibleList = 1 .. m
  BY <1>1
<1>3. PICK x : /\ x[0] = NoRows
               /\ \A k \in 0 .. (m - 1) : x[k + 1] = FoldRow(x[k], VisibleList[k + 1])
               /\ FoldLeft(FoldRow, NoRows, VisibleList) = x[m]
  BY Zenon, <1>1, <1>2, FoldSteps
<1>4. \A j \in 1 .. m : timeline[VisibleList[j]].seed => timeline[VisibleList[j]].role = "user"
  BY <1>1 DEF StepsStored
<1> DEFINE Good(k) == /\ x[k].rows = At(RowAt, StandingRows(k))
                      /\ x[k].held = IF Held(k) THEN <<RowAt[k]>> ELSE <<>>
           S == {k \in Nat : k <= m => Good(k)}
<1>5. 0 \in S
  <2>1. StandingRows(0) = {} /\ ~Held(0)
    BY DEF StandingRows, Stands, Held
  <2> QED BY <1>3, <2>1, AtNone DEF NoRows
<1>6. ASSUME NEW k \in Nat, k \in S PROVE k + 1 \in S
  <2> SUFFICES ASSUME k + 1 <= m PROVE Good(k + 1)
    OBVIOUS
  <2> DEFINE n == VisibleList[k + 1]
             alone == [message |-> n, seed |-> 0]
  <2>1. k \in 0 .. (m - 1) /\ k + 1 \in 1 .. m /\ Good(k) /\ x[k + 1] = FoldRow(x[k], n)
    BY <1>1, <1>3, <1>6
  <2>2. \A j \in 1 .. k + 1 : j \in 1 .. m
    BY <1>1
  <2>3. \A j \in 1 .. k + 1 : timeline[VisibleList[j]].seed => timeline[VisibleList[j]].role = "user"
    BY <1>4, <2>2
  <2>4. RowAt[k + 1] = [message |-> n, seed |-> IF Held(k) /\ timeline[n].role = "assistant" THEN VisibleList[k] ELSE 0]
    <3>1. RowAt[k + 1] = [message |-> n, seed |-> IF k + 1 > 1 /\ TakenBy((k + 1) - 1, k + 1) THEN VisibleList[(k + 1) - 1] ELSE 0]
      BY Zenon, <2>1 DEF RowAt
    <3>2. (k + 1) - 1 = k /\ (k + 1 > 1 <=> k > 0)
      OBVIOUS
    <3>3. k + 1 > 1 /\ TakenBy(k, k + 1) <=> Held(k) /\ timeline[n].role = "assistant"
      BY <3>2 DEF TakenBy, Held
    <3> HIDE DEF n
    <3> QED BY <3>1, <3>2, <3>3
  <2>5. Held(k + 1) => RowAt[k + 1] = alone /\ timeline[n].role # "assistant"
    <3>1. Held(k + 1) => timeline[n].role = "user"
      BY <2>3 DEF Held
    <3> QED BY <2>4, <3>1
  <2>6. Held(k + 1) <=> timeline[n].seed
    BY DEF Held
  <2>7. /\ StandingRows(k) \in SUBSET (1 .. k) /\ Stands(k) \in SUBSET (1 .. k)
        /\ \A j \in StandingRows(k) \cup Stands(k) : j < k + 1
        /\ \A j \in StandingRows(k) : Held(k) => j < k
    BY DEF StandingRows, Stands
  <2>8. /\ StandingRows(k) \in SUBSET Nat /\ IsFiniteSet(StandingRows(k))
        /\ Stands(k) \in SUBSET Nat /\ IsFiniteSet(Stands(k))
    BY Zenon, <2>7, FewPlaces
  <2>9. /\ At(RowAt, StandingRows(k) \cup {k + 1}) = Append(At(RowAt, StandingRows(k)), RowAt[k + 1])
        /\ At(RowAt, Stands(k) \cup {k + 1}) = Append(At(RowAt, Stands(k)), RowAt[k + 1])
        /\ Held(k) => At(RowAt, StandingRows(k) \cup {k}) = Append(At(RowAt, StandingRows(k)), RowAt[k])
    <3>1. k + 1 \in Nat
      OBVIOUS
    <3> QED BY Zenon, <2>7, <2>8, <3>1, AtNext
  <2>10. PICK w : w = At(RowAt, StandingRows(k)) /\ w \in Seq({RowAt[j] : j \in StandingRows(k)})
    <3>1. At(RowAt, StandingRows(k)) \in Seq({RowAt[j] : j \in StandingRows(k)})
      <4>1. StandingRows(k) \in SUBSET Nat /\ IsFiniteSet(StandingRows(k))
        BY <2>8
      <4> HIDE DEF S, Good, n, alone
      <4> QED BY <4>1, AtSeq
    <3> QED BY Zenon, <3>1
  <2>11. w \o <<>> = w /\ \A e : w \o <<e>> = Append(w, e)
    BY <2>10
  <2>12. x[k].rows = w /\ x[k].held = IF Held(k) THEN <<RowAt[k]>> ELSE <<>>
    BY <2>1, <2>10
  <2>13. Held(k) => x[k].held # <<>> /\ Head(x[k].held).message = VisibleList[k]
    <3>1. Held(k) => RowAt[k].message = VisibleList[k]
      <4> SUFFICES ASSUME Held(k) PROVE RowAt[k].message = VisibleList[k]
        OBVIOUS
      <4>1. k \in 1 .. m
        BY <1>1, <2>1 DEF Held
      <4> QED BY <4>1 DEF RowAt
    <3> QED BY <2>12, <3>1
  <2> HIDE DEF S, Good
  <2>14. CASE Held(k) /\ timeline[n].role = "assistant"
    <3>1. x[k + 1].rows = Append(w, [alone EXCEPT !.seed = VisibleList[k]]) /\ x[k + 1].held = <<>>
      BY <2>1, <2>12, <2>13, <2>14 DEF FoldRow
    <3>2. [alone EXCEPT !.seed = VisibleList[k]] = RowAt[k + 1]
      BY <2>4, <2>14
    <3>3. StandingRows(k + 1) = StandingRows(k) \cup {k + 1}
      BY <2>3, <2>14, StandsNext
    <3>4. ~Held(k + 1)
      BY <2>5, <2>14
    <3> QED BY Zenon, <2>9, <2>10, <3>1, <3>2, <3>3, <3>4 DEF Good
  <2>15. CASE ~(Held(k) /\ timeline[n].role = "assistant")
    <3>1. PICK v : v = IF Held(k) THEN Append(w, RowAt[k]) ELSE w
      OBVIOUS
    <3>2. x[k].rows \o x[k].held = v
      BY <2>11, <2>12, <3>1
    <3>3. v = At(RowAt, IF Held(k) THEN Stands(k) ELSE StandingRows(k))
      BY <2>3, <2>9, <2>10, <2>15, <3>1, StandsNext
    <3>4. RowAt[k + 1] = alone
      BY <2>4, <2>15
    <3>5. ~(x[k].held # <<>> /\ timeline[n].role = "assistant")
      BY <2>12, <2>15
    <3>6. x[k + 1] = IF timeline[n].seed THEN [rows |-> v, held |-> <<alone>>] ELSE [rows |-> Append(v, alone), held |-> <<>>]
      BY <2>1, <3>2, <3>5 DEF FoldRow
    <3>7. Append(v, alone) = At(RowAt, (IF Held(k) THEN Stands(k) ELSE StandingRows(k)) \cup {k + 1})
      BY <2>9, <3>3, <3>4
    <3>8. StandingRows(k + 1) = IF Held(k + 1) THEN (IF Held(k) THEN Stands(k) ELSE StandingRows(k))
                                ELSE (IF Held(k) THEN Stands(k) ELSE StandingRows(k)) \cup {k + 1}
      BY <2>3, <2>15, StandsNext
    <3>9. CASE Held(k + 1)
      <4>1. x[k + 1].rows = v /\ x[k + 1].held = <<RowAt[k + 1]>>
        BY <2>6, <3>4, <3>6, <3>9
      <4> QED BY Zenon, <3>3, <3>8, <3>9, <4>1 DEF Good
    <3>10. CASE ~Held(k + 1)
      <4>1. x[k + 1].rows = Append(v, alone) /\ x[k + 1].held = <<>>
        BY <2>6, <3>6, <3>10
      <4> QED BY Zenon, <3>7, <3>8, <3>10, <4>1 DEF Good
    <3> QED BY Zenon, <3>9, <3>10
  <2> QED BY Zenon, <2>14, <2>15
<1> HIDE DEF Good, S
<1>7. \A n \in Nat : n \in S
  BY Zenon, <1>5, <1>6, OnAndOn
<1>8. Good(m)
  BY <1>1, <1>7 DEF S
<1>9. RowsFromMessages = x[m].rows \o x[m].held
  BY <1>3 DEF RowsFromMessages, NoRows, VisibleList
<1>10. StandingRows(m) \in SUBSET (1 .. m) /\ Stands(m) \in SUBSET (1 .. m) /\ \A j \in StandingRows(m) : Held(m) => j < m
  BY <1>1 DEF StandingRows, Stands
<1>11. StandingRows(m) \in SUBSET Nat /\ IsFiniteSet(StandingRows(m))
  BY Zenon, <1>1, <1>10, FewPlaces
<1>12. PICK w : w = At(RowAt, StandingRows(m)) /\ w \in Seq({RowAt[j] : j \in StandingRows(m)})
  BY Zenon, <1>11, AtSeq
<1>13. CASE Held(m)
  <2>1. Stands(m) = StandingRows(m) \cup {m}
    BY <1>1, <1>13 DEF StandingRows, Stands, Held
  <2>2. At(RowAt, StandingRows(m) \cup {m}) = Append(w, RowAt[m])
    BY Zenon, <1>1, <1>10, <1>11, <1>12, <1>13, AtNext
  <2>3. w \o <<RowAt[m]>> = Append(w, RowAt[m])
    BY <1>12
  <2>4. x[m].rows = w /\ x[m].held = <<RowAt[m]>>
    BY <1>8, <1>12, <1>13 DEF Good
  <2> QED BY Zenon, <1>9, <2>1, <2>2, <2>3, <2>4
<1>14. CASE ~Held(m)
  <2>1. Stands(m) = StandingRows(m)
    BY <1>14 DEF StandingRows
  <2>2. x[m].rows = w /\ x[m].held = <<>>
    BY <1>8, <1>12, <1>14 DEF Good
  <2>3. w \o <<>> = w
    BY <1>12
  <2> QED BY Zenon, <1>9, <1>12, <2>1, <2>2, <2>3
<1> QED BY Zenon, <1>13, <1>14

\* A sequence that has each member of a set once, and nothing else.
Lists(q, E) ==
  \E c \in Nat : /\ q \in [1 .. c -> E]
                 /\ \A i, j \in 1 .. c : q[i] = q[j] => i = j
                 /\ \A e \in E : \E i \in 1 .. c : q[i] = e

\* What is taken from such a sequence, is listed too.
LEMMA AtLists ==
  ASSUME NEW w, NEW E, NEW F, Lists(w, E)
  PROVE  Lists(At(w, {n \in DOMAIN w : w[n] \in F}), E \cap F)
<1>1. PICK c \in Nat : /\ w \in [1 .. c -> E]
                       /\ \A i, j \in 1 .. c : w[i] = w[j] => i = j
                       /\ \A e \in E : \E i \in 1 .. c : w[i] = e
  BY DEF Lists
<1> DEFINE S == {n \in DOMAIN w : w[n] \in F}
           d == Cardinality(S)
           a == Ascending(S)
           q == At(w, S)
<1>2. S \in SUBSET (1 .. c) /\ \A n \in S : w[n] \in E \cap F
  BY <1>1
<1>3. S \in SUBSET Nat /\ IsFiniteSet(S)
  BY Zenon, <1>2, FewPlaces
<1>4. /\ d \in Nat /\ a \in [1 .. d -> S]
      /\ \A i, j \in 1 .. d : i < j => a[i] < a[j]
      /\ \A m \in S : \E i \in 1 .. d : a[i] = m
  BY Zenon, <1>3, AscendingLists
<1>5. q = [i \in 1 .. d |-> w[a[i]]]
  BY Zenon, <1>3, AtSeq
<1>6. \A e \in E \cap F : \E n \in S : w[n] = e
  BY <1>1
<1> HIDE DEF S, d, a, q
<1>7. q \in [1 .. d -> E \cap F]
  BY <1>2, <1>4, <1>5
<1>8. ASSUME NEW i \in 1 .. d, NEW j \in 1 .. d, q[i] = q[j] PROVE i = j
  <2>1. a[i] \in 1 .. c /\ a[j] \in 1 .. c /\ w[a[i]] = w[a[j]]
    BY <1>2, <1>4, <1>5, <1>8
  <2>2. a[i] = a[j] /\ a[i] \in Nat
    BY <1>1, <2>1
  <2>3. ~(i < j) /\ ~(j < i)
    BY <1>4, <2>2
  <2> QED BY <2>3
<1>9. \A e \in E \cap F : \E i \in 1 .. d : q[i] = e
  <2> TAKE e \in E \cap F
  <2>1. PICK n \in S : w[n] = e
    BY <1>6
  <2>2. PICK i \in 1 .. d : a[i] = n
    BY <1>4
  <2> QED BY <1>5, <2>1, <2>2
<1>10. Lists(q, E \cap F)
  BY <1>4, <1>7, <1>8, <1>9 DEF Lists
<1> QED BY <1>10 DEF q, S

-----------------------------------------------------------------------------
(* The rows of the stored history, as a set. *)

AllRows == {RowAt[j] : j \in Stands(Cardinality(VisibleIds))}
NoneBetween(n, v) == \A u \in VisibleIds : ~(n < u /\ u < v)

\* Each visible message is a row of its own or the seed in the next one's.
RowsRight ==
  /\ \A r \in AllRows : r.message \in VisibleIds /\ r = [message |-> r.message, seed |-> r.seed]
  /\ \A r, q \in AllRows : r.message = q.message => r = q
  /\ \A r \in AllRows : r.seed # 0 =>
       /\ r.seed \in VisibleIds /\ r.seed < r.message /\ timeline[r.seed].seed /\ NoneBetween(r.seed, r.message)
       /\ \A q \in AllRows : q.message # r.seed
  /\ \A n \in VisibleIds : (\E r \in AllRows : r.message = n) \/ (\E r \in AllRows : r.seed = n)
  /\ \A r \in AllRows, v \in VisibleIds :
       ~(r.message < v /\ NoneBetween(r.message, v) /\ timeline[r.message].seed /\ timeline[v].role = "assistant")

\* The rows of the stored history are listed, each once, in their order.
LEMMA RowsListed ==
  ASSUME ConversationsTyped, StepsStored PROVE Lists(RowsFromMessages, AllRows)
<1> DEFINE m == Cardinality(VisibleIds)
           S == Stands(m)
           d == Cardinality(S)
           a == Ascending(S)
           q == At(RowAt, S)
<1>1. /\ m \in Nat /\ VisibleList \in [1 .. m -> VisibleIds]
      /\ \A i, j \in 1 .. m : i < j => VisibleList[i] < VisibleList[j]
      /\ VisibleIds \in SUBSET Nat
  BY VisibleNumbers
<1>2. S \in SUBSET (1 .. m)
  BY DEF Stands
<1>3. S \in SUBSET Nat /\ IsFiniteSet(S)
  BY Zenon, <1>1, <1>2, FewPlaces
<1>4. /\ d \in Nat /\ a \in [1 .. d -> S]
      /\ \A i, j \in 1 .. d : i < j => a[i] < a[j]
      /\ \A k \in S : \E i \in 1 .. d : a[i] = k
  BY Zenon, <1>3, AscendingLists
<1>5. q = [i \in 1 .. d |-> RowAt[a[i]]]
  BY Zenon, <1>3, AtSeq
<1>6. RowsFromMessages = q /\ AllRows = {RowAt[j] : j \in S}
  BY Zenon, RowsFold DEF AllRows
<1>7. \A j \in 1 .. m : RowAt[j].message = VisibleList[j]
  BY DEF RowAt
<1> HIDE DEF S, d, a, q, m
<1>8. q \in [1 .. d -> AllRows]
  BY <1>4, <1>5, <1>6
<1>9. ASSUME NEW i \in 1 .. d, NEW j \in 1 .. d, i < j PROVE q[i].message < q[j].message
  <2>1. a[i] \in 1 .. m /\ a[j] \in 1 .. m /\ a[i] < a[j]
    BY <1>2, <1>4, <1>9
  <2>2. q[i].message = VisibleList[a[i]] /\ q[j].message = VisibleList[a[j]]
    BY <1>5, <1>7, <2>1
  <2> QED BY <1>1, <2>1, <2>2
<1>10. \A i \in 1 .. d : q[i].message \in Nat
  <2> TAKE i \in 1 .. d
  <2>1. a[i] \in 1 .. m
    BY <1>2, <1>4
  <2>2. q[i].message = VisibleList[a[i]] /\ VisibleList[a[i]] \in VisibleIds
    BY <1>1, <1>5, <1>7, <2>1
  <2> QED BY <1>1, <2>2
<1>11. \A i, j \in 1 .. d : q[i] = q[j] => i = j
  <2> SUFFICES ASSUME NEW i \in 1 .. d, NEW j \in 1 .. d, q[i] = q[j], i # j PROVE FALSE
    OBVIOUS
  <2>1. i < j \/ j < i
    OBVIOUS
  <2>2. q[i].message < q[j].message \/ q[j].message < q[i].message
    BY <1>9, <2>1
  <2> QED BY <1>10, <2>2
<1>12. \A e \in AllRows : \E i \in 1 .. d : q[i] = e
  <2> TAKE e \in AllRows
  <2>1. PICK k \in S : RowAt[k] = e
    BY <1>6
  <2>2. PICK i \in 1 .. d : a[i] = k
    BY <1>4
  <2> QED BY <1>5, <2>1, <2>2
<1> QED BY <1>4, <1>6, <1>8, <1>11, <1>12 DEF Lists

\* The rows show each visible message once, a seed in the reply it led to.
LEMMA RowsAreRight == ASSUME ConversationsTyped, StepsStored PROVE RowsRight
<1> DEFINE m == Cardinality(VisibleIds)
<1>1. /\ m \in Nat /\ VisibleList \in [1 .. m -> VisibleIds] /\ VisibleIds \in SUBSET Nat /\ 0 \notin VisibleIds
      /\ \A i, j \in 1 .. m : i < j => VisibleList[i] < VisibleList[j]
      /\ \A n \in VisibleIds : \E i \in 1 .. m : VisibleList[i] = n
      /\ VisibleIds \subseteq DOMAIN timeline
  BY VisibleNumbers
<1> HIDE DEF m
<1>2. \A i \in 1 .. m : VisibleList[i] \in VisibleIds /\ VisibleList[i] \in Nat /\ i \in Nat
  <2> TAKE i \in 1 .. m
  <2>1. VisibleList[i] \in VisibleIds /\ i \in Nat
    BY <1>1
  <2> QED BY <1>1, <2>1
<1>3. \A i, j \in 1 .. m : (VisibleList[i] = VisibleList[j] <=> i = j) /\ (VisibleList[i] < VisibleList[j] <=> i < j)
  <2> SUFFICES ASSUME NEW i \in 1 .. m, NEW j \in 1 .. m PROVE (VisibleList[i] = VisibleList[j] <=> i = j) /\ (VisibleList[i] < VisibleList[j] <=> i < j)
    OBVIOUS
  <2>1. (i < j => VisibleList[i] < VisibleList[j]) /\ (j < i => VisibleList[j] < VisibleList[i])
    BY <1>1
  <2>2. i \in Nat /\ j \in Nat /\ VisibleList[i] \in Nat /\ VisibleList[j] \in Nat
    BY <1>2
  <2> QED BY <2>1, <2>2
<1>4. Stands(m) = {j \in 1 .. m : j < m => ~TakenBy(j, j + 1)} /\ AllRows = {RowAt[j] : j \in Stands(m)}
  BY DEF Stands, AllRows, m
<1>5. \A j \in 1 .. m :
        /\ RowAt[j].message = VisibleList[j] /\ RowAt[j] = [message |-> RowAt[j].message, seed |-> RowAt[j].seed]
        /\ IF j > 1 /\ TakenBy(j - 1, j) THEN RowAt[j].seed = VisibleList[j - 1] ELSE RowAt[j].seed = 0
  <2> TAKE j \in 1 .. m
  <2> DEFINE e == IF j > 1 /\ TakenBy(j - 1, j) THEN VisibleList[j - 1] ELSE 0
  <2>1. RowAt[j] = [message |-> VisibleList[j], seed |-> e]
    BY Zenon DEF RowAt, m
  <2> HIDE DEF e
  <2>2. RowAt[j].message = VisibleList[j] /\ RowAt[j].seed = e /\ RowAt[j] = [message |-> RowAt[j].message, seed |-> RowAt[j].seed]
    BY <2>1
  <2> QED BY <2>2 DEF e
<1>6. \A r \in AllRows : \E j \in Stands(m) : r = RowAt[j] /\ j \in 1 .. m
  BY <1>4
<1>7. \A j, l \in 1 .. m : VisibleList[j] < VisibleList[l] /\ NoneBetween(VisibleList[j], VisibleList[l]) <=> l = j + 1
  <2> SUFFICES ASSUME NEW j \in 1 .. m, NEW l \in 1 .. m PROVE VisibleList[j] < VisibleList[l] /\ NoneBetween(VisibleList[j], VisibleList[l]) <=> l = j + 1
    OBVIOUS
  <2>1. ASSUME VisibleList[j] < VisibleList[l], NoneBetween(VisibleList[j], VisibleList[l]) PROVE l = j + 1
    <3>1. j < l
      BY <1>3, <2>1
    <3>2. j + 1 \in 1 .. m /\ j < j + 1
      BY <1>1, <3>1
    <3>3. ~(j + 1 < l)
      BY <1>2, <1>3, <2>1, <3>2 DEF NoneBetween
    <3> QED BY <3>1, <3>3
  <2>2. ASSUME l = j + 1 PROVE VisibleList[j] < VisibleList[l] /\ NoneBetween(VisibleList[j], VisibleList[l])
    <3>1. j < l
      BY <2>2
    <3>2. ASSUME NEW u \in VisibleIds, VisibleList[j] < u, u < VisibleList[l] PROVE FALSE
      <4>1. PICK i \in 1 .. m : VisibleList[i] = u
        BY <1>1
      <4>2. j < i /\ i < l
        BY <1>3, <3>2, <4>1
      <4> QED BY <2>2, <4>2
    <3> QED BY <1>3, <3>1, <3>2 DEF NoneBetween
  <2> QED BY <2>1, <2>2
<1>8. \A r \in AllRows : r.message \in VisibleIds /\ r = [message |-> r.message, seed |-> r.seed]
  BY <1>2, <1>5, <1>6
<1>9. \A r, q \in AllRows : r.message = q.message => r = q
  <2> SUFFICES ASSUME NEW r \in AllRows, NEW q \in AllRows, r.message = q.message PROVE r = q
    OBVIOUS
  <2>1. PICK j \in 1 .. m : r = RowAt[j]
    BY <1>6
  <2>2. PICK l \in 1 .. m : q = RowAt[l]
    BY <1>6
  <2>3. VisibleList[j] = VisibleList[l]
    BY <1>5, <2>1, <2>2
  <2> QED BY <1>3, <2>1, <2>2, <2>3
<1>10. ASSUME NEW r \in AllRows, r.seed # 0
       PROVE  /\ r.seed \in VisibleIds /\ r.seed < r.message /\ timeline[r.seed].seed /\ NoneBetween(r.seed, r.message)
              /\ \A q \in AllRows : q.message # r.seed
  <2>1. PICK j \in Stands(m) : r = RowAt[j] /\ j \in 1 .. m
    BY <1>6
  <2>2. j > 1 /\ TakenBy(j - 1, j) /\ r.seed = VisibleList[j - 1] /\ r.message = VisibleList[j]
    BY <1>5, <1>10, <2>1
  <2>3. j - 1 \in 1 .. m /\ j = (j - 1) + 1 /\ j - 1 < m
    BY <1>1, <2>1, <2>2
  <2>4. r.seed \in VisibleIds /\ r.seed < r.message /\ NoneBetween(r.seed, r.message)
    BY <1>2, <1>7, <2>1, <2>2, <2>3
  <2>5. timeline[r.seed].seed
    BY <2>2 DEF TakenBy
  <2>6. j - 1 \notin Stands(m)
    BY <1>4, <2>2, <2>3
  <2>7. ASSUME NEW q \in AllRows, q.message = r.seed PROVE FALSE
    <3>1. PICK l \in Stands(m) : q = RowAt[l] /\ l \in 1 .. m
      BY <1>6
    <3>2. VisibleList[l] = VisibleList[j - 1]
      BY <1>5, <2>2, <2>7, <3>1
    <3> QED BY <1>3, <2>3, <2>6, <3>1, <3>2
  <2> QED BY <2>4, <2>5, <2>7
<1>11. ASSUME NEW n \in VisibleIds PROVE (\E r \in AllRows : r.message = n) \/ (\E r \in AllRows : r.seed = n)
  <2>1. PICK j \in 1 .. m : VisibleList[j] = n
    BY <1>1
  <2>2. CASE j \in Stands(m)
    BY <1>4, <1>5, <2>1, <2>2
  <2>3. CASE j \notin Stands(m)
    <3>1. j < m /\ TakenBy(j, j + 1)
      BY <1>4, <2>3
    <3>2. j + 1 \in 1 .. m /\ j + 1 > 1 /\ (j + 1) - 1 = j /\ j \in Nat
      BY <1>1, <3>1
    <3>3. RowAt[j + 1].seed = VisibleList[j]
      BY <1>5, <3>1, <3>2
    <3>4. j + 1 \in Stands(m)
      <4> SUFFICES ASSUME j + 1 < m, TakenBy(j + 1, (j + 1) + 1) PROVE FALSE
        BY <1>4, <3>2
      <4>1. timeline[VisibleList[j + 1]].seed /\ timeline[VisibleList[j + 1]].role = "assistant"
        BY <3>1 DEF TakenBy
      <4>2. VisibleList[j + 1] \in DOMAIN timeline
        BY <1>1, <1>2, <3>2
      <4> QED BY <4>1, <4>2 DEF StepsStored
    <3> QED BY <1>4, <2>1, <3>3, <3>4
  <2> QED BY <2>2, <2>3
<1>12. ASSUME NEW r \in AllRows, NEW v \in VisibleIds, r.message < v, NoneBetween(r.message, v), timeline[r.message].seed,
              timeline[v].role = "assistant"
       PROVE  FALSE
  <2>1. PICK j \in Stands(m) : r = RowAt[j] /\ j \in 1 .. m
    BY <1>6
  <2>2. PICK l \in 1 .. m : VisibleList[l] = v
    BY <1>1
  <2>3. r.message = VisibleList[j]
    BY <1>5, <2>1
  <2>4. l = j + 1
    BY <1>7, <1>12, <2>1, <2>2, <2>3
  <2>5. TakenBy(j, j + 1)
    BY <1>12, <2>2, <2>3, <2>4 DEF TakenBy
  <2>6. j < m
    BY <1>1, <2>1, <2>2, <2>4
  <2> QED BY <1>4, <2>1, <2>5, <2>6
<1> QED BY <1>8, <1>9, <1>10, <1>11, <1>12 DEF RowsRight

-----------------------------------------------------------------------------
(* The entries of the page and their places. *)

PublicRows == {r \in AllRows : ~IsPrivate(timeline[r.message].step)}
KnownRows == {r \in PublicRows : \E k \in PublicEvents : log[k].message = r.message}
Told == {log[k].step : k \in {n \in DOMAIN log : log[n].kind \in {"message", "consult_result"}}}
Begun == {log[k].step : k \in {n \in PublicEvents : log[n].kind = "speaker_started"}}
Early == {[message |-> r.message, seed |-> r.seed, step |-> 0, at |-> 0] : r \in PublicRows \ KnownRows}
Placed == {[message |-> r.message, seed |-> r.seed, step |-> 0, at |-> Place(Telling(r.message))] : r \in KnownRows}
          \cup {[message |-> 0, seed |-> 0, step |-> s, at |-> StartedAt(s)] : s \in Begun \ Told}
PagePlaces == {p.at : p \in Placed}

StoryTrue ==
  ConversationsTyped /\ RunsNamed /\ StepsStored /\ EventsTrue /\ EventsOrdered /\ EventsThere

\* The places of the log are finitely many numbers.
LEMMA EventNumbers ==
  ASSUME ConversationsTyped
  PROVE  /\ Len(log) \in Nat /\ DOMAIN log = 1 .. Len(log) /\ DOMAIN log \in SUBSET Nat /\ IsFiniteSet(DOMAIN log)
         /\ \A S : S \subseteq DOMAIN log => S \in SUBSET Nat /\ IsFiniteSet(S)
         /\ \A k \in DOMAIN log : log[k] \in EventRecords /\ k \in Nat /\ k # 0
         /\ PublicEvents \subseteq DOMAIN log
<1>1. Len(log) \in Nat /\ DOMAIN log = 1 .. Len(log) /\ \A k \in DOMAIN log : log[k] \in EventRecords /\ k \in Nat /\ k # 0
  BY DEF ConversationsTyped
<1>2. \A S : S \subseteq DOMAIN log => S \in SUBSET Nat /\ IsFiniteSet(S)
  BY Zenon, <1>1, FewPlaces
<1>3. DOMAIN log \in SUBSET Nat /\ IsFiniteSet(DOMAIN log)
  BY Zenon, <1>2
<1> QED BY <1>1, <1>2, <1>3 DEF PublicEvents

\* A contribution is placed where it began.
LEMMA StartPlaced ==
  ASSUME StoryTrue, NEW s \in DOMAIN contributions
  PROVE  StartedAt(s) \in DOMAIN log /\ Begins(StartedAt(s), s)
<1> DEFINE S == {k \in DOMAIN log : log[k].kind = "speaker_started" /\ log[k].step = s}
<1>1. S # {} /\ S \subseteq DOMAIN log
  BY DEF StoryTrue, EventsThere, Begins
<1>2. S \in SUBSET Nat /\ IsFiniteSet(S)
  BY Zenon, <1>1, EventNumbers DEF StoryTrue
<1>3. Min(S) \in S
  BY Zenon, <1>1, <1>2, AscendingEnds
<1> QED BY <1>3 DEF StartedAt, Begins

\* A message is placed by the last event that tells of it.
LEMMA TellingPlaced ==
  ASSUME ConversationsTyped, NEW n, \E k \in PublicEvents : log[k].message = n
  PROVE  /\ Telling(n) \in PublicEvents /\ log[Telling(n)].message = n
         /\ \A k \in PublicEvents : log[k].message = n => k <= Telling(n)
<1> DEFINE S == {k \in PublicEvents : log[k].message = n}
<1>1. S # {} /\ S \subseteq DOMAIN log
  BY EventNumbers
<1>2. S \in SUBSET Nat /\ IsFiniteSet(S)
  BY Zenon, <1>1, EventNumbers
<1>3. Max(S) \in S /\ \A k \in S : k <= Max(S)
  BY Zenon, <1>1, <1>2, AscendingEnds
<1> QED BY <1>3 DEF Telling

\* An answer's event is told within a contribution, and places it where that began.
LEMMA PlaceOf ==
  ASSUME StoryTrue, NEW k \in DOMAIN log, log[k].message # 0
  PROVE  IF log[k].step = 0 THEN Place(k) = k
         ELSE /\ log[k].step \in DOMAIN contributions /\ log[k].kind \in AnswerKinds /\ Place(k) = StartedAt(log[k].step)
              /\ log[k].step \in Told
              /\ contributions[log[k].step].message = log[k].message /\ timeline[log[k].message].step = log[k].step
<1>1. log[k].step # 0 => log[k].step \in DOMAIN contributions /\ log[k].kind \in AnswerKinds
  BY DEF StoryTrue, EventsTrue
<1>2. log[k].step # 0 => contributions[log[k].step].message = log[k].message /\ timeline[log[k].message].step = log[k].step
  BY <1>1 DEF StoryTrue, EventsTrue, StepsStored
<1>3. log[k].step # 0 => log[k].step \in Told
  BY <1>1 DEF Told, AnswerKinds
<1> QED BY <1>1, <1>2, <1>3 DEF Place

\* What is at a place.
LEMMA WhatIsPlaced ==
  ASSUME StoryTrue, RowsRight, NEW p \in Placed
  PROVE  /\ p.at \in DOMAIN log
         /\ p.step = 0 \/ p.step \in Begun \ Told
         /\ p.step # 0 => p.message = 0 /\ p.seed = 0 /\ p.at = StartedAt(p.step) /\ p.step \in DOMAIN contributions
         /\ p.step = 0 => \E r \in KnownRows : /\ p.message = r.message /\ p.seed = r.seed /\ p.message # 0
                                               /\ p.at = Place(Telling(r.message))
         /\ p = [message |-> p.message, seed |-> p.seed, step |-> p.step, at |-> p.at]
<1>0. ConversationsTyped
  BY DEF StoryTrue
<1>1. \A s \in Begun \ Told : s \in DOMAIN contributions /\ s # 0
  <2> TAKE s \in Begun \ Told
  <2>1. PICK k \in PublicEvents : log[k].kind = "speaker_started" /\ log[k].step = s
    BY DEF Begun
  <2>2. k \in DOMAIN log
    BY <1>0, <2>1, EventNumbers
  <2>3. log[k].step # 0 /\ log[k].step \in DOMAIN contributions
    BY <2>1, <2>2 DEF StoryTrue, EventsTrue, EndKinds
  <2> QED BY <2>1, <2>3
<1>2. \A r \in KnownRows : r.message # 0 /\ Telling(r.message) \in DOMAIN log /\ log[Telling(r.message)].message = r.message
  <2> TAKE r \in KnownRows
  <2>1. r \in AllRows /\ \E k \in PublicEvents : log[k].message = r.message
    BY DEF KnownRows, PublicRows
  <2>2. r.message # 0
    BY <1>0, <2>1, VisibleNumbers DEF RowsRight
  <2> QED BY <1>0, <2>1, <2>2, TellingPlaced, EventNumbers
<1>3. CASE \E r \in KnownRows : p = [message |-> r.message, seed |-> r.seed, step |-> 0, at |-> Place(Telling(r.message))]
  <2>1. PICK r \in KnownRows : p = [message |-> r.message, seed |-> r.seed, step |-> 0, at |-> Place(Telling(r.message))]
    BY <1>3
  <2> DEFINE k == Telling(r.message)
  <2>2. k \in DOMAIN log /\ log[k].message # 0
    BY <1>2
  <2>3. Place(k) \in DOMAIN log
    BY <2>2, PlaceOf, StartPlaced
  <2> QED BY <1>2, <2>1, <2>3
<1>4. CASE \E s \in Begun \ Told : p = [message |-> 0, seed |-> 0, step |-> s, at |-> StartedAt(s)]
  <2>1. PICK s \in Begun \ Told : p = [message |-> 0, seed |-> 0, step |-> s, at |-> StartedAt(s)]
    BY <1>4
  <2> QED BY <1>1, <2>1, StartPlaced
<1> QED BY <1>3, <1>4 DEF Placed

\* No two things are at one place.
LEMMA PlacesApart ==
  ASSUME StoryTrue, RowsRight, NEW p \in Placed, NEW q \in Placed, p.at = q.at PROVE p = q
<1> DEFINE Row(x) == \E r \in KnownRows : /\ x.message = r.message /\ x.seed = r.seed /\ x.message # 0
                                          /\ x.at = Place(Telling(r.message))
<1>1. ASSUME NEW x \in Placed, x.step = 0
      PROVE  \E k \in DOMAIN log : /\ log[k].message = x.message /\ log[k].message # 0 /\ x.at = Place(k)
  <2>1. PICK r \in KnownRows : x.message = r.message /\ x.message # 0 /\ x.at = Place(Telling(r.message))
    BY Zenon, <1>1, WhatIsPlaced
  <2>2. \E k \in PublicEvents : log[k].message = r.message
    BY DEF KnownRows
  <2>3. Telling(r.message) \in DOMAIN log /\ log[Telling(r.message)].message = r.message
    BY <2>2, TellingPlaced, EventNumbers DEF StoryTrue
  <2> QED BY <2>1, <2>3
<1>2. ASSUME NEW x \in Placed, x.step = 0
      PROVE  \/ log[x.at].message = x.message /\ log[x.at].step = 0
             \/ /\ log[x.at].kind = "speaker_started" /\ log[x.at].step \in Told /\ log[x.at].step # 0
                /\ x.message = contributions[log[x.at].step].message
  <2>1. PICK k \in DOMAIN log : log[k].message = x.message /\ log[k].message # 0 /\ x.at = Place(k)
    BY <1>1, <1>2
  <2>2. CASE log[k].step = 0
    BY <2>1, <2>2, PlaceOf
  <2>3. CASE log[k].step # 0
    <3>1. /\ log[k].step \in DOMAIN contributions /\ x.at = StartedAt(log[k].step)
          /\ log[k].step \in Told /\ contributions[log[k].step].message = x.message
      BY <2>1, <2>3, PlaceOf
    <3>2. log[x.at].kind = "speaker_started" /\ log[x.at].step = log[k].step
      BY <3>1, StartPlaced DEF Begins
    <3> QED BY <2>3, <3>1, <3>2
  <2> QED BY <2>2, <2>3
<1>3. ASSUME NEW x \in Placed, x.step # 0
      PROVE  log[x.at].kind = "speaker_started" /\ log[x.at].step = x.step /\ x.step \notin Told /\ x.message = 0 /\ x.seed = 0
  BY <1>3, WhatIsPlaced, StartPlaced DEF Begins
<1>4. p.step = q.step
  BY <1>2, <1>3
<1>5. p.step = 0 => p.message = q.message
  <2>1. p.step = 0 => \A x \in {p, q} : log[x.at].kind = "speaker_started" /\ log[x.at].step \in Told /\ log[x.at].step # 0 =>
                                          x.message = contributions[log[x.at].step].message
    BY <1>2, <1>4
  <2> QED BY <1>2, <1>4
<1>6. p.seed = q.seed /\ p.message = q.message
  <2>1. CASE p.step # 0
    BY <1>3, <1>4, <2>1
  <2>2. CASE p.step = 0
    <3>1. PICK r \in KnownRows : p.message = r.message /\ p.seed = r.seed
      BY Zenon, <2>2, WhatIsPlaced
    <3>2. PICK t \in KnownRows : q.message = t.message /\ q.seed = t.seed
      BY Zenon, <1>4, <2>2, WhatIsPlaced
    <3>3. r = t
      <4>1. r \in AllRows /\ t \in AllRows
        BY DEF KnownRows, PublicRows
      <4> QED BY <1>5, <2>2, <3>1, <3>2, <4>1 DEF RowsRight
    <3> QED BY <3>1, <3>2, <3>3
  <2> QED BY <2>1, <2>2
<1>7. p = [message |-> p.message, seed |-> p.seed, step |-> p.step, at |-> p.at]
      /\ q = [message |-> q.message, seed |-> q.seed, step |-> q.step, at |-> q.at]
  BY Zenon, WhatIsPlaced
<1> QED BY Zenon, <1>4, <1>6, <1>7

\* The page: early rows, then what has a place in the log, in the log's order.
PageLists(c, d) ==
  /\ c \in Nat /\ d \in Nat /\ DOMAIN History = 1 .. (c + d)
  /\ \A i \in 1 .. c : History[i] \in Early
  /\ \A i \in (c + 1) .. (c + d) : History[i] \in Placed
  /\ \A i, j \in 1 .. (c + d) : History[i] = History[j] => i = j
  /\ \A e \in Early \cup Placed : \E i \in 1 .. (c + d) : History[i] = e
  /\ \A i, j \in (c + 1) .. (c + d) : i < j => History[i].at < History[j].at

\* The rows without an event, in their order.
LEMMA EarlyListed ==
  ASSUME RowsRight, NEW w, Lists(w, PublicRows \ KnownRows)
  PROVE  Lists([n \in DOMAIN w |-> [message |-> w[n].message, seed |-> w[n].seed, step |-> 0, at |-> 0]], Early)
<1> DEFINE early(r) == [message |-> r.message, seed |-> r.seed, step |-> 0, at |-> 0]
           q == [n \in DOMAIN w |-> early(w[n])]
           R == PublicRows \ KnownRows
<1>1. PICK c \in Nat : /\ w \in [1 .. c -> R]
                       /\ \A i, j \in 1 .. c : w[i] = w[j] => i = j
                       /\ \A e \in R : \E i \in 1 .. c : w[i] = e
  BY DEF Lists
<1>2. \A r, t \in R : early(r) = early(t) => r = t
  <2> SUFFICES ASSUME NEW r \in R, NEW t \in R, early(r) = early(t) PROVE r = t
    OBVIOUS
  <2>1. early(r).message = r.message /\ early(t).message = t.message
    OBVIOUS
  <2>2. r.message = t.message /\ r \in AllRows /\ t \in AllRows
    BY <2>1 DEF PublicRows
  <2> QED BY <2>2 DEF RowsRight
<1>3. Early = {early(r) : r \in R}
  BY DEF Early
<1> HIDE DEF early, R
<1>4. q \in [1 .. c -> Early]
  BY <1>1, <1>3
<1>5. \A i, j \in 1 .. c : q[i] = q[j] => i = j
  BY <1>1, <1>2
<1>6. \A e \in Early : \E i \in 1 .. c : q[i] = e
  <2> TAKE e \in Early
  <2>1. PICK r \in R : early(r) = e
    BY <1>3
  <2>2. PICK i \in 1 .. c : w[i] = r
    BY <1>1
  <2> QED BY <1>1, <2>1, <2>2
<1>7. Lists(q, Early)
  BY <1>4, <1>5, <1>6 DEF Lists
<1> QED BY <1>7 DEF early

\* The places taken on the page are places of the log.
LEMMA PlacesNumbers ==
  ASSUME StoryTrue, RowsRight
  PROVE  PagePlaces \subseteq DOMAIN log /\ PagePlaces \in SUBSET Nat /\ IsFiniteSet(PagePlaces) /\ 0 \notin PagePlaces
<1>1. \A p \in Placed : p.at \in DOMAIN log
  BY WhatIsPlaced
<1>2. PagePlaces \subseteq DOMAIN log
  BY <1>1 DEF PagePlaces
<1>3. PagePlaces \in SUBSET Nat /\ IsFiniteSet(PagePlaces)
  BY Zenon, <1>2, EventNumbers DEF StoryTrue
<1>4. 0 \notin DOMAIN log
  BY EventNumbers DEF StoryTrue
<1> QED BY <1>2, <1>3, <1>4

InOrder(P) == LET order == Ascending({p.at : p \in P}) IN [n \in DOMAIN order |-> CHOOSE p \in P : p.at = order[n]]

\* What has a place on the page is listed by its place.
LEMMA PlacedListed ==
  ASSUME StoryTrue, RowsRight
  PROVE  \E d \in Nat : /\ InOrder(Placed) \in [1 .. d -> Placed]
                        /\ \A i, j \in 1 .. d : i < j => InOrder(Placed)[i].at < InOrder(Placed)[j].at
                        /\ \A e \in Placed : \E i \in 1 .. d : InOrder(Placed)[i] = e
<1> DEFINE d == Cardinality(PagePlaces)
           a == Ascending(PagePlaces)
           q == InOrder(Placed)
<1>1. PagePlaces \in SUBSET Nat /\ IsFiniteSet(PagePlaces)
  BY Zenon, PlacesNumbers
<1>2. /\ d \in Nat /\ a \in [1 .. d -> PagePlaces]
      /\ \A i, j \in 1 .. d : i < j => a[i] < a[j]
      /\ \A m \in PagePlaces : \E i \in 1 .. d : a[i] = m
  BY Zenon, <1>1, AscendingLists
<1>3. q = [n \in DOMAIN a |-> CHOOSE p \in Placed : p.at = a[n]]
  BY Zenon DEF InOrder, PagePlaces
<1> HIDE DEF d, a, q
<1>4. ASSUME NEW i \in 1 .. d PROVE q[i] \in Placed /\ q[i].at = a[i]
  <2>1. a[i] \in PagePlaces
    BY <1>2
  <2>2. \E p \in Placed : p.at = a[i]
    BY <2>1 DEF PagePlaces
  <2>3. q[i] = CHOOSE p \in Placed : p.at = a[i]
    BY <1>2, <1>3
  <2> QED BY <2>2, <2>3
<1>5. q \in [1 .. d -> Placed]
  <2>1. DOMAIN q = 1 .. d /\ q = [n \in DOMAIN q |-> q[n]]
    BY <1>2, <1>3
  <2> QED BY <1>4, <2>1
<1>6. \A i, j \in 1 .. d : i < j => q[i].at < q[j].at
  BY <1>2, <1>4
<1>7. \A e \in Placed : \E i \in 1 .. d : q[i] = e
  <2> TAKE e \in Placed
  <2>1. e.at \in PagePlaces
    BY DEF PagePlaces
  <2>2. PICK i \in 1 .. d : a[i] = e.at
    BY <1>2, <2>1
  <2> QED BY <1>4, <2>2, PlacesApart
<1> QED BY <1>2, <1>5, <1>6, <1>7 DEF q

\* The page lists the early rows and what is placed, each once.
LEMMA PageListed ==
  ASSUME StoryTrue, RowsRight PROVE \E c, d \in Nat : PageLists(c, d)
<1> DEFINE all == RowsFromMessages
           rows == At(all, {n \in DOMAIN all : ~IsPrivate(timeline[all[n].message].step)})
           known == {r \in ToSet(rows) : \E k \in PublicEvents : log[k].message = r.message}
           unbound == At(rows, {n \in DOMAIN rows : rows[n] \notin known})
           first == [n \in DOMAIN unbound |-> [message |-> unbound[n].message, seed |-> unbound[n].seed, step |-> 0, at |-> 0]]
           placed == {[message |-> r.message, seed |-> r.seed, step |-> 0, at |-> Place(Telling(r.message))] : r \in known}
                     \cup {[message |-> 0, seed |-> 0, step |-> s, at |-> StartedAt(s)] : s \in Begun \ Told}
           second == InOrder(placed)
<1>1. History = first \o second
  BY Zenon DEF History, Begun, Told, InOrder
<1>2. Lists(all, AllRows)
  BY Zenon, RowsListed DEF StoryTrue
<1> HIDE DEF all
<1>3. Lists(rows, PublicRows)
  <2>1. \A n \in DOMAIN all : all[n] \in AllRows
    BY <1>2 DEF Lists
  <2>2. {n \in DOMAIN all : ~IsPrivate(timeline[all[n].message].step)} = {n \in DOMAIN all : all[n] \in PublicRows}
    BY <2>1 DEF PublicRows
  <2>3. Lists(At(all, {n \in DOMAIN all : all[n] \in PublicRows}), AllRows \cap PublicRows)
    BY Zenon, <1>2, AtLists
  <2>4. AllRows \cap PublicRows = PublicRows
    BY DEF PublicRows
  <2> QED BY Zenon, <2>2, <2>3, <2>4
<1> HIDE DEF rows
<1>4. ToSet(rows) = PublicRows
  BY <1>3 DEF Lists, ToSet
<1>5. known = KnownRows
  BY <1>4 DEF KnownRows
<1>6. placed = Placed
  BY Zenon, <1>5 DEF Placed
<1> HIDE DEF known
<1>7. Lists(unbound, PublicRows \ KnownRows)
  <2>1. \A n \in DOMAIN rows : rows[n] \in PublicRows
    BY <1>3 DEF Lists
  <2>2. {n \in DOMAIN rows : rows[n] \notin known} = {n \in DOMAIN rows : rows[n] \in PublicRows \ KnownRows}
    BY <1>5, <2>1
  <2>3. Lists(At(rows, {n \in DOMAIN rows : rows[n] \in PublicRows \ KnownRows}), PublicRows \cap (PublicRows \ KnownRows))
    BY Zenon, <1>3, AtLists
  <2>4. PublicRows \cap (PublicRows \ KnownRows) = PublicRows \ KnownRows
    OBVIOUS
  <2> QED BY Zenon, <2>2, <2>3, <2>4
<1> HIDE DEF unbound, placed
<1>8. Lists(first, Early)
  BY Zenon, <1>7, EarlyListed
<1>9. PICK c \in Nat : /\ first \in [1 .. c -> Early]
                       /\ \A i, j \in 1 .. c : first[i] = first[j] => i = j
                       /\ \A e \in Early : \E i \in 1 .. c : first[i] = e
  BY <1>8 DEF Lists
<1>10. second = InOrder(Placed)
  BY Zenon, <1>6
<1> HIDE DEF first, second
<1>11. PICK d \in Nat : /\ second \in [1 .. d -> Placed]
                        /\ \A i, j \in 1 .. d : i < j => second[i].at < second[j].at
                        /\ \A e \in Placed : \E i \in 1 .. d : second[i] = e
  BY Zenon, <1>10, PlacedListed
<1>12. /\ DOMAIN History = 1 .. (c + d)
       /\ \A i \in 1 .. c : History[i] = first[i]
       /\ \A i \in 1 .. d : History[c + i] = second[i]
  <2>1. first \in Seq(Early) /\ Len(first) = c /\ second \in Seq(Placed) /\ Len(second) = d
    BY <1>9, <1>11
  <2>2. first \in Seq(Early \cup Placed) /\ second \in Seq(Early \cup Placed)
    BY <1>9, <1>11
  <2> QED BY <1>1, <2>1, <2>2
<1>13. \A i \in 1 .. c : History[i] \in Early /\ History[i].at = 0
  <2>1. \A e \in Early : e.at = 0
    BY DEF Early
  <2> QED BY <1>9, <1>12, <2>1
<1>14. \A i \in (c + 1) .. (c + d) : i - c \in 1 .. d /\ History[i] = second[i - c] /\ second[i - c] \in Placed /\ i \in Nat
  <2> TAKE i \in (c + 1) .. (c + d)
  <2>1. i - c \in 1 .. d /\ i = c + (i - c) /\ i \in Nat
    OBVIOUS
  <2> QED BY <1>11, <1>12, <2>1
<1>15. \A p \in Placed : p.at \in Nat /\ p.at # 0
  BY PlacesNumbers DEF PagePlaces
<1>16. \A i \in 1 .. (c + d) : i \in 1 .. c \/ i \in (c + 1) .. (c + d)
  OBVIOUS
<1>17. \A i, j \in (c + 1) .. (c + d) : i < j => History[i].at < History[j].at
  <2> SUFFICES ASSUME NEW i \in (c + 1) .. (c + d), NEW j \in (c + 1) .. (c + d), i < j PROVE History[i].at < History[j].at
    OBVIOUS
  <2>1. i - c < j - c
    BY <1>14
  <2> QED BY <1>11, <1>14, <2>1
<1>18. \A i, j \in 1 .. (c + d) : History[i] = History[j] => i = j
  <2> SUFFICES ASSUME NEW i \in 1 .. (c + d), NEW j \in 1 .. (c + d), History[i] = History[j], i # j PROVE FALSE
    OBVIOUS
  <2>1. CASE i \in 1 .. c /\ j \in 1 .. c
    BY <1>9, <1>12, <2>1
  <2>2. CASE i \in (c + 1) .. (c + d) /\ j \in (c + 1) .. (c + d)
    <3>1. i < j \/ j < i
      OBVIOUS
    <3>2. History[i].at < History[j].at \/ History[j].at < History[i].at
      BY <1>17, <2>2, <3>1
    <3>3. History[i].at \in Nat
      BY <1>14, <1>15, <2>2
    <3> QED BY <3>2, <3>3
  <2>3. CASE (i \in 1 .. c /\ j \in (c + 1) .. (c + d)) \/ (j \in 1 .. c /\ i \in (c + 1) .. (c + d))
    BY <1>13, <1>14, <1>15, <2>3
  <2> QED BY <1>16, <2>1, <2>2, <2>3
<1>19. \A e \in Early \cup Placed : \E i \in 1 .. (c + d) : History[i] = e
  <2> TAKE e \in Early \cup Placed
  <2>1. CASE e \in Early
    <3>1. PICK i \in 1 .. c : first[i] = e
      BY <1>9, <2>1
    <3> QED BY <1>12, <3>1
  <2>2. CASE e \in Placed
    <3>1. PICK i \in 1 .. d : second[i] = e
      BY <1>11, <2>2
    <3>2. c + i \in 1 .. (c + d)
      OBVIOUS
    <3> QED BY <1>12, <3>1, <3>2
  <2> QED BY <2>1, <2>2
<1>20. PageLists(c, d)
  BY <1>12, <1>13, <1>14, <1>17, <1>18, <1>19 DEF PageLists
<1> QED BY <1>20

-----------------------------------------------------------------------------
(* The page, entry by entry. *)

\* The elements of a list.
LEMMA MembersOf == ASSUME NEW T, NEW s \in Seq(T) PROVE Len(s) \in Nat /\ DOMAIN s = 1 .. Len(s) /\ \A n \in DOMAIN s : s[n] \in T
  OBVIOUS

EarlyEntry(r) == [message |-> r.message, seed |-> r.seed, step |-> 0, at |-> 0]
PlacedEntry(r) == [message |-> r.message, seed |-> r.seed, step |-> 0, at |-> Place(Telling(r.message))]
EntryOf(r) == IF r \in KnownRows THEN PlacedEntry(r) ELSE EarlyEntry(r)
StepEntry(s) == [message |-> 0, seed |-> 0, step |-> s, at |-> StartedAt(s)]

\* The entries of the page, by what they show.
LEMMA EntriesAre ==
  /\ Early = {EarlyEntry(r) : r \in PublicRows \ KnownRows}
  /\ Placed = {PlacedEntry(r) : r \in KnownRows} \cup {StepEntry(s) : s \in Begun \ Told}
  /\ KnownRows \subseteq PublicRows /\ PublicRows \subseteq AllRows
  BY DEF Early, Placed, EarlyEntry, PlacedEntry, StepEntry, KnownRows, PublicRows

\* What the page shows at a place: a row, or a contribution that is not told.
LEMMA PlaceShows ==
  ASSUME NEW c, NEW d, PageLists(c, d), NEW k \in DOMAIN History
  PROVE  (\E r \in PublicRows : History[k] = EntryOf(r)) \/ (\E s \in Begun \ Told : History[k] = StepEntry(s))
<1>1. k \in 1 .. c \/ k \in (c + 1) .. (c + d)
  BY DEF PageLists
<1>2. History[k] \in Early \cup Placed
  BY <1>1 DEF PageLists
<1>3. \A r \in PublicRows \ KnownRows : EntryOf(r) = EarlyEntry(r)
  BY DEF EntryOf
<1>4. \A r \in KnownRows : EntryOf(r) = PlacedEntry(r)
  BY DEF EntryOf
<1> QED BY Zenon, <1>2, <1>3, <1>4, EntriesAre

\* What an entry says.
LEMMA EntryFields ==
  /\ \A r : EntryOf(r).message = r.message /\ EntryOf(r).seed = r.seed /\ EntryOf(r).step = 0
            /\ EntryOf(r).at = IF r \in KnownRows THEN Place(Telling(r.message)) ELSE 0
  /\ \A s : StepEntry(s).message = 0 /\ StepEntry(s).seed = 0 /\ StepEntry(s).step = s /\ StepEntry(s).at = StartedAt(s)
  BY DEF EntryOf, EarlyEntry, PlacedEntry, StepEntry

\* A row is on the page once, behind the early ones when an event tells of it.
LEMMA RowShown ==
  ASSUME ConversationsTyped, RowsRight, NEW c, NEW d, PageLists(c, d), NEW r \in PublicRows
  PROVE  \E k \in DOMAIN History : /\ History[k] = EntryOf(r) /\ (r \in KnownRows <=> k > c)
                                   /\ \A j \in DOMAIN History : History[j].message = r.message <=> j = k
<1>1. EntryOf(r) \in Early \cup Placed
  BY Zenon, EntriesAre DEF EntryOf
<1>2. PICK k \in 1 .. (c + d) : History[k] = EntryOf(r)
  BY <1>1 DEF PageLists
<1>3. k \in DOMAIN History /\ c \in Nat /\ d \in Nat
  BY DEF PageLists
<1>4. r.message # 0
  BY VisibleNumbers, EntriesAre DEF RowsRight
<1>5. ASSUME NEW j \in DOMAIN History, History[j].message = r.message PROVE j = k
  <2>1. \A s : History[j] # StepEntry(s)
    BY <1>4, <1>5, EntryFields
  <2>2. PICK t \in PublicRows : History[j] = EntryOf(t)
    BY <2>1, PlaceShows
  <2>3. t.message = r.message
    BY <1>5, <2>2, EntryFields
  <2>4. t = r
    BY <2>3, EntriesAre DEF RowsRight
  <2> QED BY <1>2, <2>2, <2>4 DEF PageLists
<1>6. r \in KnownRows <=> k > c
  <2>1. \A t \in PublicRows : t.message = r.message => t = r
    BY EntriesAre DEF RowsRight
  <2>2. ASSUME k <= c PROVE r \notin KnownRows
    <3>1. k \in 1 .. c
      BY <1>3, <2>2
    <3>2. PICK t \in PublicRows \ KnownRows : History[k] = EarlyEntry(t)
      BY <3>1, EntriesAre DEF PageLists
    <3>3. t.message = r.message
      <4>1. EarlyEntry(t).message = t.message
        BY DEF EarlyEntry
      <4> QED BY <1>2, <3>2, <4>1, EntryFields
    <3> QED BY <2>1, <3>2, <3>3
  <2>3. ASSUME k > c PROVE r \in KnownRows
    <3>1. k \in (c + 1) .. (c + d)
      BY <1>3, <2>3
    <3>2. History[k] \in Placed
      BY <3>1 DEF PageLists
    <3>3. \A s : History[k] # StepEntry(s)
      BY <1>2, <1>4, EntryFields
    <3>4. PICK t \in KnownRows : History[k] = PlacedEntry(t)
      BY <3>2, <3>3, EntriesAre
    <3>5. t.message = r.message
      <4>1. PlacedEntry(t).message = t.message
        BY DEF PlacedEntry
      <4> QED BY <1>2, <3>4, <4>1, EntryFields
    <3> QED BY <2>1, <3>4, <3>5, EntriesAre
  <2> QED BY <1>3, <2>2, <2>3
<1>7. \A j \in DOMAIN History : History[j].message = r.message <=> j = k
  BY <1>2, <1>5, EntryFields
<1> QED BY <1>2, <1>3, <1>6, <1>7

Shows(n) == {k \in DOMAIN History : History[k].message = n}
Folds(n) == {k \in DOMAIN History : History[k].seed = n}

\* Nothing is counted as nothing, one thing as one.
LEMMA Counted ==
  Cardinality({}) = 0 /\ \A k : Cardinality({k}) = 1
  BY FS_EmptySet, FS_Singleton

\* Each visible message is where it belongs, once.
LEMMA MessagesShown ==
  ASSUME StoryTrue, RowsRight, NEW c, NEW d, PageLists(c, d), NEW n \in VisibleIds
  PROVE  Cardinality(Shows(n)) + Cardinality(Folds(n)) =
           IF IsPrivate(timeline[n].step) \/ GoesWithConsultation(n) THEN 0 ELSE 1
<1>0. n # 0 /\ n \in Nat /\ ConversationsTyped /\ n \in DOMAIN timeline
  BY VisibleNumbers DEF StoryTrue
<1>1. ASSUME NEW k \in DOMAIN History, History[k].message = n \/ History[k].seed = n
      PROVE  \E r \in PublicRows : History[k] = EntryOf(r)
  <2>1. \A s : History[k] # StepEntry(s)
    BY <1>0, <1>1, EntryFields
  <2> QED BY <2>1, PlaceShows
<1>2. (\A r \in PublicRows : r.message # n) => Shows(n) = {}
  BY <1>1, EntryFields DEF Shows
<1>3. (\A r \in PublicRows : r.seed # n) => Folds(n) = {}
  BY <1>1, EntryFields DEF Folds
<1>4. ASSUME NEW r \in PublicRows, r.message = n PROVE Cardinality(Shows(n)) = 1
  <2>1. PICK k \in DOMAIN History : \A j \in DOMAIN History : History[j].message = r.message <=> j = k
    BY <1>0, RowShown
  <2>2. Shows(n) = {k}
    BY <1>4, <2>1 DEF Shows
  <2> QED BY <2>2, Counted
<1>5. ASSUME NEW r \in PublicRows, r.seed = n PROVE Cardinality(Folds(n)) = 1
  <2>1. PICK k \in DOMAIN History : /\ History[k] = EntryOf(r)
                                    /\ \A j \in DOMAIN History : History[j].message = r.message <=> j = k
    BY <1>0, RowShown
  <2>2. ASSUME NEW j \in DOMAIN History, History[j].seed = n PROVE j = k
    <3>1. PICK t \in PublicRows : History[j] = EntryOf(t)
      BY <1>1, <2>2
    <3>2. t.seed = n
      BY <2>2, <3>1, EntryFields
    <3>3. t \in AllRows /\ r \in AllRows
      BY EntriesAre
    <3>4. /\ n < t.message /\ n < r.message /\ NoneBetween(n, t.message) /\ NoneBetween(n, r.message)
          /\ t.message \in VisibleIds /\ r.message \in VisibleIds
      BY <1>0, <1>5, <3>2, <3>3 DEF RowsRight
    <3>5. ~(t.message < r.message) /\ ~(r.message < t.message)
      BY <3>4 DEF NoneBetween
    <3>6. t.message \in Nat /\ r.message \in Nat
      BY <1>0, <3>4, VisibleNumbers
    <3>7. t.message = r.message
      BY <3>5, <3>6
    <3> QED BY <2>1, <3>1, <3>7, EntryFields
  <2>3. Folds(n) = {k}
    BY <1>5, <2>1, <2>2, EntryFields DEF Folds
  <2> QED BY <2>3, Counted
<1>6. ASSUME NEW r \in AllRows, r.seed = n
      PROVE  /\ timeline[n].seed /\ ~IsPrivate(timeline[n].step) /\ \A q \in AllRows : q.message # n
             /\ GoesWithConsultation(n) <=> IsPrivate(timeline[r.message].step)
  <2>1. /\ timeline[n].seed /\ n < r.message /\ NoneBetween(n, r.message) /\ r.message \in VisibleIds
        /\ \A q \in AllRows : q.message # n
    BY <1>0, <1>6 DEF RowsRight
  <2>2. timeline[n].step = 0
    BY <1>0, <2>1 DEF StoryTrue, StepsStored
  <2> DEFINE later == {v \in VisibleIds : v > n}
  <2>3. later # {} /\ later \in SUBSET Nat /\ IsFiniteSet(later) /\ r.message \in later /\ r.message \in Nat
    <3>1. r.message \in later
      BY <1>0, <2>1, VisibleNumbers
    <3>2. later \subseteq VisibleIds /\ VisibleIds \in SUBSET Nat /\ IsFiniteSet(VisibleIds)
      BY <1>0, VisibleNumbers
    <3>3. IsFiniteSet(later)
      BY Zenon, <3>2, FS_Subset
    <3> QED BY <3>1, <3>2, <3>3
  <2>4. Min(later) \in later /\ \A v \in later : Min(later) <= v
    BY Zenon, <2>3, AscendingEnds
  <2>5. Min(later) = r.message
    <3>1. Min(later) \in VisibleIds /\ n < Min(later) /\ Min(later) \in Nat /\ Min(later) <= r.message
      BY <1>0, <2>3, <2>4
    <3>2. ~(Min(later) < r.message)
      BY <2>1, <3>1 DEF NoneBetween
    <3> QED BY <2>3, <3>1, <3>2
  <2>6. GoesWithConsultation(n) <=> IsPrivate(timeline[r.message].step)
    <3>1. GoesWithConsultation(n) <=> (timeline[n].seed /\ later # {} /\ IsPrivate(timeline[Min(later)].step))
      BY Zenon DEF GoesWithConsultation
    <3> HIDE DEF later
    <3> QED BY Zenon, <2>1, <2>3, <2>5, <3>1
  <2>7. ~IsPrivate(timeline[n].step)
    BY <2>2 DEF IsPrivate
  <2> QED BY <2>1, <2>6, <2>7
<1>7. ASSUME NEW r \in AllRows, r.message = n PROVE ~GoesWithConsultation(n) /\ \A q \in AllRows : q.seed # n
  <2>1. \A q \in AllRows : q.seed # n
    BY <1>6, <1>7
  <2> DEFINE later == {v \in VisibleIds : v > n}
  <2>2. ASSUME timeline[n].seed, later # {}, IsPrivate(timeline[Min(later)].step) PROVE FALSE
    <3>1. later \subseteq VisibleIds /\ VisibleIds \in SUBSET Nat /\ IsFiniteSet(VisibleIds) /\ VisibleIds \subseteq DOMAIN timeline
      BY <1>0, VisibleNumbers
    <3>2. later \in SUBSET Nat /\ IsFiniteSet(later)
      BY Zenon, <3>1, FS_Subset
    <3>3. Min(later) \in later /\ \A v \in later : Min(later) <= v
      BY Zenon, <2>2, <3>2, AscendingEnds
    <3>4. Min(later) \in VisibleIds /\ n < Min(later) /\ NoneBetween(n, Min(later))
      <4>1. Min(later) \in VisibleIds /\ n < Min(later) /\ Min(later) \in Nat
        BY <1>0, <3>1, <3>3
      <4>2. ASSUME NEW u \in VisibleIds, n < u, u < Min(later) PROVE FALSE
        <5>1. u \in later /\ u \in Nat
          BY <3>1, <1>0, <4>2
        <5> QED BY <3>3, <4>1, <4>2, <5>1
      <4> QED BY <4>1, <4>2 DEF NoneBetween
    <3>5. timeline[Min(later)].role # "user" /\ timeline[Min(later)] \in [role : {"user", "assistant"}, seed : BOOLEAN, step : Nat]
      <4>1. Min(later) \in DOMAIN timeline
        BY <3>1, <3>4
      <4>2. timeline[Min(later)].step # 0
        BY <2>2 DEF IsPrivate
      <4> HIDE DEF later
      <4>3. timeline[Min(later)] \in [role : {"user", "assistant"}, seed : BOOLEAN, step : Nat]
        <5>1. \A v \in DOMAIN timeline : timeline[v] \in [role : {"user", "assistant"}, seed : BOOLEAN, step : Nat]
          <6>1. timeline \in Seq([role : {"user", "assistant"}, seed : BOOLEAN, step : Nat])
            BY <1>0 DEF ConversationsTyped
          <6> QED BY Zenon, <6>1, MembersOf
        <5> QED BY <4>1, <5>1
      <4>4. timeline[Min(later)].role = "user" => timeline[Min(later)].step = 0
        BY <4>1 DEF StoryTrue, StepsStored
      <4> QED BY <4>2, <4>3, <4>4
    <3>6. timeline[Min(later)].role = "assistant"
      BY <3>5
    <3> QED BY <1>7, <2>2, <3>4, <3>6 DEF RowsRight
  <2>3. GoesWithConsultation(n) <=> (timeline[n].seed /\ later # {} /\ IsPrivate(timeline[Min(later)].step))
    BY Zenon DEF GoesWithConsultation
  <2> HIDE DEF later
  <2> QED BY Zenon, <2>1, <2>2, <2>3
<1>8. CASE \E r \in AllRows : r.message = n
  <2>1. PICK r \in AllRows : r.message = n
    BY <1>8
  <2>2. ~GoesWithConsultation(n) /\ Folds(n) = {}
    BY <1>3, <1>7, <2>1, EntriesAre
  <2>3. CASE IsPrivate(timeline[n].step)
    <3>1. Shows(n) = {}
      BY <1>2, <2>3 DEF PublicRows
    <3> QED BY <2>2, <2>3, <3>1, Counted
  <2>4. CASE ~IsPrivate(timeline[n].step)
    <3>1. r \in PublicRows
      BY <2>1, <2>4 DEF PublicRows
    <3> QED BY <1>4, <2>1, <2>2, <2>4, <3>1, Counted
  <2> QED BY <2>3, <2>4
<1>9. CASE \E r \in AllRows : r.seed = n
  <2>1. PICK r \in AllRows : r.seed = n
    BY <1>9
  <2>2. Shows(n) = {} /\ ~IsPrivate(timeline[n].step)
    BY <1>2, <1>6, <2>1, EntriesAre
  <2>3. CASE GoesWithConsultation(n)
    <3>1. \A q \in PublicRows : q.seed # n
      BY <1>6, <2>3 DEF PublicRows
    <3>2. Folds(n) = {}
      BY <1>3, <3>1
    <3> QED BY <2>2, <2>3, <3>2, Counted
  <2>4. CASE ~GoesWithConsultation(n)
    <3>1. r \in PublicRows
      BY <1>6, <2>1, <2>4 DEF PublicRows
    <3> QED BY <1>5, <2>1, <2>2, <2>4, <3>1, Counted
  <2> QED BY <2>3, <2>4
<1> QED BY <1>8, <1>9 DEF RowsRight

\* Nothing of what was edited away is shown.
LEMMA HiddenNotShown ==
  ASSUME StoryTrue, RowsRight, NEW c, NEW d, PageLists(c, d), NEW n \in DOMAIN timeline, n \notin VisibleIds
  PROVE  Shows(n) = {} /\ Folds(n) = {}
<1>1. n # 0 /\ ConversationsTyped
  BY DEF StoryTrue, ConversationsTyped
<1>2. ASSUME NEW k \in DOMAIN History PROVE History[k].message # n /\ History[k].seed # n
  <2>1. ASSUME NEW r \in PublicRows PROVE r.message # n /\ r.seed # n
    BY <1>1, EntriesAre DEF RowsRight
  <2> QED BY <1>1, <2>1, PlaceShows, EntryFields
<1> QED BY <1>2 DEF Shows, Folds

\* A public contribution that is not told has a place of its own.
LEMMA StepsShown ==
  ASSUME StoryTrue, RowsRight, NEW c, NEW d, PageLists(c, d), NEW s \in DOMAIN contributions
  PROVE  Cardinality({k \in DOMAIN History : History[k].step = s}) =
           IF IsPrivate(s) \/ contributions[s].status = "succeeded" THEN 0 ELSE 1
<1> DEFINE K == {k \in DOMAIN History : History[k].step = s}
<1>1. s # 0 /\ ConversationsTyped
  BY DEF StoryTrue, ConversationsTyped
<1>2. s \in Begun <=> ~IsPrivate(s)
  <2>1. ASSUME s \in Begun PROVE ~IsPrivate(s)
    <3>1. PICK k \in PublicEvents : log[k].kind = "speaker_started" /\ log[k].step = s
      BY <2>1 DEF Begun
    <3> QED BY <3>1 DEF PublicEvents
  <2>2. ASSUME ~IsPrivate(s) PROVE s \in Begun
    <3>1. StartedAt(s) \in DOMAIN log /\ log[StartedAt(s)].kind = "speaker_started" /\ log[StartedAt(s)].step = s
      BY StartPlaced DEF Begins
    <3>2. StartedAt(s) \in PublicEvents
      BY <2>2, <3>1 DEF PublicEvents
    <3> QED BY <3>1, <3>2 DEF Begun
  <2> QED BY <2>1, <2>2
<1>3. s \in Told <=> contributions[s].status = "succeeded"
  <2>1. ASSUME s \in Told PROVE contributions[s].status = "succeeded"
    <3>1. PICK k \in DOMAIN log : log[k].kind \in AnswerKinds /\ log[k].step = s
      BY <2>1 DEF Told, AnswerKinds
    <3>2. contributions[s].message # 0
      BY <1>1, <3>1 DEF StoryTrue, EventsTrue
    <3> QED BY <3>2 DEF StoryTrue, StepsStored
  <2>2. ASSUME contributions[s].status = "succeeded" PROVE s \in Told
    BY <2>2 DEF StoryTrue, EventsThere, Told, AnswerKinds
  <2> QED BY <2>1, <2>2
<1>4. ASSUME NEW k \in K PROVE s \in Begun \ Told /\ History[k] = StepEntry(s)
  <2>1. \A r : History[k] # EntryOf(r)
    BY <1>1, EntryFields
  <2> QED BY <2>1, PlaceShows, EntryFields
<1>5. CASE s \notin Begun \ Told
  <2>1. K = {}
    BY <1>4, <1>5
  <2> QED BY <1>2, <1>3, <1>5, <2>1, Counted
<1>6. CASE s \in Begun \ Told
  <2>1. StepEntry(s) \in Placed
    BY <1>6, EntriesAre
  <2>2. PICK k \in 1 .. (c + d) : History[k] = StepEntry(s)
    BY <2>1 DEF PageLists
  <2>3. k \in DOMAIN History
    BY DEF PageLists
  <2>4. \A j \in K : j = k
    BY <1>4, <2>2 DEF PageLists
  <2>5. K = {k}
    BY <2>2, <2>3, <2>4, EntryFields
  <2> QED BY <1>2, <1>3, <1>6, <2>5, Counted
<1> QED BY <1>5, <1>6

\* The last run about a message places it.
LEMMA QuestionPlaced ==
  ASSUME StoryTrue, RowsRight, NEW i \in DOMAIN rounds,
         \A j \in DOMAIN rounds : rounds[j].message = rounds[i].message => j <= i
  PROVE  \E u \in DOMAIN log : Opens(u, i) /\ Telling(rounds[i].message) = u /\ Place(u) = u
<1> DEFINE n == rounds[i].message
           t == Telling(n)
<1>1. PICK u \in DOMAIN log : Opens(u, i)
  BY DEF StoryTrue, EventsThere
<1>2. i # 0 /\ i \in Nat /\ u \in Nat /\ ConversationsTyped /\ n \in DOMAIN timeline /\ n # 0 /\ timeline[n].role = "user"
  <2>1. ConversationsTyped
    BY DEF StoryTrue
  <2>2. i # 0 /\ i \in Nat
    BY <2>1 DEF ConversationsTyped
  <2>3. n \in DOMAIN timeline /\ timeline[n].role = "user"
    BY DEF StoryTrue, RunsNamed
  <2>4. n # 0
    BY <2>1, <2>3 DEF ConversationsTyped
  <2> QED BY <2>1, <2>2, <2>3, <2>4, EventNumbers
<1>3. log[u].kind = "user_message" /\ log[u].run = i /\ log[u].step = 0 /\ log[u].message = n
  BY <1>1, <1>2 DEF Opens, StoryTrue, EventsTrue
<1>4. u \in PublicEvents
  BY <1>3 DEF PublicEvents, IsPrivate
<1>5. t \in PublicEvents /\ log[t].message = n /\ u <= t
  BY <1>2, <1>3, <1>4, TellingPlaced
<1>6. t \in DOMAIN log /\ t \in Nat
  BY <1>2, <1>5, EventNumbers
<1> HIDE DEF t
<1>7. log[t].step = 0
  <2> SUFFICES ASSUME log[t].step # 0 PROVE FALSE
    OBVIOUS
  <2>1. timeline[n].step = log[t].step
    BY <1>2, <1>5, <1>6, PlaceOf
  <2> QED BY <1>2, <2>1 DEF StoryTrue, StepsStored
<1>8. t = u
  <2> SUFFICES ASSUME u < t PROVE FALSE
    BY <1>2, <1>5, <1>6
  <2>1. log[t].run # 0
    BY <1>1, <1>2, <1>3, <1>6 DEF StoryTrue, EventsOrdered
  <2>2. log[t].kind = "user_message"
    <3>1. log[t].kind \in {"user_message"} \cup EndKinds
      BY <1>6, <1>7, <2>1 DEF StoryTrue, EventsTrue
    <3>2. log[t].message # 0
      BY <1>2, <1>5
    <3>3. log[t].kind \notin EndKinds
      BY <1>6, <3>1, <3>2 DEF StoryTrue, EventsTrue, EndKinds, AnswerKinds
    <3> QED BY <3>1, <3>3
  <2>3. log[t].run \in DOMAIN rounds /\ rounds[log[t].run].message = n
    BY <1>5, <1>6, <2>1, <2>2 DEF StoryTrue, EventsTrue
  <2>4. log[t].run <= i /\ i <= log[t].run
    BY <1>3, <1>6, <2>2, <2>3 DEF StoryTrue, EventsOrdered
  <2>5. log[t].run \in Nat
    BY <1>2, <1>6, EventNumbers DEF EventRecords
  <2>6. log[t].run = i
    BY <1>2, <2>4, <2>5
  <2> QED BY <1>2, <1>3, <1>6, <2>2, <2>6 DEF StoryTrue, EventsOrdered
<1>9. Place(u) = u
  BY <1>2, <1>3, PlaceOf
<1> QED BY <1>1, <1>8, <1>9 DEF t

\* An answer is told below its question.
LEMMA AnswerBelow ==
  ASSUME StoryTrue, RowsRight, NEW c, NEW d, PageLists(c, d), NEW s \in DOMAIN contributions,
         contributions[s].message # 0,
         \A j \in DOMAIN rounds : rounds[j].message = rounds[contributions[s].run].message => j <= contributions[s].run,
         NEW k \in Shows(contributions[s].message), NEW q \in Shows(rounds[contributions[s].run].message)
  PROVE  q < k
<1> DEFINE i == contributions[s].run
           question == rounds[i].message
           answer == contributions[s].message
<1>1. i \in DOMAIN rounds /\ answer \in DOMAIN timeline /\ timeline[answer].step = s /\ s # 0 /\ ConversationsTyped
  BY DEF StoryTrue, StepsStored, ConversationsTyped
<1>2. question # 0
  BY <1>1 DEF StoryTrue, RunsNamed, ConversationsTyped
<1>3. k \in DOMAIN History /\ History[k].message = answer /\ q \in DOMAIN History /\ History[q].message = question
  BY DEF Shows
<1> HIDE DEF answer, question
<1>4. PICK r \in PublicRows : r.message = answer
  <2>1. \A x : History[k] # StepEntry(x)
    BY <1>3, EntryFields DEF answer
  <2> QED BY <1>3, <2>1, PlaceShows, EntryFields
<1>5. PICK t \in PublicRows : t.message = question
  <2>1. \A x : History[q] # StepEntry(x)
    BY <1>2, <1>3, EntryFields
  <2> QED BY <1>3, <2>1, PlaceShows, EntryFields
<1>6. PICK e \in DOMAIN log : log[e].kind \in AnswerKinds /\ log[e].step = s
  <2>1. contributions[s].status = "succeeded"
    BY DEF StoryTrue, StepsStored
  <2> QED BY <2>1 DEF StoryTrue, EventsThere
<1>7. ~IsPrivate(s)
  BY <1>1, <1>4 DEF PublicRows
<1>8. e \in PublicEvents /\ log[e].message = answer
  BY <1>1, <1>6, <1>7 DEF PublicEvents, StoryTrue, EventsTrue, answer
<1>9. r \in KnownRows
  BY <1>4, <1>8 DEF KnownRows
<1>10. Place(Telling(answer)) = StartedAt(s)
  <2> DEFINE l == Telling(answer)
  <2>1. l \in DOMAIN log /\ log[l].message = answer
    BY <1>1, <1>8, TellingPlaced, EventNumbers
  <2>2. CASE log[l].step # 0
    BY <1>1, <2>1, <2>2, PlaceOf DEF answer
  <2>3. CASE log[l].step = 0
    <3>1. log[l].run # 0
      BY <1>1, <2>1 DEF StoryTrue, EventsTrue
    <3>2. log[l].kind = "user_message"
      BY <2>1, <2>3, <3>1 DEF StoryTrue, EventsTrue, EndKinds, AnswerKinds, answer
    <3>3. answer = rounds[log[l].run].message /\ log[l].run \in DOMAIN rounds
      BY <2>1, <3>1, <3>2 DEF StoryTrue, EventsTrue
    <3>4. timeline[answer].role = "user"
      BY <3>3 DEF StoryTrue, RunsNamed
    <3> QED BY <1>1, <3>4 DEF StoryTrue, StepsStored
  <2> QED BY <2>2, <2>3
<1>11. PICK x \in DOMAIN History : /\ History[x] = EntryOf(r) /\ x > c
                                   /\ \A j \in DOMAIN History : History[j].message = r.message <=> j = x
  BY <1>1, <1>9, RowShown
<1>12. k = x /\ k > c /\ History[k].at = StartedAt(s)
  BY <1>3, <1>4, <1>9, <1>10, <1>11, EntryFields
<1>13. PICK y \in DOMAIN History : /\ History[y] = EntryOf(t) /\ (t \in KnownRows <=> y > c)
                                   /\ \A j \in DOMAIN History : History[j].message = t.message <=> j = y
  BY <1>1, RowShown
<1>14. q = y
  BY <1>3, <1>5, <1>13
<1>15. c \in Nat /\ d \in Nat /\ DOMAIN History = 1 .. (c + d)
  BY DEF PageLists
<1>16. CASE t \notin KnownRows
  BY <1>3, <1>12, <1>13, <1>14, <1>15, <1>16
<1>17. CASE t \in KnownRows
  <2>1. PICK u \in DOMAIN log : Opens(u, i) /\ Telling(question) = u /\ Place(u) = u
    BY <1>1, QuestionPlaced DEF question
  <2>2. History[q].at = u
    BY <1>5, <1>13, <1>14, <1>17, <2>1, EntryFields
  <2> DEFINE b == StartedAt(s)
  <2>3. b \in DOMAIN log /\ log[b].kind = "speaker_started" /\ log[b].step = s /\ log[b].run = i
    BY <1>1, StartPlaced DEF Begins, StoryTrue, EventsTrue
  <2>4. u \in Nat /\ b \in Nat
    BY <1>1, <2>3, EventNumbers
  <2>5. log[u].kind = "user_message" /\ log[u].run = i /\ i # 0
    BY <1>1, <2>1 DEF Opens, ConversationsTyped
  <2> HIDE DEF b
  <2>6. ~(b < u) /\ b # u
    BY <2>1, <2>3, <2>5 DEF StoryTrue, EventsOrdered
  <2>7. u < b /\ History[k].at = b
    BY <1>12, <2>4, <2>6 DEF b
  <2>8. k \in (c + 1) .. (c + d) /\ q \in (c + 1) .. (c + d)
    BY <1>3, <1>12, <1>13, <1>14, <1>15, <1>17
  <2>9. ~(k < q)
    <3> SUFFICES ASSUME k < q PROVE FALSE
      OBVIOUS
    <3>1. b < u
      BY <2>2, <2>7, <2>8 DEF PageLists
    <3> QED BY <2>6, <3>1
  <2>10. k # q
    BY <2>2, <2>4, <2>7
  <2> QED BY <1>15, <2>8, <2>9, <2>10
<1> QED BY <1>16, <1>17

\* What is stored and told makes the page that the owner should see.
LEMMA PageShown == ASSUME StoryTrue PROVE PageShows
<1>1. RowsRight
  BY RowsAreRight DEF StoryTrue
<1>2. PICK c \in Nat, d \in Nat : PageLists(c, d)
  BY <1>1, PageListed
<1> DEFINE page == History
           shown(n) == {k \in DOMAIN page : page[k].message = n}
           folded(n) == {k \in DOMAIN page : page[k].seed = n}
<1>3. \A n : shown(n) = Shows(n) /\ folded(n) = Folds(n)
  BY DEF Shows, Folds
<1>4. \A n \in VisibleIds : Cardinality(shown(n)) + Cardinality(folded(n)) =
                              IF IsPrivate(timeline[n].step) \/ GoesWithConsultation(n) THEN 0 ELSE 1
  BY Zenon, <1>1, <1>2, <1>3, MessagesShown
<1>5. \A n \in DOMAIN timeline : n \notin VisibleIds => shown(n) = {} /\ folded(n) = {}
  BY Zenon, <1>1, <1>2, <1>3, HiddenNotShown
<1>6. \A s \in DOMAIN contributions :
          Cardinality({k \in DOMAIN page : page[k].step = s}) =
            IF IsPrivate(s) \/ contributions[s].status = "succeeded" THEN 0 ELSE 1
  BY Zenon, <1>1, <1>2, StepsShown
<1>7. ASSUME NEW s \in DOMAIN contributions
      PROVE  LET question == rounds[contributions[s].run].message
                 last == \A i \in DOMAIN rounds : rounds[i].message = question => i <= contributions[s].run
             IN \A k \in shown(contributions[s].message), q \in shown(question) :
                  contributions[s].message # 0 /\ last => q < k
  BY Zenon, <1>1, <1>2, <1>3, AnswerBelow
<1> HIDE DEF page, shown, folded
<1> QED BY Zenon, <1>4, <1>5, <1>6, <1>7 DEF PageShows, page, shown, folded

-----------------------------------------------------------------------------
(* What the steps of a conversation leave alone. *)

\* What the clients' own steps leave alone.
StoryHolds ==
  /\ RoomFirst /\ SlotHeld /\ RunsNamed /\ StepsStored /\ EventsTrue /\ EventsOrdered /\ EventsThere /\ AnswersVisible

StoryVars == <<timeline, hidden, turns, room, rounds, log, contributions>>

\* What no step touched is as sound as before.
LEMMA StorySame == ASSUME StoryHolds, UNCHANGED StoryVars PROVE StoryHolds'
<1>1. /\ timeline' = timeline /\ hidden' = hidden /\ turns' = turns /\ room' = room /\ rounds' = rounds
      /\ log' = log /\ contributions' = contributions
  BY DEF StoryVars
<1>2. RoomFirst' /\ SlotHeld'
  BY <1>1 DEF StoryHolds, RoomFirst, SlotHeld
<1>3. RunsNamed' /\ StepsStored'
  BY <1>1 DEF StoryHolds, RunsNamed, StepsStored
<1>4. EventsTrue' /\ EventsOrdered' /\ EventsThere'
  BY <1>1 DEF StoryHolds, EventsTrue, EventsOrdered, EventsThere, Opens, Begins
<1>5. AnswersVisible'
  BY <1>1 DEF StoryHolds, AnswersVisible, VisibleIds
<1> QED BY <1>2, <1>3, <1>4, <1>5 DEF StoryHolds

\* Where a contribution is private is settled with it.
LEMMA PrivateStays ==
  ASSUME NEW s, s \in DOMAIN contributions => s \in DOMAIN contributions' /\ contributions'[s].private = contributions[s].private,
         s # 0 => s \in DOMAIN contributions
  PROVE  IsPrivate(s)' <=> IsPrivate(s)
  BY DEF IsPrivate

\* The stored history, the log and the runs only grow.
Grows ==
  /\ \A n \in DOMAIN timeline : n \in DOMAIN timeline' /\ timeline'[n] = timeline[n]
  /\ \A k \in DOMAIN log : k \in DOMAIN log' /\ log'[k] = log[k]
  /\ \A i \in DOMAIN rounds :
       /\ i \in DOMAIN rounds' /\ rounds'[i].id = rounds[i].id /\ rounds'[i].body = rounds[i].body
       /\ rounds'[i].message = rounds[i].message /\ rounds'[i].replayed = rounds[i].replayed
       /\ rounds'[i].straight = rounds[i].straight
       /\ rounds[i].status \in Over => rounds'[i].status \in Over
  /\ \A s \in DOMAIN contributions :
       /\ s \in DOMAIN contributions' /\ contributions'[s].run = contributions[s].run
       /\ contributions'[s].private = contributions[s].private
       /\ contributions[s].message # 0 => contributions'[s].message = contributions[s].message

\* What stays the same has only grown.
LEMMA Growing == ASSUME UNCHANGED <<timeline, log, rounds, contributions>> PROVE Grows
  BY DEF Grows

\* A stream that waits stays right.
LEMMA StreamStays ==
  ASSUME ConversationsTyped, ConversationsTyped', EventsTrue, StreamKnows, StreamTold, Grows, UNCHANGED watch
  PROVE  StreamKnows' /\ StreamTold'
<1> SUFFICES ASSUME watch.pc # "idle" PROVE StreamKnows' /\ StreamTold'
  BY DEF StreamKnows, StreamTold
<1> DEFINE c == watch.cursor
<1>1. watch.run \in DOMAIN rounds /\ c \in 0 .. Len(log)
  BY DEF StreamKnows
<1>2. Len(log) \in Nat /\ DOMAIN log = 1 .. Len(log) /\ Len(log') \in Nat /\ DOMAIN log' = 1 .. Len(log')
  BY DEF ConversationsTyped
<1>3. c \in 0 .. Len(log')
  <2>1. CASE Len(log) = 0
    BY <1>1, <1>2, <2>1
  <2>2. CASE Len(log) # 0
    <3>1. Len(log) \in DOMAIN log
      BY <1>2, <2>2
    <3>2. Len(log) \in DOMAIN log'
      BY <3>1 DEF Grows
    <3> QED BY <1>1, <1>2, <3>2
  <2> QED BY <2>1, <2>2
<1>4. \A k \in 1 .. c : k \in DOMAIN log /\ log'[k] = log[k]
  <2>1. \A k \in 1 .. c : k \in DOMAIN log
    BY <1>1, <1>2
  <2> QED BY <2>1 DEF Grows
<1>5. \A k \in 1 .. c : IsPrivate(log[k].step)' <=> IsPrivate(log[k].step)
  <2> TAKE k \in 1 .. c
  <2>1. log[k].step # 0 => log[k].step \in DOMAIN contributions
    BY <1>4 DEF EventsTrue
  <2>2. log'[k] = log[k]
    BY <1>4
  <2>3. log[k].step # 0 => contributions'[log[k].step].private = contributions[log[k].step].private
    BY <2>1 DEF Grows
  <2> QED BY <2>1, <2>2, <2>3 DEF IsPrivate
<1>6. watch' = watch /\ watch'.cursor = c
  OBVIOUS
<1>7. StreamKnows'
  <2>1. {log[k].step : k \in {n \in 1 .. c : log[n].kind = "speaker_started" /\ IsPrivate(log[n].step)}}' =
        {log[k].step : k \in {n \in 1 .. c : log[n].kind = "speaker_started" /\ IsPrivate(log[n].step)}}
    BY <1>4, <1>5, <1>6
  <2>2. watch.run \in DOMAIN rounds'
    BY <1>1 DEF Grows
  <2> QED BY <1>3, <1>6, <2>1, <2>2 DEF StreamKnows
<1>8. StreamTold'
  <2> DEFINE mine == {k \in 1 .. c : log[k].run = watch.run /\ ~IsPrivate(log[k].step)}
  <2>1. mine' = mine
    BY <1>4, <1>5, <1>6
  <2>2. watch.sent = Ascending(mine)
    BY DEF StreamTold
  <2>3. watch.pc = "done" => rounds'[watch.run].status \in Over
    BY <1>1 DEF StreamTold, Grows
  <2>4. watch'.sent = Ascending(mine')
    BY <1>6, <2>1, <2>2
  <2> HIDE DEF c
  <2> QED BY <1>6, <2>3, <2>4 DEF StreamTold, c, Over
<1> QED BY <1>7, <1>8

-----------------------------------------------------------------------------
(* The steps of the clients. *)

Requests == [pc : {"idle", "mapping", "attaching", "admitting"}, answer : {"none", "told", "refused"}, id : TurnIds, body : Bodies]

\* The invariant, in the parts the steps keep.
LEMMA InvIs ==
  ConversationsInv <=> /\ ConversationsTyped /\ StoryHolds /\ RequestsNamed /\ StreamKnows /\ AttachedOnce /\ AttachedFew /\ StreamTold
  BY Zenon DEF ConversationsInv, StoryHolds

\* One request changes; the others, and what they rest on, do not.
LEMMA RequestMoves ==
  ASSUME ConversationsTyped, NEW c \in Clients, NEW nextpc \in {"idle", "mapping", "attaching", "admitting"},
         NEW answer \in {"none", "told", "refused"}, asking[c].pc # "idle", RequestsNamed,
         asking' = [asking EXCEPT ![c].pc = nextpc, ![c].answer = answer] \/ (asking' = [asking EXCEPT ![c].pc = nextpc] /\ answer = asking[c].answer)
  PROVE  /\ asking[c] \in Requests
         /\ asking' \in [Clients -> RequestRecords]
         /\ asking'[c] \in Requests /\ asking'[c].pc = nextpc /\ asking'[c].answer = answer
         /\ asking'[c].id = asking[c].id /\ asking'[c].body = asking[c].body
         /\ \A x \in Clients : x # c => asking'[x] = asking[x]
<1>1. asking \in [Clients -> RequestRecords] /\ asking[c] # Calm
  BY DEF ConversationsTyped, RequestsNamed
<1>2. asking[c] \in Requests
  BY <1>1 DEF RequestRecords, Requests
<1>3. DOMAIN asking = Clients /\ asking' \in [Clients -> {asking'[x] : x \in Clients}]
  BY <1>1
<1>4. \A x \in Clients : x # c => asking'[x] = asking[x]
  BY <1>1
<1>5. asking'[c] = [asking[c] EXCEPT !.pc = nextpc, !.answer = answer]
  <2>1. CASE asking' = [asking EXCEPT ![c].pc = nextpc, ![c].answer = answer]
    BY <1>1, <1>2, <2>1 DEF Requests
  <2>2. CASE asking' = [asking EXCEPT ![c].pc = nextpc] /\ answer = asking[c].answer
    BY <1>1, <1>2, <2>2 DEF Requests
  <2> QED BY <2>1, <2>2
<1>6. /\ asking'[c] \in Requests /\ asking'[c].pc = nextpc /\ asking'[c].answer = answer
      /\ asking'[c].id = asking[c].id /\ asking'[c].body = asking[c].body
  BY <1>2, <1>5 DEF Requests
<1>7. \A x \in Clients : asking'[x] \in RequestRecords
  BY <1>1, <1>4, <1>6 DEF RequestRecords, Requests
<1>8. asking' \in [Clients -> RequestRecords]
  BY <1>3, <1>7
<1> QED BY <1>2, <1>4, <1>6, <1>8

\* The conditions on a request, apart.
RequestNamed(c) ==
  /\ asking[c].pc # "idle" => asking[c] # Calm
  /\ asking[c].pc \in {"attaching", "admitting"} =>
       turns[asking[c].id].made /\ turns[asking[c].id].body = asking[c].body
  /\ asking[c].answer = "told" =>
       turns[asking[c].id].made /\ turns[asking[c].id].body = asking[c].body /\ RunsOf(asking[c].id) # {}
ReplaysNamed ==
  \A t \in TurnIds : turns[t].replay # 0 => turns[t].replay \in DOMAIN timeline /\ timeline[turns[t].replay].role = "user"

\* What is asked of requests is asked of each.
LEMMA NamedApart == RequestsNamed <=> (\A c \in Clients : RequestNamed(c)) /\ ReplaysNamed
  BY DEF RequestsNamed, RequestNamed, ReplaysNamed

\* What each request keeps, they keep together.
LEMMA NamedJoined == (\A c \in Clients : RequestNamed(c)') /\ ReplaysNamed' => RequestsNamed'
  BY DEF RequestsNamed, RequestNamed, ReplaysNamed

\* A request that does not move stays named while turns and runs only gain.
LEMMA NamedStays ==
  ASSUME NEW c \in Clients, RequestNamed(c), asking'[c] = asking[c], ConversationsTyped, Grows,
         \A t \in TurnIds : turns[t].made => turns'[t].made /\ turns'[t].body = turns[t].body
  PROVE  RequestNamed(c)'
<1>1. asking[c] = Calm \/ asking[c].id \in TurnIds
  BY DEF ConversationsTyped, RequestRecords
<1>2. \A t : RunsOf(t) # {} => RunsOf(t)' # {}
  BY DEF RunsOf, Grows
<1>3. CASE asking[c] = Calm
  BY <1>3 DEF RequestNamed, Calm
<1>4. CASE asking[c].id \in TurnIds
  BY <1>2, <1>4 DEF RequestNamed
<1> QED BY <1>1, <1>3, <1>4

\* A request that is sent or sent again.
LEMMA ClientAsksKeeps ==
  ASSUME ConversationsInv, NEW c \in Clients, NEW t \in TurnIds, NEW body \in Bodies, ClientAsks(c, t, body)
  PROVE  ConversationsInv'
<1>0. /\ ConversationsTyped /\ StoryHolds /\ RequestsNamed /\ StreamKnows /\ AttachedOnce /\ AttachedFew /\ StreamTold
  BY InvIs
<1>1. /\ timeline' = timeline /\ hidden' = hidden /\ turns' = turns /\ room' = room /\ rounds' = rounds /\ log' = log
      /\ contributions' = contributions /\ files' = files /\ watch' = watch
  BY DEF ClientAsks
<1>2. PICK nextpc, answer : /\ asking' = [asking EXCEPT ![c] = [pc |-> nextpc, answer |-> answer, id |-> t, body |-> body]]
                        /\ \/ nextpc = "idle" /\ answer = "refused"
                           \/ nextpc = "idle" /\ answer = "told" /\ turns[t].made /\ turns[t].body = body /\ RunsOf(t) # {}
                           \/ nextpc = "mapping" /\ answer = "none"
  BY DEF ClientAsks
<1>3. asking' \in [Clients -> RequestRecords] /\ asking'[c] = [pc |-> nextpc, answer |-> answer, id |-> t, body |-> body]
      /\ \A x \in Clients : x # c => asking'[x] = asking[x]
  <2>1. asking \in [Clients -> RequestRecords]
    BY <1>0 DEF ConversationsTyped
  <2>2. [pc |-> nextpc, answer |-> answer, id |-> t, body |-> body] \in RequestRecords
    BY <1>2 DEF RequestRecords
  <2> QED BY <1>2, <2>1, <2>2
<1>4. ConversationsTyped'
  BY <1>0, <1>1, <1>3 DEF ConversationsTyped
<1>5. Grows /\ StoryHolds'
  BY <1>0, <1>1, StorySame, Growing DEF StoryVars
<1>6. RequestsNamed'
  <2>1. ASSUME NEW x \in Clients, x # c PROVE RequestNamed(x)'
    BY <1>0, <1>1, <1>3, <1>5, <2>1, NamedStays, NamedApart
  <2>2. RequestNamed(c)'
    BY <1>1, <1>2, <1>3 DEF RequestNamed, RunsOf, Calm
  <2>3. ReplaysNamed'
    BY <1>0, <1>1, NamedApart DEF ReplaysNamed
  <2> QED BY <2>1, <2>2, <2>3, NamedJoined
<1>7. StreamKnows' /\ StreamTold'
  BY <1>0, <1>1, <1>4, <1>5, StreamStays DEF StoryHolds
<1>8. AttachedOnce' /\ AttachedFew'
  BY <1>0, <1>1 DEF AttachedOnce, AttachedFew, Stored
<1>9. ConversationsInv' <=> /\ ConversationsTyped' /\ StoryHolds' /\ RequestsNamed' /\ StreamKnows' /\ AttachedOnce' /\ AttachedFew' /\ StreamTold'
  BY InvIs, PTL
<1> QED BY <1>4, <1>5, <1>6, <1>7, <1>8, <1>9

\* Attachments: at most one of each turn, within the limit.
LEMMA ClientAttachesKeeps ==
  ASSUME ConversationsInv, NEW c \in Clients, ClientAttaches(c) PROVE ConversationsInv'
<1>0. /\ ConversationsTyped /\ StoryHolds /\ RequestsNamed /\ StreamKnows /\ AttachedOnce /\ AttachedFew /\ StreamTold
  BY InvIs
<1>1. /\ timeline' = timeline /\ hidden' = hidden /\ turns' = turns /\ room' = room /\ rounds' = rounds /\ log' = log
      /\ contributions' = contributions /\ watch' = watch
  BY DEF ClientAttaches
<1>2. asking[c].pc = "attaching"
  BY DEF ClientAttaches
<1> DEFINE t == asking[c].id
<1>3. \/ GoOn(c, "admitting") /\ files' = files
      \/ /\ AlreadyStored(t) = 0 /\ Stored(files) < MaxAttachments
         /\ files' = [files EXCEPT !.of[t] = @ + 1] /\ GoOn(c, "admitting")
      \/ Answer(c, "refused") /\ files' = files
  BY DEF ClientAttaches
<1>4. PICK nextpc \in {"idle", "mapping", "attaching", "admitting"}, answer \in {"none", "told", "refused"} :
        /\ asking' = [asking EXCEPT ![c].pc = nextpc, ![c].answer = answer] \/ (asking' = [asking EXCEPT ![c].pc = nextpc] /\ answer = asking[c].answer)
        /\ (nextpc = "admitting" /\ answer = asking[c].answer) \/ (nextpc = "idle" /\ answer = "refused")
  <2>1. asking[c].answer \in {"none", "told", "refused"}
    BY <1>0, <1>2 DEF ConversationsTyped, RequestRecords, Calm
  <2>2. CASE GoOn(c, "admitting")
    <3>1. asking' = [asking EXCEPT ![c].pc = "admitting"]
      BY <2>2 DEF GoOn
    <3>2. asking[c].answer \in {"none", "told", "refused"} /\ "admitting" \in {"idle", "mapping", "attaching", "admitting"}
      BY <2>1
    <3> WITNESS "admitting" \in {"idle", "mapping", "attaching", "admitting"}, asking[c].answer \in {"none", "told", "refused"}
    <3> QED BY <3>1
  <2>3. CASE Answer(c, "refused")
    <3>1. asking' = [asking EXCEPT ![c].pc = "idle", ![c].answer = "refused"]
      BY <2>3 DEF Answer
    <3> QED BY <3>1
  <2> QED BY <1>3, <2>2, <2>3
<1>5. /\ asking[c] \in Requests
      /\ asking' \in [Clients -> RequestRecords]
      /\ asking'[c] \in Requests /\ asking'[c].pc = nextpc /\ asking'[c].answer = answer
      /\ asking'[c].id = t /\ asking'[c].body = asking[c].body
      /\ \A x \in Clients : x # c => asking'[x] = asking[x]
  BY <1>0, <1>2, <1>4, RequestMoves
<1>6. t \in TurnIds /\ files \in [of : [TurnIds -> Nat], uploaded : Nat]
  BY <1>0, <1>5 DEF ConversationsTyped, Requests
<1> HIDE DEF t
<1>7. files' \in [of : [TurnIds -> Nat], uploaded : Nat] /\ AttachedOnce' /\ AttachedFew'
  <2>1. CASE files' = files
    BY <1>0, <1>6, <2>1 DEF AttachedOnce, AttachedFew, Stored
  <2>2. CASE files' # files
    <3>1. files.of[t] = 0 /\ Stored(files) < MaxAttachments /\ files' = [files EXCEPT !.of[t] = @ + 1]
      BY <1>3, <2>2 DEF AlreadyStored
    <3>2. /\ files' \in [of : [TurnIds -> Nat], uploaded : Nat] /\ files'.uploaded = files.uploaded
          /\ files'.of[t] = 1 /\ \A x \in TurnIds : x # t => files'.of[x] = files.of[x]
      BY <1>6, <3>1
    <3> DEFINE A == {x \in TurnIds : files.of[x] > 0}
               B == {x \in TurnIds : files'.of[x] > 0}
    <3>3. B = A \cup {t} /\ t \notin A
      BY <1>6, <3>1, <3>2
    <3>4. \A x \in TurnIds : files'.of[x] <= 1
      BY <1>0, <1>6, <3>2 DEF AttachedOnce
    <3>5. Stored(files)' = files'.uploaded + Cardinality(B) /\ Stored(files) = files.uploaded + Cardinality(A)
      BY DEF Stored
    <3>6. IsFiniteSet(A)
      BY <1>0 DEF AttachedFew
    <3> HIDE DEF A, B
    <3>7. Cardinality(B) = Cardinality(A) + 1 /\ Cardinality(A) \in Nat /\ IsFiniteSet(B)
      BY <3>3, <3>6, FS_AddElement, FS_CardinalityType
    <3>8. Stored(files)' <= MaxAttachments
      BY <1>6, <3>1, <3>2, <3>5, <3>7, ConversationsAssumption
    <3>9. AttachedFew'
      BY <3>7 DEF AttachedFew, B
    <3> QED BY <3>2, <3>4, <3>8, <3>9 DEF AttachedOnce
  <2> QED BY <2>1, <2>2
<1>8. ConversationsTyped'
  BY <1>0, <1>1, <1>5, <1>7 DEF ConversationsTyped
<1>9. Grows /\ StoryHolds'
  BY <1>0, <1>1, StorySame, Growing DEF StoryVars
<1>10. RequestsNamed'
  <2>1. ASSUME NEW x \in Clients, x # c PROVE RequestNamed(x)'
    BY <1>0, <1>1, <1>5, <1>9, <2>1, NamedStays, NamedApart
  <2>2. RequestNamed(c)'
    BY <1>0, <1>1, <1>2, <1>4, <1>5 DEF RequestsNamed, RequestNamed, RunsOf, Calm, Requests, t
  <2>3. ReplaysNamed'
    BY <1>0, <1>1, NamedApart DEF ReplaysNamed
  <2> QED BY <2>1, <2>2, <2>3, NamedJoined
<1>11. StreamKnows' /\ StreamTold'
  BY <1>0, <1>1, <1>8, <1>9, StreamStays DEF StoryHolds
<1>12. ConversationsInv' <=> /\ ConversationsTyped' /\ StoryHolds' /\ RequestsNamed' /\ StreamKnows' /\ AttachedOnce' /\ AttachedFew' /\ StreamTold'
  BY InvIs, PTL
<1> QED BY <1>7, <1>8, <1>9, <1>10, <1>11, <1>12

-----------------------------------------------------------------------------
(* Uploads, restarts and the stream. *)

InvParts == /\ ConversationsTyped /\ StoryHolds /\ RequestsNamed /\ StreamKnows /\ AttachedOnce /\ AttachedFew /\ StreamTold

\* The parts of the invariant after a step.
LEMMA InvPrimed == ConversationsInv' <=> InvParts'
<1>1. ConversationsInv <=> InvParts
  BY InvIs DEF InvParts
<1> QED BY <1>1, PTL

\* A separate upload keeps within the limit of the room.
LEMMA UploadFileKeeps == ASSUME ConversationsInv, UploadFile PROVE ConversationsInv'
<1>0. InvParts
  BY InvIs DEF InvParts
<1>1. /\ timeline' = timeline /\ hidden' = hidden /\ turns' = turns /\ room' = room /\ rounds' = rounds /\ log' = log
      /\ contributions' = contributions /\ watch' = watch /\ asking' = asking
      /\ Stored(files) < MaxAttachments /\ files' = [files EXCEPT !.uploaded = @ + 1]
  BY DEF UploadFile
<1>2. files \in [of : [TurnIds -> Nat], uploaded : Nat]
  BY <1>0 DEF InvParts, ConversationsTyped
<1>3. files' \in [of : [TurnIds -> Nat], uploaded : Nat] /\ files'.of = files.of /\ files'.uploaded = files.uploaded + 1
  BY <1>1, <1>2
<1>4. ConversationsTyped'
  BY <1>0, <1>1, <1>3 DEF InvParts, ConversationsTyped
<1>5. AttachedFew' /\ AttachedOnce'
  <2>1. AttachedFew'
    BY <1>0, <1>3 DEF InvParts, AttachedFew
  <2> DEFINE n == Cardinality({t \in TurnIds : files.of[t] > 0})
  <2>2. n \in Nat
    BY <1>0, FS_CardinalityType DEF InvParts, AttachedFew
  <2>3. Stored(files)' = files.uploaded + 1 + n /\ Stored(files) = files.uploaded + n
    BY <1>3 DEF Stored
  <2> HIDE DEF n
  <2>4. Stored(files)' <= MaxAttachments
    BY <1>1, <1>2, <2>2, <2>3, ConversationsAssumption
  <2> QED BY <1>0, <1>3, <2>1, <2>4 DEF InvParts, AttachedOnce
<1>6. Grows /\ StoryHolds'
  BY <1>0, <1>1, StorySame, Growing DEF StoryVars, InvParts
<1>7. RequestsNamed'
  BY <1>0, <1>1 DEF InvParts, RequestsNamed, RunsOf
<1>8. StreamKnows' /\ StreamTold'
  BY <1>0, <1>1, <1>4, <1>6, StreamStays DEF StoryHolds, InvParts
<1> QED BY <1>4, <1>5, <1>6, <1>7, <1>8, InvPrimed DEF InvParts

\* A restart forgets the requests on their way and the streams.
LEMMA CrashKeeps == ASSUME ConversationsInv, ConversationsCrash PROVE ConversationsInv'
<1>0. InvParts
  BY InvIs DEF InvParts
<1>1. /\ timeline' = timeline /\ hidden' = hidden /\ turns' = turns /\ room' = room /\ rounds' = rounds /\ log' = log
      /\ contributions' = contributions /\ files' = files /\ watch' = Unwatched /\ asking' = [c \in Clients |-> Calm]
  BY DEF ConversationsCrash
<1>2. ConversationsTyped'
  BY <1>0, <1>1 DEF InvParts, ConversationsTyped, RequestRecords
<1>3. StoryHolds'
  BY <1>0, <1>1, StorySame DEF StoryVars, InvParts
<1>4. RequestsNamed'
  BY <1>0, <1>1 DEF InvParts, RequestsNamed, Calm
<1>5. StreamKnows' /\ StreamTold'
  BY <1>1 DEF StreamKnows, StreamTold, Unwatched
<1>6. AttachedOnce' /\ AttachedFew'
  BY <1>0, <1>1 DEF InvParts, AttachedOnce, AttachedFew, Stored
<1> QED BY <1>2, <1>3, <1>4, <1>5, <1>6, InvPrimed DEF InvParts

\* Removing the conversation hides none of its messages from itself.
LEMMA RemoveKeeps == ASSUME ConversationsInv, RemoveConversation PROVE ConversationsInv'
<1>0. InvParts
  BY InvIs DEF InvParts
<1>1. /\ timeline' = timeline /\ hidden' = hidden /\ turns' = turns /\ rounds' = rounds /\ log' = log
      /\ contributions' = contributions /\ files' = files /\ watch' = watch /\ asking' = asking
      /\ room' = [room EXCEPT !.removed = TRUE]
  BY DEF RemoveConversation
<1>2. room' \in [made : BOOLEAN, active : Nat, removed : BOOLEAN] /\ room'.made = room.made /\ room'.active = room.active
  BY <1>0, <1>1 DEF InvParts, ConversationsTyped
<1>3. ConversationsTyped'
  BY <1>0, <1>1, <1>2 DEF InvParts, ConversationsTyped
<1>4. RoomFirst' /\ SlotHeld'
  BY <1>0, <1>1, <1>2 DEF InvParts, StoryHolds, RoomFirst, SlotHeld
<1>5. RunsNamed' /\ StepsStored'
  BY <1>0, <1>1 DEF InvParts, StoryHolds, RunsNamed, StepsStored
<1>6. EventsTrue' /\ EventsOrdered' /\ EventsThere'
  BY <1>0, <1>1 DEF InvParts, StoryHolds, EventsTrue, EventsOrdered, EventsThere, Opens, Begins
<1>7. AnswersVisible'
  BY <1>0, <1>1, <1>2 DEF InvParts, StoryHolds, AnswersVisible, VisibleIds
<1>8. RequestsNamed'
  BY <1>0, <1>1 DEF InvParts, RequestsNamed, RunsOf
<1>9. StreamKnows' /\ StreamTold'
  BY <1>0, <1>1, <1>3, StreamStays, Growing DEF StoryHolds, InvParts
<1>10. AttachedOnce' /\ AttachedFew'
  BY <1>0, <1>1 DEF InvParts, AttachedOnce, AttachedFew, Stored
<1> QED BY <1>3, <1>4, <1>5, <1>6, <1>7, <1>8, <1>9, <1>10, InvPrimed DEF InvParts, StoryHolds

\* A step of the stream leaves all but the stream alone.
LEMMA StreamMoves ==
  ASSUME ConversationsInv, UNCHANGED StoryVars, UNCHANGED <<asking, files>>,
         watch' \in {Unwatched} \cup Streams, StreamKnows', StreamTold'
  PROVE  ConversationsInv'
<1>0. InvParts
  BY InvIs DEF InvParts
<1>1. /\ timeline' = timeline /\ hidden' = hidden /\ turns' = turns /\ room' = room /\ rounds' = rounds /\ log' = log
      /\ contributions' = contributions /\ files' = files /\ asking' = asking
  BY DEF StoryVars
<1>2. ConversationsTyped'
  BY <1>0, <1>1 DEF InvParts, ConversationsTyped
<1>3. StoryHolds'
  BY <1>0, StorySame DEF InvParts
<1>4. RequestsNamed'
  BY <1>0, <1>1 DEF InvParts, RequestsNamed, RunsOf
<1>5. AttachedOnce' /\ AttachedFew'
  BY <1>0, <1>1 DEF InvParts, AttachedOnce, AttachedFew, Stored
<1> QED BY <1>2, <1>3, <1>4, <1>5, InvPrimed DEF InvParts

\* No numbers, no list.
LEMMA AscendingNone == Ascending({}) = <<>>
  BY FS_EmptySet DEF Ascending

\* A stream begins before the first event.
LEMMA StreamOpensKeeps ==
  ASSUME ConversationsInv, NEW i \in DOMAIN rounds, StreamOpens(i) PROVE ConversationsInv'
<1>0. InvParts
  BY InvIs DEF InvParts
<1>1. /\ timeline' = timeline /\ hidden' = hidden /\ turns' = turns /\ room' = room /\ rounds' = rounds /\ log' = log
      /\ contributions' = contributions /\ files' = files /\ asking' = asking
      /\ watch' = [pc |-> "polling", run |-> i, cursor |-> 0, private |-> {}, sent |-> <<>>]
  BY DEF StreamOpens
<1>2. watch' \in Streams
  <2>1. i \in Nat
    BY <1>0 DEF InvParts, ConversationsTyped
  <2>2. <<>> \in Seq(Nat)
    OBVIOUS
  <2> QED BY <1>1, <2>1, <2>2 DEF Streams
<1>3. StreamKnows'
  <2>1. Len(log) \in Nat
    BY <1>0 DEF InvParts, ConversationsTyped
  <2> QED BY <1>1, <2>1 DEF StreamKnows
<1>4. StreamTold'
  <2>1. {k \in 1 .. watch'.cursor : log'[k].run = watch'.run /\ ~IsPrivate(log[k].step)'} = {}
    BY <1>1
  <2>2. watch'.sent = <<>> /\ watch'.pc = "polling"
    BY <1>1
  <2> QED BY <2>1, <2>2, AscendingNone DEF StreamTold
<1> QED BY <1>1, <1>2, <1>3, <1>4, StreamMoves DEF StoryVars

\* A stream that is dropped promises nothing.
LEMMA StreamDropsKeeps == ASSUME ConversationsInv, StreamDrops PROVE ConversationsInv'
<1>1. watch' = Unwatched /\ UNCHANGED StoryVars /\ UNCHANGED <<asking, files>>
  BY DEF StreamDrops, StoryVars
<1>2. StreamKnows' /\ StreamTold'
  BY <1>1 DEF StreamKnows, StreamTold, Unwatched
<1> QED BY <1>1, <1>2, StreamMoves

\* The run's status, read after an empty page.
LEMMA StreamChecksKeeps == ASSUME ConversationsInv, StreamChecks PROVE ConversationsInv'
<1>0. InvParts
  BY InvIs DEF InvParts
<1>1. /\ timeline' = timeline /\ hidden' = hidden /\ turns' = turns /\ room' = room /\ rounds' = rounds /\ log' = log
      /\ contributions' = contributions /\ files' = files /\ asking' = asking
      /\ watch.pc = "checking"
      /\ watch' = [watch EXCEPT !.pc = IF IsOver(watch.run) THEN "done" ELSE "polling"]
  BY DEF StreamChecks
<1>2. watch \in Streams
  BY <1>0, <1>1 DEF InvParts, ConversationsTyped, Unwatched
<1>3. /\ watch' \in Streams /\ watch'.run = watch.run /\ watch'.cursor = watch.cursor
      /\ watch'.private = watch.private /\ watch'.sent = watch.sent
      /\ watch'.pc = IF IsOver(watch.run) THEN "done" ELSE "polling"
  BY <1>1, <1>2 DEF Streams
<1>4. StreamKnows'
  BY <1>0, <1>1, <1>3 DEF InvParts, StreamKnows, IsPrivate
<1>5. StreamTold'
  BY <1>0, <1>1, <1>3 DEF InvParts, StreamTold, IsPrivate, IsOver
<1> QED BY <1>1, <1>3, <1>4, <1>5, StreamMoves DEF StoryVars

\* A list is what it has in its places.
LEMMA AsList == ASSUME NEW T, NEW s \in Seq(T) PROVE s = [i \in 1 .. Len(s) |-> s[i]] /\ Len(s) \in Nat /\ DOMAIN s = 1 .. Len(s)
  OBVIOUS

\* Two lists joined, by their places.
LEMMA JoinedLists ==
  ASSUME NEW T, NEW a \in Seq(T), NEW g \in Seq(T)
  PROVE  /\ a \o g = [i \in 1 .. (Len(a) + Len(g)) |-> IF i <= Len(a) THEN a[i] ELSE g[i - Len(a)]]
         /\ a \o g \in Seq(T) /\ Len(a \o g) = Len(a) + Len(g)
<1>1. a \o g \in Seq(T) /\ Len(a \o g) = Len(a) + Len(g) /\ Len(a) \in Nat /\ Len(g) \in Nat
  OBVIOUS
<1>2. \A i \in 1 .. (Len(a) + Len(g)) : (a \o g)[i] = IF i <= Len(a) THEN a[i] ELSE g[i - Len(a)]
  OBVIOUS
<1>3. a \o g = [i \in 1 .. (Len(a) + Len(g)) |-> (a \o g)[i]]
  BY Zenon, <1>1, AsList
<1> QED BY <1>1, <1>2, <1>3

\* Two ascending lists, the second beyond the first, are one.
LEMMA AscendingOn ==
  ASSUME NEW c \in Nat, NEW A \in SUBSET (1 .. c), NEW T \in SUBSET (Nat \ {0}), NEW U \in SUBSET Nat,
         IsFiniteSet(U), IsFiniteSet(T), U = A \cup {c + k : k \in T}
  PROVE  Ascending(A) \o [n \in DOMAIN Ascending(T) |-> c + Ascending(T)[n]] = Ascending(U)
<1> DEFINE a == Ascending(A)
           b == Ascending(T)
           p == Cardinality(A)
           q == Cardinality(T)
           g == [n \in 1 .. q |-> c + b[n]]
           f == a \o g
<1>1. A \subseteq Nat /\ IsFiniteSet(A) /\ T \subseteq Nat
  <2>1. A \subseteq U
    OBVIOUS
  <2> QED BY <2>1, FS_Subset
<1>2. /\ p \in Nat /\ a \in [1 .. p -> A]
      /\ \A i, j \in 1 .. p : i < j => a[i] < a[j]
      /\ \A m \in A : \E i \in 1 .. p : a[i] = m
  BY Zenon, <1>1, AscendingLists
<1>3. /\ q \in Nat /\ b \in [1 .. q -> T]
      /\ \A i, j \in 1 .. q : i < j => b[i] < b[j]
      /\ \A m \in T : \E i \in 1 .. q : b[i] = m
  BY Zenon, <1>1, AscendingLists
<1> HIDE DEF a, b, p, q
<1>4. a \in Seq(Nat) /\ Len(a) = p /\ g \in Seq(Nat) /\ Len(g) = q
  <2>1. g \in [1 .. q -> Nat]
    BY <1>3
  <2>2. a \in [1 .. p -> Nat]
    BY <1>2
  <2> QED BY <1>2, <1>3, <2>1, <2>2
<1>5. DOMAIN f = 1 .. (p + q) /\ \A i \in 1 .. (p + q) : f[i] = IF i <= p THEN a[i] ELSE c + b[i - p]
  <2>1. f = [i \in 1 .. (Len(a) + Len(g)) |-> IF i <= Len(a) THEN a[i] ELSE g[i - Len(a)]]
    BY Zenon, <1>4, JoinedLists
  <2>2. f = [i \in 1 .. (p + q) |-> IF i <= p THEN a[i] ELSE g[i - p]]
    BY Zenon, <1>4, <2>1
  <2>3. \A i \in 1 .. (p + q) : ~(i <= p) => i - p \in 1 .. q
    BY <1>2, <1>3
  <2>4. \A i \in 1 .. q : g[i] = c + b[i]
    OBVIOUS
  <2> HIDE DEF f, g
  <2> QED BY <2>2, <2>3, <2>4
<1> HIDE DEF f, g
<1>6. \A i \in 1 .. (p + q) : (i \in 1 .. p /\ f[i] = a[i] /\ a[i] \in A) \/ (i - p \in 1 .. q /\ ~(i <= p) /\ f[i] = c + b[i - p] /\ b[i - p] \in T)
  <2> TAKE i \in 1 .. (p + q)
  <2>1. CASE i <= p
    BY <1>2, <1>3, <1>5, <2>1
  <2>2. CASE ~(i <= p)
    <3>1. i - p \in 1 .. q
      BY <1>2, <1>3, <2>2
    <3> QED BY <1>3, <1>5, <2>2, <3>1
  <2> QED BY <2>1, <2>2
<1>7. f \in [1 .. (p + q) -> U]
  <2>1. \A i \in 1 .. (p + q) : f[i] \in U
    BY <1>6
  <2>2. f = [i \in 1 .. (p + q) |-> f[i]]
    <3>1. f = [i \in 1 .. (Len(a) + Len(g)) |-> IF i <= Len(a) THEN a[i] ELSE g[i - Len(a)]]
      BY Zenon, <1>4, JoinedLists DEF f
    <3> QED BY <1>4, <3>1
  <2> QED BY <2>1, <2>2
<1>8. ASSUME NEW i \in 1 .. (p + q), NEW j \in 1 .. (p + q), i < j PROVE f[i] < f[j]
  <2>1. CASE i <= p /\ j <= p
    <3>1. i \in 1 .. p /\ j \in 1 .. p
      BY <1>2, <1>3, <2>1
    <3> QED BY <1>2, <1>5, <1>8, <3>1, <2>1
  <2>2. CASE i <= p /\ ~(j <= p)
    <3>1. f[i] \in A /\ j - p \in 1 .. q /\ f[j] = c + b[j - p] /\ b[j - p] \in T
      BY <1>6, <2>2, <1>2
    <3>2. f[i] \in 1 .. c /\ b[j - p] \in Nat \ {0}
      BY <3>1
    <3> QED BY <3>1, <3>2
  <2>3. CASE ~(i <= p) /\ ~(j <= p)
    <3>1. i - p \in 1 .. q /\ j - p \in 1 .. q /\ i - p < j - p
      BY <1>2, <1>3, <1>8, <2>3
    <3>2. b[i - p] < b[j - p] /\ b[i - p] \in Nat /\ b[j - p] \in Nat
      BY <1>3, <3>1
    <3> QED BY <1>5, <2>3, <3>2
  <2>4. i \in Nat /\ j \in Nat /\ p \in Nat
    BY <1>2
  <2> QED BY <1>8, <2>1, <2>2, <2>3, <2>4
<1>9. ASSUME NEW m \in U PROVE \E i \in 1 .. (p + q) : f[i] = m
  <2>1. CASE m \in A
    <3>1. PICK i \in 1 .. p : a[i] = m
      BY <1>2, <2>1
    <3>2. i \in 1 .. (p + q) /\ i <= p
      BY <1>2, <1>3
    <3> QED BY <1>5, <3>1, <3>2
  <2>2. CASE m \notin A
    <3>1. PICK k \in T : m = c + k
      BY <2>2
    <3>2. PICK i \in 1 .. q : b[i] = k
      BY <1>3
    <3>3. p + i \in 1 .. (p + q) /\ ~(p + i <= p) /\ (p + i) - p = i
      BY <1>2, <1>3
    <3> QED BY <1>5, <3>1, <3>2, <3>3
  <2> QED BY <2>1, <2>2
<1>10. p + q \in Nat
  BY <1>2, <1>3
<1>11. f = Ascending(U)
  BY <1>7, <1>8, <1>9, <1>10, AscendingOnly
<1>12. DOMAIN b = 1 .. q
  BY <1>3
<1> QED BY <1>11, <1>12 DEF f, g, a, b

\* Up to any place of the log, the consultations begun are the private ones.
LEMMA ConsultedBefore ==
  ASSUME ConversationsTyped, EventsTrue, EventsOrdered, EventsThere, NEW l \in 0 .. Len(log), NEW k \in 1 .. l
  PROVE  log[k].step \in {log[n].step : n \in {m \in 1 .. l : log[m].kind = "speaker_started" /\ IsPrivate(log[m].step)}}
         <=> IsPrivate(log[k].step)
<1> DEFINE P == {log[n].step : n \in {m \in 1 .. l : log[m].kind = "speaker_started" /\ IsPrivate(log[m].step)}}
<1>1. DOMAIN log = 1 .. Len(log) /\ Len(log) \in Nat /\ k \in DOMAIN log
  BY DEF ConversationsTyped
<1>2. log[k].step \in P => IsPrivate(log[k].step)
  OBVIOUS
<1>3. ASSUME IsPrivate(log[k].step) PROVE log[k].step \in P
  <2> DEFINE s == log[k].step
  <2>1. s # 0 /\ s \in DOMAIN contributions
    BY <1>1, <1>3 DEF IsPrivate, EventsTrue
  <2>2. PICK n \in DOMAIN log : log[n].kind = "speaker_started" /\ log[n].step = s
    BY <2>1 DEF EventsThere, Begins
  <2>3. ~(k < n)
    BY <1>1, <2>1, <2>2 DEF EventsOrdered
  <2>4. n \in 1 .. l
    BY <1>1, <2>2, <2>3
  <2> QED BY <1>3, <2>2, <2>4
<1> QED BY <1>2, <1>3

\* What a page of the log holds.
LEMMA PageOf ==
  ASSUME NEW S, NEW s \in Seq(S), NEW c \in 0 .. Len(s)
  PROVE  /\ DOMAIN SubSeq(s, c + 1, Len(s)) = 1 .. (Len(s) - c)
         /\ \A k \in 1 .. (Len(s) - c) : SubSeq(s, c + 1, Len(s))[k] = s[c + k]
<1>1. Len(s) \in Nat /\ c \in Nat /\ c <= Len(s)
  OBVIOUS
<1>2. SubSeq(s, c + 1, Len(s)) \in Seq(S) /\ Len(SubSeq(s, c + 1, Len(s))) = Len(s) - c
  BY <1>1
<1>3. \A k \in 1 .. (Len(s) - c) : SubSeq(s, c + 1, Len(s))[k] = s[c + k]
  BY <1>1
<1> QED BY <1>2, <1>3

\* Numbers up to a bound are finitely many.
LEMMA FewNumbers == ASSUME NEW l \in Nat, NEW S \in SUBSET (1 .. l) PROVE IsFiniteSet(S) /\ S \in SUBSET Nat
<1>1. IsFiniteSet(1 .. l)
  BY FS_Interval
<1>2. S \subseteq 1 .. l /\ 1 .. l \subseteq Nat
  OBVIOUS
<1>3. IsFiniteSet(S)
  BY <1>1, <1>2, FS_Subset
<1> QED BY <1>2, <1>3

\* A page is told up to the turn's end: all that is public up to there, once and in order.
LEMMA StreamPollsKeeps == ASSUME ConversationsInv, StreamPolls PROVE ConversationsInv'
<1>0. InvParts
  BY InvIs DEF InvParts
<1> DEFINE c == watch.cursor
           L == Len(log)
           r == watch.run
           page == SubSeq(log, c + 1, L)
           private == PrivateSoFar(watch.private, page)
           mine == {k \in DOMAIN page : page[k].run = r /\ page[k].step \notin private}
           ends == {k \in mine : page[k].kind \in {"round_finished", "run_stopped"}}
           told == Ascending({k \in mine : ends = {} \/ k <= Min(ends)})
           sent == watch.sent \o [n \in DOMAIN told |-> c + told[n]]
           P(l) == {log[n].step : n \in {m \in 1 .. l : log[m].kind = "speaker_started" /\ IsPrivate(log[m].step)}}
           M(l) == {k \in 1 .. l : log[k].run = r /\ ~IsPrivate(log[k].step)}
<1>1. /\ UNCHANGED StoryVars /\ asking' = asking /\ files' = files /\ watch.pc = "polling"
      /\ watch' = [watch EXCEPT !.cursor = L, !.private = private, !.sent = sent,
                     !.pc = IF ends # {} THEN "done" ELSE IF page = <<>> THEN "checking" ELSE "polling"]
  BY DEF StreamPolls, StoryVars
<1>2. /\ watch \in Streams /\ r \in DOMAIN rounds /\ c \in 0 .. L /\ L \in Nat /\ DOMAIN log = 1 .. L
      /\ log \in Seq(EventRecords) /\ watch.private = P(c) /\ watch.sent = Ascending(M(c)) /\ r # 0
  <2>1. watch \in Streams /\ r \in DOMAIN rounds /\ c \in 0 .. L /\ watch.private = P(c)
    <3>1. ConversationsTyped /\ StreamKnows /\ watch.pc # "idle"
      BY <1>0, <1>1 DEF InvParts
    <3>2. watch \in Streams
      BY <3>1 DEF ConversationsTyped, Unwatched
    <3>3. r \in DOMAIN rounds /\ c \in 0 .. L /\ watch.private = P(c)
      BY <3>1 DEF StreamKnows
    <3> QED BY <3>2, <3>3
  <2>2. watch.sent = Ascending(M(c))
    BY <1>0, <1>1 DEF InvParts, StreamTold
  <2>3. L \in Nat /\ DOMAIN log = 1 .. L /\ log \in Seq(EventRecords) /\ r # 0
    BY <1>0, <2>1 DEF InvParts, ConversationsTyped
  <2> QED BY <2>1, <2>2, <2>3
<1>3. DOMAIN page = 1 .. (L - c) /\ \A k \in 1 .. (L - c) : page[k] = log[c + k] /\ c + k \in 1 .. L
  <2>1. DOMAIN page = 1 .. (L - c) /\ \A k \in 1 .. (L - c) : page[k] = log[c + k]
    BY <1>2, PageOf
  <2> QED BY <1>2, <2>1
<1> HIDE DEF page, c, L, r
<1>4. private = P(L)
  <2>1. Consulted(page) = {log[n].step : n \in {m \in (c + 1) .. L : log[m].kind = "speaker_started" /\ IsPrivate(log[m].step)}}
    <3> DEFINE A == {k \in 1 .. (L - c) : page[k].kind = "speaker_started" /\ IsPrivate(page[k].step)}
               B == {m \in (c + 1) .. L : log[m].kind = "speaker_started" /\ IsPrivate(log[m].step)}
    <3>1. Consulted(page) = {page[k].step : k \in A}
      BY <1>3 DEF Consulted
    <3>2. \A k \in A : c + k \in B /\ page[k].step = log[c + k].step
      BY <1>2, <1>3
    <3>3. \A m \in B : m - c \in A /\ page[m - c].step = log[m].step
      <4> TAKE m \in B
      <4>1. m - c \in 1 .. (L - c) /\ c + (m - c) = m
        BY <1>2
      <4> QED BY <1>3, <4>1
    <3> HIDE DEF A, B
    <3>4. {page[k].step : k \in A} = {log[n].step : n \in B}
      BY <3>2, <3>3
    <3> QED BY <3>1, <3>4 DEF B
  <2>2. \A m : m \in 1 .. L <=> m \in 1 .. c \/ m \in (c + 1) .. L
    BY <1>2
  <2>3. private = P(c) \cup Consulted(page)
    BY <1>2 DEF PrivateSoFar
  <2> QED BY <2>1, <2>2, <2>3
<1>5. \A k \in 1 .. L : log[k].step \in P(L) <=> IsPrivate(log[k].step)
  <2> TAKE k \in 1 .. L
  <2>1. L \in 0 .. Len(log)
    BY <1>2 DEF L
  <2> QED BY <1>0, <2>1, ConsultedBefore DEF InvParts, StoryHolds
<1> DEFINE T == {k \in 1 .. (L - c) : log[c + k].run = r /\ ~IsPrivate(log[c + k].step)}
<1> HIDE DEF P, private
<1>6. mine = T
  BY <1>3, <1>4, <1>5
<1>7. \A k \in ends : k \in T /\ c + k \in 1 .. L /\ log[c + k].run = r /\ log[c + k].kind \in EndKinds
  BY <1>3, <1>6 DEF EndKinds
<1>8. {k \in mine : ends = {} \/ k <= Min(ends)} = T
  <2> SUFFICES ASSUME ends # {}, NEW k \in T PROVE k <= Min(ends)
    BY <1>6
  <2>1. IsFiniteSet(ends) /\ ends \subseteq Nat
    <3>1. L - c \in Nat /\ ends \in SUBSET (1 .. (L - c))
      BY <1>2, <1>6
    <3> HIDE DEF ends
    <3> QED BY <3>1, FewNumbers
  <2>2. Min(ends) \in ends
    BY <2>1, AscendingEnds
  <2> DEFINE m == Min(ends)
  <2>3. m \in T /\ c + m \in 1 .. L /\ log[c + m].run = r /\ log[c + m].kind \in EndKinds
    BY <1>7, <2>2
  <2>4. c + k \in 1 .. L /\ log[c + k].run = r
    BY <1>3
  <2> HIDE DEF m
  <2>5. ~(c + m < c + k)
    BY <1>0, <1>2, <2>3, <2>4 DEF InvParts, StoryHolds, EventsOrdered
  <2>6. c \in Nat /\ m \in Nat /\ k \in Nat
    BY <1>2, <2>3
  <2>7. k <= m
    BY <2>5, <2>6
  <2> QED BY <2>7 DEF m
<1>9. sent = Ascending(M(L))
  <2>1. M(L) = M(c) \cup {c + k : k \in T}
    <3>1. \A k \in T : c + k \in 1 .. L
      BY <1>3
    <3>2. \A m \in 1 .. L : m \notin 1 .. c => m - c \in 1 .. (L - c) /\ c + (m - c) = m
      BY <1>2
    <3>3. \A m \in 1 .. c : m \in 1 .. L
      BY <1>2
    <3> QED BY <3>1, <3>2, <3>3
  <2>2. IsFiniteSet(M(L)) /\ IsFiniteSet(T)
    <3>1. L - c \in Nat /\ L \in Nat /\ M(L) \in SUBSET (1 .. L) /\ T \in SUBSET (1 .. (L - c))
      BY <1>2
    <3> HIDE DEF M, T
    <3> QED BY <3>1, FewNumbers
  <2>3. c \in Nat /\ M(c) \in SUBSET (1 .. c) /\ T \in SUBSET (Nat \ {0}) /\ M(L) \in SUBSET Nat
    BY <1>2
  <2>4. told = Ascending(T)
    BY <1>8
  <2> HIDE DEF M, T, told
  <2>5. Ascending(M(c)) \o [n \in DOMAIN Ascending(T) |-> c + Ascending(T)[n]] = Ascending(M(L))
    BY <2>1, <2>2, <2>3, AscendingOn
  <2> QED BY <1>2, <2>4, <2>5
<1>10. private \in SUBSET Nat
  <2>1. \A n \in 1 .. L : log[n].step \in Nat
    <3> TAKE n \in 1 .. L
    <3>1. log[n] \in EventRecords
      BY <1>2
    <3> QED BY <3>1 DEF EventRecords
  <2> QED BY <1>4, <2>1 DEF P
<1>11. sent \in Seq(Nat)
  <2>1. IsFiniteSet(M(L)) /\ M(L) \in SUBSET Nat
    <3>1. L \in Nat /\ M(L) \in SUBSET (1 .. L)
      BY <1>2
    <3> HIDE DEF M
    <3> QED BY <3>1, FewNumbers
  <2> HIDE DEF M
  <2> DEFINE S == M(L)
  <2>2. Cardinality(S) \in Nat /\ Ascending(S) \in [1 .. Cardinality(S) -> S]
    BY <2>1, AscendingLists
  <2>3. Ascending(S) \in [1 .. Cardinality(S) -> Nat]
    BY <2>1, <2>2
  <2>4. Ascending(S) \in Seq(Nat)
    BY <2>2, <2>3
  <2> HIDE DEF sent
  <2> QED BY <1>9, <2>4
<1>12. ends # {} => rounds[r].status \in Over
  <2> SUFFICES ASSUME NEW k \in ends PROVE rounds[r].status \in Over
    OBVIOUS
  <2>1. c + k \in DOMAIN log /\ log[c + k].run = r /\ log[c + k].kind \in EndKinds
    BY <1>2, <1>7
  <2> QED BY <1>0, <2>1 DEF InvParts, StoryHolds, EventsTrue
<1>13. PICK nextpc \in {"polling", "checking", "done"} :
         /\ watch' = [watch EXCEPT !.cursor = L, !.private = private, !.sent = sent, !.pc = nextpc]
         /\ nextpc = "done" => ends # {}
  BY <1>1
<1> HIDE DEF sent, ends, M
<1>14. /\ watch' \in Streams /\ watch'.run = r /\ watch'.cursor = L /\ watch'.private = private
       /\ watch'.sent = sent /\ watch'.pc = nextpc
  BY <1>2, <1>10, <1>11, <1>13 DEF Streams, r
<1>15. /\ log' = log /\ rounds' = rounds /\ contributions' = contributions
  BY <1>1 DEF StoryVars
<1>16. StreamKnows'
  <2>1. P(L) = {log[n].step : n \in {m \in 1 .. L : log[m].kind = "speaker_started" /\ IsPrivate(log[m].step)}}
    BY DEF P
  <2>2. L \in 0 .. Len(log)
    BY <1>2 DEF L
  <2> QED BY <1>2, <1>4, <1>14, <1>15, <2>1, <2>2 DEF StreamKnows, IsPrivate
<1>17. StreamTold'
  <2>1. M(L) = {k \in 1 .. L : log[k].run = r /\ ~IsPrivate(log[k].step)}
    BY DEF M
  <2>2. {k \in 1 .. watch'.cursor : log'[k].run = watch'.run /\ ~IsPrivate(log[k].step)'} = M(L)
    BY <1>14, <1>15, <2>1 DEF IsPrivate
  <2>3. nextpc = "done" => rounds'[watch'.run].status \in Over
    BY <1>12, <1>13, <1>14, <1>15
  <2> QED BY <1>9, <1>14, <2>2, <2>3 DEF StreamTold, Over
<1> QED BY <1>1, <1>14, <1>16, <1>17, StreamMoves

-----------------------------------------------------------------------------
(* Edits, replays and admissions. *)

Seen(body) == {n \in VisibleIds : ~(body.room /\ IsPrivate(timeline[n].step))}

\* The visible messages are among the stored ones.
LEMMA VisibleFew ==
  ASSUME ConversationsTyped
  PROVE  VisibleIds \in SUBSET (1 .. Len(timeline)) /\ Len(timeline) \in Nat /\ DOMAIN timeline = 1 .. Len(timeline)
  BY DEF ConversationsTyped, VisibleIds

\* What an edit counts is in order.
LEMMA EditViewLists ==
  ASSUME ConversationsTyped, NEW body \in Bodies
  PROVE  /\ Seen(body) \in SUBSET Nat /\ IsFiniteSet(Seen(body)) /\ Seen(body) \subseteq VisibleIds
         /\ Cardinality(Seen(body)) \in Nat /\ Len(EditView(body)) = Cardinality(Seen(body))
         /\ EditView(body) \in Seq(Nat)
         /\ EditView(body) \in [1 .. Cardinality(Seen(body)) -> Seen(body)]
         /\ \A i, j \in 1 .. Cardinality(Seen(body)) : i < j => EditView(body)[i] < EditView(body)[j]
         /\ \A m \in Seen(body) : \E i \in 1 .. Cardinality(Seen(body)) : EditView(body)[i] = m
<1> DEFINE S == Seen(body)
           e == EditView(body)
           c == Cardinality(S)
<1>1. S \subseteq VisibleIds /\ S \in SUBSET (1 .. Len(timeline)) /\ Len(timeline) \in Nat
  BY VisibleFew DEF Seen
<1>2. S \in SUBSET Nat /\ IsFiniteSet(S)
  <2> HIDE DEF S
  <2> QED BY <1>1, FewNumbers
<1>3. e = Ascending(S)
  BY DEF EditView, Seen
<1> HIDE DEF S, e, c
<1>4. /\ c \in Nat /\ e \in [1 .. c -> S]
      /\ \A i, j \in 1 .. c : i < j => e[i] < e[j]
      /\ \A m \in S : \E i \in 1 .. c : e[i] = m
  BY Zenon, <1>2, <1>3, AscendingLists DEF c
<1>5. e \in [1 .. c -> Nat]
  BY <1>2, <1>4
<1>6. e \in Seq(Nat) /\ Len(e) = c
  BY <1>4, <1>5
<1> QED BY <1>1, <1>2, <1>4, <1>6 DEF S, e, c

\* What an edit keeps is a beginning of that.
LEMMA KeptLists ==
  ASSUME ConversationsTyped, NEW body \in Bodies, body.keep <= Len(EditView(body))
  PROVE  /\ body.keep \in Int
         /\ body.keep < 0 => ToSet(Kept(body)) = Seen(body)
         /\ body.keep >= 0 => ToSet(Kept(body)) = {EditView(body)[i] : i \in 1 .. body.keep}
         /\ ToSet(EditView(body)) = Seen(body)
         /\ ToSet(Kept(body)) \subseteq Seen(body)
<1> DEFINE S == Seen(body)
           e == EditView(body)
           c == Cardinality(S)
<1>1. /\ S \in SUBSET Nat /\ IsFiniteSet(S) /\ c \in Nat /\ Len(e) = c /\ e \in Seq(Nat) /\ e \in [1 .. c -> S]
      /\ \A m \in S : \E i \in 1 .. c : e[i] = m
  BY EditViewLists
<1>2. body.keep \in Int
  BY ConversationsAssumption
<1> HIDE DEF S, e, c
<1>3. ToSet(e) = S
  BY <1>1 DEF ToSet
<1>4. CASE body.keep < 0
  <2>1. Kept(body) = e
    BY <1>4 DEF Kept, e
  <2> QED BY <1>2, <1>3, <1>4, <2>1 DEF S, e
<1>5. CASE ~(body.keep < 0)
  <2> DEFINE k == body.keep
  <2>1. k \in Nat /\ k <= c
    BY <1>1, <1>2, <1>5 DEF e
  <2>2. Kept(body) = SubSeq(e, 1, k)
    BY <1>5 DEF Kept, e
  <2> HIDE DEF k
  <2>3. DOMAIN SubSeq(e, 1, k) = 1 .. k /\ \A i \in 1 .. k : SubSeq(e, 1, k)[i] = e[i]
    BY <1>1, <2>1
  <2>4. ToSet(Kept(body)) = {e[i] : i \in 1 .. k}
    BY <2>2, <2>3 DEF ToSet
  <2>5. \A i \in 1 .. k : e[i] \in S
    BY <1>1, <2>1
  <2> QED BY <1>2, <1>3, <1>5, <2>4, <2>5 DEF S, e, k
<1> QED BY <1>4, <1>5

\* An edit takes away the visible messages above a place.
LEMMA RemovedAbove ==
  ASSUME ConversationsTyped, NEW body \in Bodies, body.keep <= Len(EditView(body))
  PROVE  /\ RemovedBy(body) \subseteq VisibleIds
         /\ body.keep < 0 => RemovedBy(body) = {}
         /\ \A a \in VisibleIds, q \in RemovedBy(body) : q < a => a \in RemovedBy(body)
<1> DEFINE S == Seen(body)
           e == EditView(body)
           c == Cardinality(S)
           K == ToSet(Kept(body))
           k == body.keep
<1>1. /\ S \in SUBSET Nat /\ c \in Nat /\ Len(e) = c /\ e \in [1 .. c -> S] /\ S \subseteq VisibleIds
      /\ \A i, j \in 1 .. c : i < j => e[i] < e[j]
      /\ \A m \in S : \E i \in 1 .. c : e[i] = m
  BY EditViewLists
<1>2. k \in Int /\ (k >= 0 => K = {e[i] : i \in 1 .. k}) /\ ToSet(e) = S /\ K \subseteq S
  BY KeptLists
<1>3. VisibleIds \in SUBSET Nat
  BY VisibleFew
<1>4. CASE k < 0
  BY <1>4 DEF RemovedBy
<1>5. CASE ~(k < 0) /\ body.room
  <2>1. RemovedBy(body) = {n \in VisibleIds : \A m \in K : n > m}
    BY <1>5 DEF RemovedBy
  <2> HIDE DEF K, k, S
  <2>2. ASSUME NEW a \in VisibleIds, NEW q \in RemovedBy(body), q < a PROVE a \in RemovedBy(body)
    <3>1. \A m \in K : q > m /\ m \in Nat /\ q \in Nat /\ a \in Nat
      BY <1>1, <1>2, <1>3, <2>1
    <3>2. \A m \in K : a > m
      BY <2>2, <3>1
    <3> QED BY <2>1, <3>2
  <2> QED BY <1>5, <2>1, <2>2 DEF k
<1>6. CASE ~(k < 0) /\ ~body.room
  <2>1. RemovedBy(body) = S \ K
    BY <1>2, <1>6 DEF RemovedBy
  <2>2. S = VisibleIds
    BY <1>6 DEF Seen
  <2> HIDE DEF K, S, e
  <2>3. ASSUME NEW a \in VisibleIds, NEW q \in RemovedBy(body), q < a PROVE a \in RemovedBy(body)
    <3> SUFFICES ASSUME a \in K PROVE FALSE
      BY <2>1, <2>2
    <3>0. K = {e[i] : i \in 1 .. k} /\ k \in Nat /\ k <= c
      BY <1>1, <1>2, <1>6 DEF e
    <3>1. PICK i \in 1 .. k : e[i] = a
      BY <3>0
    <3>2. PICK j \in 1 .. c : e[j] = q
      BY <1>1, <2>1
    <3>3. i \in 1 .. c /\ i \in Nat /\ j \in Nat
      BY <1>1, <3>0
    <3>4. j \notin 1 .. k
      BY <2>1, <3>0, <3>2
    <3>5. i < j
      BY <3>0, <3>1, <3>2, <3>3, <3>4
    <3>6. a < q
      BY <1>1, <3>1, <3>2, <3>3, <3>5
    <3>7. a \in Nat /\ q \in Nat
      BY <1>3, <2>1, <2>2
    <3> QED BY <2>3, <3>6, <3>7
  <2> QED BY <1>6, <2>1, <2>2, <2>3 DEF k
<1> QED BY <1>4, <1>5, <1>6

\* An edit keeps the question of an answer that it keeps.
LEMMA EditKeepsQuestions ==
  ASSUME ConversationsTyped, StepsStored, AnswersVisible, SlotHeld, NEW body \in Bodies, body.keep <= Len(EditView(body)), Editable(body),
         hidden' = hidden \cup RemovedBy(body), UNCHANGED <<timeline, rounds, contributions>>, room'.active = room.active
  PROVE  AnswersVisible'
<1>1. VisibleIds' = VisibleIds \ RemovedBy(body)
  BY DEF VisibleIds
<1>2. /\ body.keep < 0 => RemovedBy(body) = {}
      /\ \A a \in VisibleIds, q \in RemovedBy(body) : q < a => a \in RemovedBy(body)
  BY RemovedAbove
<1>3. ASSUME NEW s \in DOMAIN contributions, contributions[s].message \in VisibleIds', rounds[contributions[s].run].straight
      PROVE  rounds[contributions[s].run].message \in VisibleIds'
  <2> DEFINE a == contributions[s].message
             q == rounds[contributions[s].run].message
  <2>1. a \in VisibleIds /\ a \notin RemovedBy(body)
    BY <1>1, <1>3
  <2>2. q \in VisibleIds
    BY <1>3, <2>1 DEF AnswersVisible
  <2>3. a # 0
    BY <2>1, VisibleFew
  <2>4. q < a
    BY <2>3 DEF StepsStored
  <2> QED BY <1>1, <1>2, <2>1, <2>2, <2>4
<1>4. ASSUME room.active # 0, rounds[room.active].straight PROVE rounds[room.active].message \in VisibleIds'
  <2>1. ~(body.keep >= 0)
    BY <1>4 DEF Editable
  <2>2. body.keep \in Int
    BY ConversationsAssumption
  <2>3. RemovedBy(body) = {}
    BY <1>2, <2>1, <2>2
  <2> QED BY <1>1, <1>4, <2>3 DEF AnswersVisible
<1> QED BY <1>3, <1>4 DEF AnswersVisible

\* The message to be answered again is one of the owner's.
LEMMA ReplayIsOwners ==
  ASSUME ConversationsTyped, NEW body \in Bodies, body.keep <= Len(EditView(body)), OwnerWords(Kept(body)) # {}
  PROVE  LET n == Max(OwnerWords(Kept(body))) IN n \in DOMAIN timeline /\ n \in Nat \ {0} /\ timeline[n].role = "user"
<1> DEFINE W == OwnerWords(Kept(body))
<1>1. W \subseteq VisibleIds /\ \A n \in W : timeline[n].role = "user"
  BY KeptLists, EditViewLists DEF OwnerWords
<1>2. VisibleIds \in SUBSET (1 .. Len(timeline)) /\ Len(timeline) \in Nat /\ DOMAIN timeline = 1 .. Len(timeline)
  BY VisibleFew
<1> HIDE DEF W
<1>3. W \in SUBSET (1 .. Len(timeline))
  BY <1>1, <1>2
<1>4. IsFiniteSet(W) /\ W \in SUBSET Nat
  BY <1>2, <1>3, FewNumbers
<1>5. W # {}
  BY DEF W
<1>6. Max(W) \in W
  BY <1>4, <1>5, AscendingEnds
<1> QED BY <1>1, <1>2, <1>3, <1>6 DEF W

\* A conversation without a room gets its log from what is stored.
LEMMA ImportTells ==
  ASSUME ConversationsTyped, StoryHolds, ~room.made, log' = ImportedView, UNCHANGED <<timeline, rounds, contributions>>
  PROVE  log' \in Seq(EventRecords) /\ EventsTrue' /\ EventsOrdered' /\ EventsThere' /\ Grows
<1>1. rounds = <<>> /\ log = <<>> /\ contributions = <<>> /\ \A n \in DOMAIN timeline : timeline[n].step = 0
  BY DEF StoryHolds, RoomFirst
<1>2. Len(timeline) \in Nat /\ DOMAIN timeline = 1 .. Len(timeline)
  BY VisibleFew
<1>3. log' = [n \in 1 .. Len(timeline) |-> Event(IF timeline[n].role = "user" THEN "user_message" ELSE "message", 0, 0, n)]
  BY <1>2 DEF ImportedView
<1>4. \A n \in 1 .. Len(timeline) :
        /\ log'[n] \in EventRecords /\ log'[n].run = 0 /\ log'[n].step = 0 /\ log'[n].message = n
        /\ log'[n].kind \in {"user_message", "message"}
  BY <1>2, <1>3 DEF Event, EventRecords, AnswerKinds, EndKinds
<1>5. DOMAIN log' = 1 .. Len(timeline)
  BY <1>3
<1>6. log' \in Seq(EventRecords)
  <2>1. log' \in [1 .. Len(timeline) -> EventRecords]
    BY <1>3, <1>4
  <2> QED BY <1>2, <2>1
<1>7. EventsTrue'
  <2> SUFFICES ASSUME NEW k \in DOMAIN log'
               PROVE  /\ log'[k].kind \in {"user_message", "message"} /\ log'[k].step = 0 /\ log'[k].message = k /\ log'[k].run = 0
                      /\ timeline'[k].step = 0 /\ k \in 0 .. Len(timeline')
    BY DEF EventsTrue, AnswerKinds, EndKinds
  <2> QED BY <1>1, <1>2, <1>4, <1>5
<1>8. EventsOrdered'
  BY <1>4, <1>5 DEF EventsOrdered, EndKinds
<1>9. EventsThere' /\ Grows
  BY <1>1 DEF EventsThere, Grows
<1> QED BY <1>6, <1>7, <1>8, <1>9

\* The transaction that edits, picks the replay and names the turn.
LEMMA ClientMapsKeeps ==
  ASSUME ConversationsInv, NEW c \in Clients, ClientMaps(c) PROVE ConversationsInv'
<1>0. InvParts
  BY InvIs DEF InvParts
<1> DEFINE t == asking[c].id
           body == asking[c].body
<1>1. /\ timeline' = timeline /\ rounds' = rounds /\ contributions' = contributions /\ files' = files /\ watch' = watch
      /\ asking[c].pc = "mapping"
  BY DEF ClientMaps
<1>2. \/ turns[t].made /\ turns[t].body = body /\ GoOn(c, "attaching") /\ UNCHANGED <<hidden, turns, room, log>>
      \/ Answer(c, "refused") /\ UNCHANGED <<hidden, turns, room, log>>
      \/ /\ ~turns[t].made /\ CanMap(body) /\ GoOn(c, "attaching")
         /\ hidden' = hidden \cup RemovedBy(body)
         /\ turns' = [turns EXCEPT ![t] = [made |-> TRUE, body |-> body,
                replay |-> IF body.regenerate THEN Max(OwnerWords(Kept(body))) ELSE 0]]
         /\ room' = [room EXCEPT !.made = TRUE]
         /\ log' = IF room.made THEN log ELSE ImportedView
  BY DEF ClientMaps
<1>3. PICK nextpc \in {"idle", "mapping", "attaching", "admitting"}, answer \in {"none", "told", "refused"} :
        /\ asking' = [asking EXCEPT ![c].pc = nextpc, ![c].answer = answer] \/ (asking' = [asking EXCEPT ![c].pc = nextpc] /\ answer = asking[c].answer)
        /\ \/ nextpc = "attaching" /\ answer = asking[c].answer /\ ~Answer(c, "refused")
           \/ nextpc = "idle" /\ answer = "refused" /\ Answer(c, "refused")
  <2>1. asking[c].answer \in {"none", "told", "refused"}
    BY <1>0, <1>1 DEF InvParts, ConversationsTyped, RequestRecords, Calm
  <2>2. CASE Answer(c, "refused")
    <3>1. asking' = [asking EXCEPT ![c].pc = "idle", ![c].answer = "refused"]
      BY <2>2 DEF Answer
    <3>2. "idle" \in {"idle", "mapping", "attaching", "admitting"} /\ "refused" \in {"none", "told", "refused"}
      OBVIOUS
    <3> WITNESS "idle" \in {"idle", "mapping", "attaching", "admitting"}, "refused" \in {"none", "told", "refused"}
    <3> QED BY <2>2, <3>1
  <2>3. CASE GoOn(c, "attaching") /\ ~Answer(c, "refused")
    <3>1. asking' = [asking EXCEPT ![c].pc = "attaching"]
      BY <2>3 DEF GoOn
    <3>2. asking[c].answer \in {"none", "told", "refused"} /\ "attaching" \in {"idle", "mapping", "attaching", "admitting"}
      BY <2>1
    <3> WITNESS "attaching" \in {"idle", "mapping", "attaching", "admitting"}, asking[c].answer \in {"none", "told", "refused"}
    <3> QED BY <2>3, <3>1
  <2> QED BY <1>2, <2>2, <2>3
<1>4. /\ asking[c] \in Requests
      /\ asking' \in [Clients -> RequestRecords]
      /\ asking'[c] \in Requests /\ asking'[c].pc = nextpc /\ asking'[c].answer = answer
      /\ asking'[c].id = t /\ asking'[c].body = body
      /\ \A x \in Clients : x # c => asking'[x] = asking[x]
  BY <1>0, <1>1, <1>3, RequestMoves DEF InvParts
<1>5. t \in TurnIds /\ body \in Bodies
  BY <1>4 DEF Requests
<1> HIDE DEF t, body
<1>6. AttachedOnce' /\ AttachedFew'
  BY <1>0, <1>1 DEF InvParts, AttachedOnce, AttachedFew, Stored
<1>7. /\ hidden' \subseteq DOMAIN timeline /\ turns' \in [TurnIds -> TurnRecords]
      /\ room' \in [made : BOOLEAN, active : Nat, removed : BOOLEAN] /\ room'.active = room.active /\ log' \in Seq(EventRecords)
      /\ \A x \in TurnIds : turns[x].made => turns'[x].made /\ turns'[x].body = turns[x].body
      /\ nextpc = "attaching" => turns'[t].made /\ turns'[t].body = body
      /\ Grows /\ StoryHolds' /\ ReplaysNamed'
  <2>1. CASE UNCHANGED <<hidden, turns, room, log>> /\ (nextpc = "attaching" => turns[t].made /\ turns[t].body = body)
    <3>1. /\ hidden \subseteq DOMAIN timeline /\ turns \in [TurnIds -> TurnRecords]
          /\ room \in [made : BOOLEAN, active : Nat, removed : BOOLEAN] /\ log \in Seq(EventRecords)
      BY <1>0 DEF InvParts, ConversationsTyped
    <3>2. Grows /\ StoryHolds'
      BY <1>0, <1>1, <2>1, StorySame, Growing DEF StoryVars, InvParts
    <3>3. ReplaysNamed'
      BY <1>0, <1>1, <2>1, NamedApart DEF InvParts, ReplaysNamed
    <3> QED BY <2>1, <3>1, <3>2, <3>3
  <2>2. CASE /\ ~turns[t].made /\ CanMap(body)
             /\ hidden' = hidden \cup RemovedBy(body)
             /\ turns' = [turns EXCEPT ![t] = [made |-> TRUE, body |-> body,
                    replay |-> IF body.regenerate THEN Max(OwnerWords(Kept(body))) ELSE 0]]
             /\ room' = [room EXCEPT !.made = TRUE]
             /\ log' = IF room.made THEN log ELSE ImportedView
    <3>1. body.keep <= Len(EditView(body)) /\ Editable(body) /\ (body.regenerate => OwnerWords(Kept(body)) # {})
      BY <2>2 DEF CanMap
    <3>2. /\ hidden \subseteq DOMAIN timeline /\ turns \in [TurnIds -> TurnRecords]
          /\ room \in [made : BOOLEAN, active : Nat, removed : BOOLEAN] /\ log \in Seq(EventRecords)
      BY <1>0 DEF InvParts, ConversationsTyped
    <3> DEFINE replay == IF body.regenerate THEN Max(OwnerWords(Kept(body))) ELSE 0
    <3>3. replay \in Nat /\ (replay # 0 => replay \in DOMAIN timeline /\ timeline[replay].role = "user")
      BY <1>0, <1>5, <3>1, ReplayIsOwners DEF InvParts
    <3>4. hidden' \subseteq DOMAIN timeline
      BY <1>0, <1>5, <2>2, <3>1, <3>2, RemovedAbove, VisibleFew DEF InvParts
    <3>5. turns'[t] = [made |-> TRUE, body |-> body, replay |-> replay] /\ \A x \in TurnIds : x # t => turns'[x] = turns[x]
      BY <1>5, <2>2, <3>2
    <3> HIDE DEF replay
    <3>6. turns' \in [TurnIds -> TurnRecords]
      <4>1. [made |-> TRUE, body |-> body, replay |-> replay] \in TurnRecords
        BY <1>5, <3>3 DEF TurnRecords
      <4>2. turns' = [turns EXCEPT ![t] = [made |-> TRUE, body |-> body, replay |-> replay]]
        BY <2>2 DEF replay
      <4> QED BY <3>2, <4>1, <4>2
    <3>7. room' \in [made : BOOLEAN, active : Nat, removed : BOOLEAN] /\ room'.active = room.active /\ room'.made = TRUE
      BY <2>2, <3>2
    <3>8. \A x \in TurnIds : turns[x].made => turns'[x].made /\ turns'[x].body = turns[x].body
      BY <2>2, <3>5
    <3>9. log' \in Seq(EventRecords) /\ EventsTrue' /\ EventsOrdered' /\ EventsThere' /\ Grows
      <4>1. CASE room.made
        <5>1. log' = log
          BY <2>2, <4>1
        <5>2. EventsTrue' /\ EventsOrdered' /\ EventsThere' /\ Grows
          BY <1>0, <1>1, <5>1, Growing DEF InvParts, StoryHolds, EventsTrue, EventsOrdered, EventsThere, Opens, Begins
        <5> QED BY <3>2, <5>1, <5>2
      <4>2. CASE ~room.made
        BY <1>0, <1>1, <2>2, <4>2, ImportTells DEF InvParts
      <4> QED BY <4>1, <4>2
    <3>10. RoomFirst' /\ SlotHeld'
      BY <1>0, <1>1, <3>7 DEF InvParts, StoryHolds, RoomFirst, SlotHeld
    <3>11. RunsNamed'
      <4>1. \A i \in DOMAIN rounds : rounds[i].id \in TurnIds
        <5> TAKE i \in DOMAIN rounds
        <5>1. rounds[i] \in RoundRecords
          BY <1>0 DEF InvParts, ConversationsTyped
        <5> QED BY <5>1 DEF RoundRecords
      <4> QED BY <1>0, <1>1, <3>8, <4>1 DEF InvParts, StoryHolds, RunsNamed
    <3>12. StepsStored'
      BY <1>0, <1>1 DEF InvParts, StoryHolds, StepsStored
    <3>13. AnswersVisible'
      BY <1>0, <1>1, <1>5, <2>2, <3>1, <3>7, EditKeepsQuestions DEF InvParts, StoryHolds
    <3>14. ReplaysNamed'
      BY <1>0, <1>1, <3>3, <3>5, NamedApart DEF InvParts, ReplaysNamed
    <3>15. StoryHolds'
      BY <3>9, <3>10, <3>11, <3>12, <3>13 DEF StoryHolds
    <3>16. turns'[t].made /\ turns'[t].body = body
      BY <3>5
    <3> QED BY <3>4, <3>6, <3>7, <3>8, <3>9, <3>14, <3>15, <3>16
  <2> QED BY <1>2, <1>3, <2>1, <2>2 DEF t, body
<1>8. ConversationsTyped'
  BY <1>0, <1>1, <1>4, <1>7 DEF InvParts, ConversationsTyped
<1>9. RequestsNamed'
  <2>1. ASSUME NEW x \in Clients, x # c PROVE RequestNamed(x)'
    BY <1>0, <1>4, <1>7, <2>1, NamedStays, NamedApart DEF InvParts
  <2>2. RequestNamed(c)'
    <3>1. asking'[c] # Calm
      BY <1>4 DEF Requests, Calm
    <3>2. answer = "told" => turns[t].made /\ turns[t].body = body /\ RunsOf(t) # {}
      BY <1>0, <1>3 DEF InvParts, RequestsNamed, t, body
    <3>3. answer = "told" => turns'[t].made /\ turns'[t].body = body /\ {i \in DOMAIN rounds' : rounds'[i].id = t} # {}
      BY <1>1, <1>5, <1>7, <3>2 DEF RunsOf
    <3> QED BY <1>3, <1>4, <1>7, <3>1, <3>3 DEF RequestNamed, RunsOf
  <2> QED BY <1>7, <2>1, <2>2, NamedJoined
<1>10. StreamKnows' /\ StreamTold'
  BY <1>0, <1>1, <1>7, <1>8, StreamStays DEF StoryHolds, InvParts
<1> QED BY <1>6, <1>7, <1>8, <1>9, <1>10, InvPrimed DEF InvParts

\* A list with one element more.
LEMMA OneMore ==
  ASSUME NEW T, NEW s \in Seq(T), NEW e \in T
  PROVE  /\ Append(s, e) \in Seq(T) /\ Len(s) \in Nat /\ Len(Append(s, e)) = Len(s) + 1
         /\ DOMAIN s = 1 .. Len(s) /\ DOMAIN Append(s, e) = 1 .. (Len(s) + 1)
         /\ \A k \in DOMAIN s : k \in DOMAIN Append(s, e) /\ Append(s, e)[k] = s[k] /\ k < Len(s) + 1
         /\ Append(s, e)[Len(s) + 1] = e /\ Len(s) + 1 \in DOMAIN Append(s, e) /\ Len(s) + 1 \notin DOMAIN s
         /\ \A k \in DOMAIN Append(s, e) : k \in DOMAIN s \/ k = Len(s) + 1
  OBVIOUS

EventTrue(k) ==
    /\ log[k].run = 0 => log[k].kind \in {"user_message", "message"} /\ log[k].step = 0 /\ log[k].message = k
                         /\ timeline[k].step = 0
    /\ log[k].run # 0 => log[k].run \in DOMAIN rounds /\ (log[k].step # 0 <=> log[k].kind \notin {"user_message"} \cup EndKinds)
    /\ log[k].step # 0 => log[k].step \in DOMAIN contributions /\ contributions[log[k].step].run = log[k].run
    /\ log[k].message \in 0 .. Len(timeline)
    /\ log[k].run # 0 /\ log[k].kind = "user_message" => log[k].message = rounds[log[k].run].message
    /\ log[k].kind \in AnswerKinds /\ log[k].step # 0 =>
         /\ log[k].message # 0 /\ log[k].message = contributions[log[k].step].message
    /\ log[k].kind \notin {"user_message"} \cup AnswerKinds => log[k].message = 0
    /\ log[k].kind \in EndKinds => rounds[log[k].run].status \in Over

\* The events are true one by one.
LEMMA EventsTrueApart == EventsTrue <=> \A k \in DOMAIN log : EventTrue(k)
  BY DEF EventsTrue, EventTrue

\* The events are true together when each is.
LEMMA EventsTrueJoined == ASSUME \A k \in DOMAIN log' : EventTrue(k)' PROVE EventsTrue'
  BY DEF EventsTrue, EventTrue

\* The stored history does not shrink.
LEMMA TimelineGrows == ASSUME ConversationsTyped, ConversationsTyped', Grows PROVE Len(timeline) <= Len(timeline') /\ Len(timeline) \in Nat /\ Len(timeline') \in Nat
<1>1. DOMAIN timeline = 1 .. Len(timeline) /\ Len(timeline) \in Nat /\ DOMAIN timeline' = 1 .. Len(timeline') /\ Len(timeline') \in Nat
  BY DEF ConversationsTyped
<1>2. Len(timeline) # 0 => Len(timeline) \in DOMAIN timeline'
  BY <1>1 DEF Grows
<1> QED BY <1>1, <1>2

\* An event that was told stays true.
LEMMA EventStaysTrue ==
  ASSUME ConversationsTyped, ConversationsTyped', Grows, NEW k \in DOMAIN log, EventTrue(k)
  PROVE  EventTrue(k)'
<1>1. log'[k] = log[k] /\ log[k] \in EventRecords /\ k \in DOMAIN log /\ DOMAIN log = 1 .. Len(log) /\ Len(log) \in Nat
  BY DEF Grows, ConversationsTyped
<1>2. log[k].message \in 0 .. Len(timeline')
  <2>1. log[k].message \in 0 .. Len(timeline)
    BY DEF EventTrue
  <2> QED BY <2>1, TimelineGrows
<1>3. log[k].run = 0 => k \in DOMAIN timeline
  <2>1. DOMAIN timeline = 1 .. Len(timeline) /\ Len(timeline) \in Nat
    BY DEF ConversationsTyped
  <2> QED BY <1>1, <2>1 DEF EventTrue
<1>4. log[k].run = 0 => timeline'[k].step = 0
  BY <1>3 DEF Grows, EventTrue
<1>5. log[k].run # 0 => log[k].run \in DOMAIN rounds /\ log[k].run \in DOMAIN rounds' /\ rounds'[log[k].run].message = rounds[log[k].run].message
                        /\ (rounds[log[k].run].status \in Over => rounds'[log[k].run].status \in Over)
  BY DEF Grows, EventTrue
<1>6. log[k].step # 0 => /\ log[k].step \in DOMAIN contributions' /\ contributions'[log[k].step].run = contributions[log[k].step].run
                         /\ (contributions[log[k].step].message # 0 => contributions'[log[k].step].message = contributions[log[k].step].message)
  BY DEF Grows, EventTrue
<1>7. log[k].kind \in EndKinds => log[k].run # 0
  BY DEF EventTrue, EndKinds
<1> QED BY <1>1, <1>2, <1>4, <1>5, <1>6, <1>7 DEF EventTrue, Over, EndKinds, AnswerKinds

\* One more event, in its place.
LEMMA EventAdded ==
  ASSUME ConversationsTyped, ConversationsTyped', EventsTrue, EventsOrdered, Grows,
         NEW e \in EventRecords, log' = Append(log, e), e.run # 0, \A k \in Nat : k = Len(log) + 1 => EventTrue(k)',
         \A k \in DOMAIN log : log[k].run = e.run => log[k].kind \notin EndKinds /\ e.kind # "user_message",
         \A k \in DOMAIN log : e.kind = "user_message" => log[k].run <= e.run,
         \A k \in DOMAIN log : e.kind = "speaker_started" => log[k].step # e.step
  PROVE  EventsTrue' /\ EventsOrdered'
<1> DEFINE n == Len(log) + 1
<1>1. log \in Seq(EventRecords)
  BY DEF ConversationsTyped
<1>2. /\ Len(log) \in Nat /\ DOMAIN log = 1 .. Len(log) /\ DOMAIN log' = 1 .. n /\ log'[n] = e
      /\ \A k \in DOMAIN log : k \in DOMAIN log' /\ log'[k] = log[k] /\ k < n
      /\ n \notin DOMAIN log /\ \A k \in DOMAIN log' : k \in DOMAIN log \/ k = n
  BY <1>1, OneMore
<1>3. EventsTrue'
  <2>1. \A k \in DOMAIN log : EventTrue(k)'
    BY EventStaysTrue, EventsTrueApart
  <2>2. \A k \in DOMAIN log' : EventTrue(k)'
    BY <1>2, <2>1
  <2> QED BY <2>2, EventsTrueJoined
<1> HIDE DEF n
<1>4. \A k, l \in DOMAIN log' : k < l => k \in DOMAIN log /\ (l \in DOMAIN log \/ l = n)
  <2> SUFFICES ASSUME NEW k \in DOMAIN log', NEW l \in DOMAIN log', k < l PROVE k \in DOMAIN log
    BY <1>2
  <2>1. k = n => ~(k < l)
    BY <1>2 DEF n
  <2> QED BY <1>2, <2>1
<1>5. EventsOrdered'
  <2>1. ASSUME NEW k \in DOMAIN log', NEW l \in DOMAIN log', k < l
        PROVE  /\ log'[k].run # 0 /\ log'[k].run = log'[l].run => log'[k].kind \notin EndKinds /\ log'[l].kind # "user_message"
               /\ log'[k].step # 0 /\ log'[k].step = log'[l].step => log'[l].kind # "speaker_started"
               /\ log'[k].kind = "user_message" /\ log'[l].kind = "user_message" => log'[k].run <= log'[l].run
               /\ log'[l].run = 0 => log'[k].run = 0
    <3>1. k \in DOMAIN log /\ log'[k] = log[k]
      BY <1>2, <1>4, <2>1
    <3>2. CASE l \in DOMAIN log
      <4>1. log'[l] = log[l]
        BY <1>2, <3>2
      <4> QED BY <2>1, <3>1, <3>2, <4>1 DEF EventsOrdered
    <3>3. CASE l = n
      BY <1>2, <3>1, <3>3
    <3> QED BY <1>4, <2>1, <3>2, <3>3
  <2> QED BY <2>1 DEF EventsOrdered, EndKinds
<1> QED BY <1>3, <1>5

\* What the log has of a run and of a contribution it goes on having.
LEMMA EventsStayThere ==
  ASSUME Grows, EventsThere
  PROVE  /\ \A i \in DOMAIN rounds : \E k \in DOMAIN log' : Opens(k, i)'
         /\ \A s \in DOMAIN contributions : \E k \in DOMAIN log' : Begins(k, s)'
         /\ \A s \in DOMAIN contributions : contributions[s].status = "succeeded" =>
              \E k \in DOMAIN log' : log'[k].kind \in AnswerKinds /\ log'[k].step = s
<1>1. ASSUME NEW i \in DOMAIN rounds PROVE \E k \in DOMAIN log' : Opens(k, i)'
  <2>1. PICK k \in DOMAIN log : Opens(k, i)
    BY DEF EventsThere
  <2>2. k \in DOMAIN log' /\ log'[k] = log[k]
    BY DEF Grows
  <2> QED BY <2>1, <2>2 DEF Opens
<1>2. ASSUME NEW s \in DOMAIN contributions PROVE \E k \in DOMAIN log' : Begins(k, s)'
  <2>1. PICK k \in DOMAIN log : Begins(k, s)
    BY DEF EventsThere
  <2>2. k \in DOMAIN log' /\ log'[k] = log[k]
    BY DEF Grows
  <2> QED BY <2>1, <2>2 DEF Begins
<1>3. ASSUME NEW s \in DOMAIN contributions, contributions[s].status = "succeeded"
      PROVE  \E k \in DOMAIN log' : log'[k].kind \in AnswerKinds /\ log'[k].step = s
  <2>1. PICK k \in DOMAIN log : log[k].kind \in AnswerKinds /\ log[k].step = s
    BY <1>3 DEF EventsThere
  <2>2. k \in DOMAIN log' /\ log'[k] = log[k]
    BY DEF Grows
  <2> QED BY <2>1, <2>2
<1> QED BY <1>1, <1>2, <1>3

\* What is visible and already stored.
LEMMA VisibleStays ==
  ASSUME Grows, hidden' = hidden
  PROVE  /\ VisibleIds \subseteq VisibleIds'
         /\ \A n \in DOMAIN timeline : n \in VisibleIds' => n \in VisibleIds
  BY DEF Grows, VisibleIds

\* The run, the owner's message and the event of an admission.
AdmitsAs(t, body, replay) ==
  LET run == Len(rounds) + 1
      message == IF replay = 0 THEN Len(timeline) + 1 ELSE replay
  IN /\ timeline' = IF replay = 0 THEN Append(timeline, Message("user", FALSE, 0)) ELSE timeline
     /\ rounds' = Append(rounds,
          [id |-> t, body |-> body, message |-> message, replayed |-> replay # 0, straight |-> room.active = 0,
           status |-> IF room.active = 0 THEN "running" ELSE "waiting_room"])
     /\ room' = IF room.active = 0 THEN [room EXCEPT !.active = run] ELSE room
     /\ log' = Append(log, Event("user_message", run, 0, message))
     /\ UNCHANGED <<hidden, turns, contributions>>

\* An admission appends one run, one event and, unless it answers again, one message.
LEMMA AdmittedStory ==
  ASSUME ConversationsTyped, StoryHolds, NEW t \in TurnIds, NEW body \in Bodies, NEW replay \in Nat,
         turns[t].made, turns[t].body = body, RunsOf(t) = {}, replay \notin hidden,
         replay # 0 => replay \in DOMAIN timeline /\ timeline[replay].role = "user",
         AdmitsAs(t, body, replay), UNCHANGED <<files, watch>>, asking' \in [Clients -> RequestRecords]
  PROVE  ConversationsTyped' /\ StoryHolds' /\ Grows /\ RunsOf(t)' # {}
<1> DEFINE run == Len(rounds) + 1
           message == IF replay = 0 THEN Len(timeline) + 1 ELSE replay
           words == Message("user", FALSE, 0)
           made == [id |-> t, body |-> body, message |-> message, replayed |-> replay # 0, straight |-> room.active = 0,
                    status |-> IF room.active = 0 THEN "running" ELSE "waiting_room"]
           told == Event("user_message", run, 0, message)
<1>1. /\ timeline \in Seq([role : {"user", "assistant"}, seed : BOOLEAN, step : Nat]) /\ rounds \in Seq(RoundRecords)
      /\ log \in Seq(EventRecords) /\ room \in [made : BOOLEAN, active : Nat, removed : BOOLEAN]
      /\ hidden \subseteq DOMAIN timeline
  BY DEF ConversationsTyped
<1>2. /\ timeline' = IF replay = 0 THEN Append(timeline, words) ELSE timeline
      /\ rounds' = Append(rounds, made)
      /\ room' = IF room.active = 0 THEN [room EXCEPT !.active = run] ELSE room
      /\ log' = Append(log, told)
      /\ hidden' = hidden /\ turns' = turns /\ contributions' = contributions
  BY DEF AdmitsAs
<1>3. Len(timeline) \in Nat /\ DOMAIN timeline = 1 .. Len(timeline) /\ Len(rounds) \in Nat /\ Len(log) \in Nat
  BY <1>1
<1>4. message \in Nat \ {0} /\ run \in Nat \ {0}
  BY <1>3
<1>5. words \in [role : {"user", "assistant"}, seed : BOOLEAN, step : Nat] /\ words.role = "user" /\ words.step = 0 /\ ~words.seed
  BY DEF Message
<1>6. /\ made \in RoundRecords /\ made.id = t /\ made.body = body /\ made.message = message
      /\ (made.replayed <=> replay # 0) /\ (made.straight <=> room.active = 0)
      /\ made.status = IF room.active = 0 THEN "running" ELSE "waiting_room"
  BY <1>4 DEF RoundRecords, RoundStatuses
<1>7. /\ told \in EventRecords /\ told.kind = "user_message" /\ told.run = run /\ told.step = 0 /\ told.message = message
  BY <1>4 DEF EventRecords, Event
<1> HIDE DEF words, made, told
<1>8. /\ timeline' \in Seq([role : {"user", "assistant"}, seed : BOOLEAN, step : Nat])
      /\ \A n \in DOMAIN timeline : n \in DOMAIN timeline' /\ timeline'[n] = timeline[n]
      /\ message \in DOMAIN timeline' /\ timeline'[message].role = "user"
      /\ \A n \in DOMAIN timeline' : n \in DOMAIN timeline \/ (timeline'[n] = words /\ n = message)
      /\ message \notin hidden
      /\ Len(timeline') \in Nat /\ DOMAIN timeline' = 1 .. Len(timeline')
  <2>1. CASE replay = 0
    <3>1. timeline' = Append(timeline, words) /\ message = Len(timeline) + 1
      BY <1>2, <2>1
    <3>2. message \notin DOMAIN timeline
      BY <1>3, <3>1
    <3> HIDE DEF message
    <3>3. timeline' \in Seq([role : {"user", "assistant"}, seed : BOOLEAN, step : Nat]) /\ Len(timeline') = Len(timeline) + 1
          /\ \A n \in DOMAIN timeline : n \in DOMAIN timeline' /\ timeline'[n] = timeline[n]
      BY <1>1, <1>5, <3>1, OneMore
    <3>4. message \in DOMAIN timeline' /\ timeline'[message] = words
          /\ \A n \in DOMAIN timeline' : n \in DOMAIN timeline \/ n = message
      BY <1>1, <1>5, <3>1, OneMore
    <3> QED BY <1>1, <1>5, <3>2, <3>3, <3>4
  <2>2. CASE replay # 0
    BY <1>1, <1>2, <1>3, <2>2
  <2> QED BY <2>1, <2>2
<1>9. /\ rounds' \in Seq(RoundRecords) /\ DOMAIN rounds = 1 .. Len(rounds)
      /\ \A i \in DOMAIN rounds : i \in DOMAIN rounds' /\ rounds'[i] = rounds[i] /\ i < run
      /\ rounds'[run] = made /\ run \in DOMAIN rounds' /\ run \notin DOMAIN rounds
      /\ \A i \in DOMAIN rounds' : i \in DOMAIN rounds \/ i = run
      /\ Len(rounds') = run
  BY <1>1, <1>2, <1>6, OneMore
<1>10. /\ log' \in Seq(EventRecords) /\ DOMAIN log = 1 .. Len(log)
       /\ \A k \in DOMAIN log : k \in DOMAIN log' /\ log'[k] = log[k]
       /\ log'[Len(log) + 1] = told /\ Len(log) + 1 \in DOMAIN log'
  BY <1>1, <1>2, <1>7, OneMore
<1>11. /\ room' \in [made : BOOLEAN, active : Nat, removed : BOOLEAN] /\ room'.made = room.made
       /\ room'.active = IF room.active = 0 THEN run ELSE room.active
  BY <1>1, <1>2, <1>4
<1> HIDE DEF run, message
<1>12. Grows
  BY <1>2, <1>8, <1>9, <1>10 DEF Grows
<1>13. ConversationsTyped'
  <2>1. hidden' \subseteq DOMAIN timeline'
    BY <1>1, <1>2, <1>8
  <2> QED BY <1>2, <1>8, <1>9, <1>10, <1>11, <2>1 DEF ConversationsTyped
<1>14. RoomFirst'
  BY <1>11 DEF StoryHolds, RoomFirst
<1>15. SlotHeld'
  <2>1. room.active \in 0 .. Len(rounds) /\ \A i \in DOMAIN rounds : rounds[i].status = "running" <=> room.active = i
    BY DEF StoryHolds, SlotHeld
  <2>2. room'.active \in 0 .. Len(rounds')
    BY <1>3, <1>4, <1>9, <1>11, <2>1 DEF run
  <2>3. \A i \in DOMAIN rounds : i # 0 /\ i # run
    BY <1>9
  <2>4. \A i \in DOMAIN rounds : rounds'[i].status = "running" <=> room'.active = i
    BY <1>9, <1>11, <2>1, <2>3
  <2>5. rounds'[run].status = "running" <=> room'.active = run
    <3>1. room.active # run
      BY <1>3, <2>1 DEF run
    <3> QED BY <1>6, <1>9, <1>11, <3>1
  <2>6. \A i \in DOMAIN rounds' : rounds'[i].status = "running" <=> room'.active = i
    BY <1>9, <2>4, <2>5
  <2>7. \A i \in DOMAIN rounds : rounds[i].status = "waiting_room" => ~rounds[i].straight
    BY DEF StoryHolds, SlotHeld
  <2>8. \A i \in DOMAIN rounds' : rounds'[i].status = "waiting_room" => ~rounds'[i].straight
    BY <1>6, <1>9, <2>7
  <2> QED BY <2>2, <2>6, <2>8 DEF SlotHeld
<1>16. RunsNamed'
  <2>0. RunsNamed
    BY DEF StoryHolds
  <2>1. \A i \in DOMAIN rounds' : /\ turns'[rounds'[i].id].made /\ rounds'[i].body = turns'[rounds'[i].id].body
                                  /\ rounds'[i].message \in DOMAIN timeline' /\ timeline'[rounds'[i].message].role = "user"
    <3> TAKE i \in DOMAIN rounds'
    <3>1. CASE i \in DOMAIN rounds
      BY <1>2, <1>8, <1>9, <2>0, <3>1 DEF RunsNamed
    <3>2. CASE i = run
      BY <1>2, <1>6, <1>8, <1>9, <3>2
    <3> QED BY <1>9, <3>1, <3>2
  <2>2. \A i, j \in DOMAIN rounds' : rounds'[i].id = rounds'[j].id => i = j
    <3>1. \A i \in DOMAIN rounds : rounds[i].id # t
      BY DEF RunsOf
    <3>2. \A i \in DOMAIN rounds : rounds'[i].id # rounds'[run].id /\ rounds'[i].id = rounds[i].id
      BY <1>6, <1>9, <3>1
    <3> QED BY <1>9, <2>0, <3>2 DEF RunsNamed
  <2>3. ASSUME NEW i \in DOMAIN rounds', NEW j \in DOMAIN rounds', i < j, ~rounds'[j].replayed
        PROVE  rounds'[i].message < rounds'[j].message
    <3>1. CASE j \in DOMAIN rounds
      <4>1. i \in DOMAIN rounds
        BY <1>3, <1>9, <2>3, <3>1 DEF run
      <4> QED BY <1>9, <2>0, <2>3, <3>1, <4>1 DEF RunsNamed
    <3>2. CASE j = run
      <4>1. i \in DOMAIN rounds
        BY <1>3, <1>9, <2>3, <3>2 DEF run
      <4>2. rounds'[i].message \in DOMAIN timeline
        BY <1>9, <2>0, <4>1 DEF RunsNamed
      <4>3. rounds'[j].message = Len(timeline) + 1
        BY <1>6, <1>9, <2>3, <3>2 DEF message
      <4> QED BY <1>3, <4>2, <4>3
    <3> QED BY <1>9, <3>1, <3>2
  <2> QED BY <2>1, <2>2, <2>3 DEF RunsNamed
<1>17. StepsStored'
  <2>0. StepsStored
    BY DEF StoryHolds
  <2>1. \A n \in DOMAIN timeline' :
          /\ timeline'[n].seed => timeline'[n].role = "user"
          /\ timeline'[n].role = "user" => timeline'[n].step = 0
          /\ timeline'[n].step # 0 => timeline'[n].step \in DOMAIN contributions' /\ contributions'[timeline'[n].step].message = n
    <3> TAKE n \in DOMAIN timeline'
    <3>1. CASE n \in DOMAIN timeline
      BY <1>2, <1>8, <2>0, <3>1 DEF StepsStored
    <3>2. CASE timeline'[n] = words
      BY <1>5, <3>2
    <3> QED BY <1>8, <3>1, <3>2
  <2>2. \A s \in DOMAIN contributions : contributions[s].message # 0 =>
          rounds'[contributions[s].run].message < contributions[s].message
    BY <1>9, <2>0 DEF StepsStored
  <2> QED BY <1>2, <1>8, <1>9, <2>0, <2>1, <2>2 DEF StepsStored
<1>18. EventsTrue' /\ EventsOrdered'
  <2>0. EventsTrue /\ EventsOrdered
    BY DEF StoryHolds
  <2>1. \A k \in DOMAIN log : log[k].run \in 0 .. Len(rounds)
    <3> TAKE k \in DOMAIN log
    <3>1. log[k].run = 0 \/ log[k].run \in DOMAIN rounds
      BY <2>0 DEF EventsTrue
    <3> QED BY <1>3, <1>9, <3>1
  <2>2. \A k \in DOMAIN log : log[k].run # run /\ log[k].run <= run
    BY <1>3, <2>1 DEF run
  <2>3. ASSUME NEW k \in Nat, k = Len(log) + 1 PROVE EventTrue(k)'
    <3>1. log'[k] = told
      BY <1>10, <2>3
    <3>2. message \in 0 .. Len(timeline')
      BY <1>8
    <3> QED BY <1>4, <1>6, <1>7, <1>9, <3>1, <3>2 DEF EventTrue, EndKinds, AnswerKinds
  <2> QED BY <1>2, <1>4, <1>7, <1>12, <1>13, <2>0, <2>2, <2>3, EventAdded
<1>19. EventsThere'
  <2>1. \A i \in DOMAIN rounds' : \E k \in DOMAIN log' : Opens(k, i)'
    <3> TAKE i \in DOMAIN rounds'
    <3>1. CASE i \in DOMAIN rounds
      BY <1>12, <3>1, EventsStayThere DEF StoryHolds
    <3>2. CASE i = run
      <4>1. \A k : k = Len(log) + 1 => Opens(k, i)'
        BY <1>7, <1>10, <3>2 DEF Opens
      <4> QED BY <1>10, <4>1
    <3> QED BY <1>9, <3>1, <3>2
  <2>2. \A s \in DOMAIN contributions' :
          /\ \E k \in DOMAIN log' : Begins(k, s)'
          /\ contributions'[s].status = "succeeded" => \E k \in DOMAIN log' : log'[k].kind \in AnswerKinds /\ log'[k].step = s
    BY <1>2, <1>12, EventsStayThere DEF StoryHolds
  <2> QED BY <2>1, <2>2 DEF EventsThere, Opens, Begins, AnswerKinds
<1>20. AnswersVisible'
  <2>0. AnswersVisible /\ StepsStored /\ RunsNamed /\ SlotHeld
    BY DEF StoryHolds
  <2>1. VisibleIds \subseteq VisibleIds' /\ \A n \in DOMAIN timeline : n \in VisibleIds' => n \in VisibleIds
    BY <1>2, <1>12, VisibleStays
  <2>2. ASSUME NEW s \in DOMAIN contributions, contributions[s].message \in VisibleIds', rounds'[contributions[s].run].straight
        PROVE  rounds'[contributions[s].run].message \in VisibleIds'
    <3>1. contributions[s].run \in DOMAIN rounds
      BY <2>0 DEF StepsStored
    <3>2. contributions[s].message # 0
      BY <1>8, <2>2 DEF VisibleIds
    <3>3. contributions[s].message \in DOMAIN timeline
      BY <2>0, <3>2 DEF StepsStored
    <3> QED BY <1>9, <2>0, <2>1, <2>2, <3>1, <3>3 DEF AnswersVisible
  <2>3. ASSUME room'.active # 0, rounds'[room'.active].straight PROVE rounds'[room'.active].message \in VisibleIds'
    <3>1. CASE room.active = 0
      BY <1>2, <1>6, <1>8, <1>9, <1>11, <3>1 DEF VisibleIds
    <3>2. CASE room.active # 0
      <4>1. room.active \in DOMAIN rounds
        BY <1>3, <1>9, <2>0, <3>2 DEF SlotHeld
      <4> QED BY <1>9, <1>11, <2>0, <2>1, <2>3, <3>2, <4>1 DEF AnswersVisible
    <3> QED BY <3>1, <3>2
  <2> QED BY <1>2, <2>2, <2>3 DEF AnswersVisible
<1>21. RunsOf(t)' # {}
  BY <1>6, <1>9 DEF RunsOf
<1> QED BY <1>12, <1>13, <1>14, <1>15, <1>16, <1>17, <1>18, <1>19, <1>20, <1>21 DEF StoryHolds

\* The run, the owner's message and the event together, once for a request.
LEMMA ClientAdmitsKeeps ==
  ASSUME ConversationsInv, NEW c \in Clients, ClientAdmits(c) PROVE ConversationsInv'
<1>0. InvParts
  BY InvIs DEF InvParts
<1> DEFINE t == asking[c].id
           body == asking[c].body
           replay == turns[t].replay
<1>1. /\ hidden' = hidden /\ turns' = turns /\ contributions' = contributions /\ files' = files /\ watch' = watch
      /\ asking[c].pc = "admitting"
  BY DEF ClientAdmits
<1>2. \/ Duplicate(t) /\ Answer(c, "told") /\ UNCHANGED StoryVars
      \/ Answer(c, "refused") /\ UNCHANGED StoryVars
      \/ ~Duplicate(t) /\ Replayable(replay) /\ Answer(c, "told") /\ AdmitsAs(t, body, replay)
  BY <1>1 DEF ClientAdmits, AdmitsAs, StoryVars
<1>3. PICK answer \in {"none", "told", "refused"} :
        /\ Answer(c, answer)
        /\ \/ answer = "told" /\ Duplicate(t) /\ UNCHANGED StoryVars
           \/ answer = "refused" /\ UNCHANGED StoryVars
           \/ answer = "told" /\ ~Duplicate(t) /\ Replayable(replay) /\ AdmitsAs(t, body, replay)
  <2>1. "told" \in {"none", "told", "refused"} /\ "refused" \in {"none", "told", "refused"}
    OBVIOUS
  <2> HIDE DEF t, body, replay
  <2> QED BY Zenon, <1>2, <2>1
<1>4. /\ asking[c] \in Requests
      /\ asking' \in [Clients -> RequestRecords]
      /\ asking'[c] \in Requests /\ asking'[c].pc = "idle" /\ asking'[c].answer = answer
      /\ asking'[c].id = t /\ asking'[c].body = body
      /\ \A x \in Clients : x # c => asking'[x] = asking[x]
  BY <1>0, <1>1, <1>3, RequestMoves DEF InvParts, Answer
<1>5. t \in TurnIds /\ body \in Bodies
  BY <1>4 DEF Requests
<1>6. turns[t].made /\ turns[t].body = body
  BY <1>0, <1>1 DEF InvParts, RequestsNamed
<1>7. /\ replay \in Nat /\ (replay # 0 => replay \in DOMAIN timeline /\ timeline[replay].role = "user")
  <2>1. turns[t] \in TurnRecords
    BY <1>0, <1>5 DEF InvParts, ConversationsTyped
  <2>2. replay \in Nat
    <3>1. \A x \in TurnRecords : x.replay \in Nat
      <4> TAKE x \in TurnRecords
      <4>1. CASE x = NoTurn
        BY <4>1 DEF NoTurn
      <4>2. CASE x \in [made : {TRUE}, body : Bodies, replay : Nat]
        BY <4>2
      <4> QED BY <4>1, <4>2 DEF TurnRecords
    <3> QED BY <2>1, <3>1
  <2> QED BY <1>0, <1>5, <2>2 DEF InvParts, RequestsNamed
<1>7a. replay \notin hidden \/ ~Replayable(replay)
  <2>1. 0 \notin hidden
    BY <1>0 DEF InvParts, ConversationsTyped
  <2> QED BY <2>1 DEF Replayable
<1> HIDE DEF t, body, replay
<1>8. ConversationsTyped' /\ StoryHolds' /\ Grows /\ (answer = "told" => {i \in DOMAIN rounds' : rounds'[i].id = t} # {})
      /\ ReplaysNamed'
  <2>1. CASE UNCHANGED StoryVars /\ (answer = "told" => Duplicate(t))
    <3>1. /\ timeline' = timeline /\ room' = room /\ rounds' = rounds /\ log' = log
      BY <2>1 DEF StoryVars
    <3>2. ConversationsTyped'
      BY <1>0, <1>1, <1>4, <3>1 DEF InvParts, ConversationsTyped
    <3>3. Grows /\ StoryHolds'
      BY <1>0, <1>1, <2>1, <3>1, StorySame, Growing DEF InvParts
    <3>4. ReplaysNamed'
      BY <1>0, <1>1, <3>1, NamedApart DEF InvParts, ReplaysNamed
    <3>5. answer = "told" => {i \in DOMAIN rounds' : rounds'[i].id = t} # {}
      BY <2>1, <3>1 DEF Duplicate, RunsOf
    <3> QED BY <3>2, <3>3, <3>4, <3>5
  <2>2. CASE ~Duplicate(t) /\ Replayable(replay) /\ AdmitsAs(t, body, replay)
    <3>1. RunsOf(t) = {} /\ replay \notin hidden
      BY <1>7a, <2>2 DEF Duplicate
    <3>2. ConversationsTyped /\ StoryHolds
      BY <1>0 DEF InvParts
    <3>3. ASSUME NEW u, u = t, NEW b, b = body, NEW r, r = replay
          PROVE  ConversationsTyped' /\ StoryHolds' /\ Grows /\ RunsOf(u)' # {}
      BY <1>1, <1>4, <1>5, <1>6, <1>7, <2>2, <3>1, <3>2, <3>3, AdmittedStory
    <3>4. ConversationsTyped' /\ StoryHolds' /\ Grows /\ {i \in DOMAIN rounds' : rounds'[i].id = t} # {}
      BY <3>3 DEF RunsOf
    <3>5. ReplaysNamed'
      BY <1>0, <1>1, <3>4, NamedApart DEF InvParts, ReplaysNamed, Grows
    <3> QED BY <3>4, <3>5
  <2> QED BY <1>3, <2>1, <2>2
<1>9. AttachedOnce' /\ AttachedFew'
  BY <1>0, <1>1 DEF InvParts, AttachedOnce, AttachedFew, Stored
<1>10. RequestsNamed'
  <2>1. ASSUME NEW x \in Clients, x # c PROVE RequestNamed(x)'
    BY <1>0, <1>1, <1>4, <1>8, <2>1, NamedStays, NamedApart DEF InvParts
  <2>2. RequestNamed(c)'
    BY <1>1, <1>4, <1>6, <1>8 DEF RequestNamed, RunsOf
  <2> QED BY <1>8, <2>1, <2>2, NamedJoined
<1>11. StreamKnows' /\ StreamTold'
  BY <1>0, <1>1, <1>8, StreamStays DEF StoryHolds, InvParts
<1> QED BY <1>8, <1>9, <1>10, <1>11, InvPrimed DEF InvParts

-----------------------------------------------------------------------------
(* The steps of the round. *)

\* A step of the round leaves the clients and the stream alone.
LEMMA RoundMoves ==
  ASSUME ConversationsInv, UNCHANGED <<hidden, turns, asking, files, watch>>, ConversationsTyped', StoryHolds', Grows
  PROVE  ConversationsInv'
<1>0. InvParts
  BY InvIs DEF InvParts
<1>1. hidden' = hidden /\ turns' = turns /\ asking' = asking /\ files' = files /\ watch' = watch
  OBVIOUS
<1>2. AttachedOnce' /\ AttachedFew'
  BY <1>0, <1>1 DEF InvParts, AttachedOnce, AttachedFew, Stored
<1>3. StreamKnows' /\ StreamTold'
  BY <1>0, <1>1, StreamStays DEF StoryHolds, InvParts
<1>4. RequestsNamed'
  <2>1. \A x \in Clients : RequestNamed(x)'
    BY <1>0, <1>1, NamedStays, NamedApart DEF InvParts
  <2>2. ReplaysNamed'
    BY <1>0, <1>1, NamedApart DEF InvParts, ReplaysNamed, Grows
  <2> QED BY <2>1, <2>2, NamedJoined
<1> QED BY <1>2, <1>3, <1>4, InvPrimed DEF InvParts

\* One run changes its status, and only that.
LEMMA StatusMoves ==
  ASSUME ConversationsTyped, StoryHolds, NEW i \in DOMAIN rounds, NEW st \in RoundStatuses, rounds[i].status \notin Over,
         rounds' = [rounds EXCEPT ![i].status = st], UNCHANGED <<timeline, turns, contributions>>,
         \A k \in DOMAIN log : k \in DOMAIN log' /\ log'[k] = log[k]
  PROVE  /\ rounds' \in Seq(RoundRecords) /\ DOMAIN rounds' = DOMAIN rounds /\ Len(rounds') = Len(rounds)
         /\ rounds'[i].status = st
         /\ \A j \in DOMAIN rounds : j # i => rounds'[j] = rounds[j]
         /\ \A j \in DOMAIN rounds : /\ rounds'[j].id = rounds[j].id /\ rounds'[j].body = rounds[j].body
                                     /\ rounds'[j].message = rounds[j].message /\ rounds'[j].replayed = rounds[j].replayed
                                     /\ rounds'[j].straight = rounds[j].straight
         /\ Grows /\ RunsNamed' /\ StepsStored' /\ room.made
<1>1. rounds \in Seq(RoundRecords) /\ rounds[i] \in RoundRecords
  BY DEF ConversationsTyped
<1>2. /\ DOMAIN rounds' = DOMAIN rounds /\ rounds'[i] = [rounds[i] EXCEPT !.status = st]
      /\ \A j \in DOMAIN rounds : j # i => rounds'[j] = rounds[j]
  BY <1>1
<1>3. /\ rounds'[i] \in RoundRecords /\ rounds'[i].status = st /\ rounds'[i].id = rounds[i].id /\ rounds'[i].body = rounds[i].body
      /\ rounds'[i].message = rounds[i].message /\ rounds'[i].replayed = rounds[i].replayed /\ rounds'[i].straight = rounds[i].straight
  BY <1>1, <1>2 DEF RoundRecords
<1>4. rounds' \in Seq(RoundRecords) /\ Len(rounds') = Len(rounds)
  <2>1. rounds' = [rounds EXCEPT ![i] = rounds'[i]]
    BY <1>1, <1>2
  <2> QED BY <1>1, <1>3, <2>1
<1>5. \A j \in DOMAIN rounds : /\ rounds'[j].id = rounds[j].id /\ rounds'[j].body = rounds[j].body
                               /\ rounds'[j].message = rounds[j].message /\ rounds'[j].replayed = rounds[j].replayed
                               /\ rounds'[j].straight = rounds[j].straight
  BY <1>2, <1>3
<1>6. \A j \in DOMAIN rounds : rounds[j].status \in Over => rounds'[j].status \in Over
  BY <1>2 DEF Over
<1>7. Grows
  BY <1>2, <1>5, <1>6 DEF Grows
<1>8. RunsNamed'
  BY <1>2, <1>5 DEF StoryHolds, RunsNamed
<1>9. StepsStored'
  <2>1. \A s \in DOMAIN contributions : contributions[s].run \in DOMAIN rounds
    BY DEF StoryHolds, StepsStored
  <2> QED BY <1>2, <1>5, <2>1 DEF StoryHolds, StepsStored
<1>10. room.made
  <2>1. rounds # <<>>
    BY <1>1
  <2> QED BY <2>1 DEF StoryHolds, RoomFirst
<1> QED BY <1>2, <1>3, <1>4, <1>5, <1>7, <1>8, <1>9, <1>10

\* The oldest waiting run takes the slot; it was not admitted to a free one.
LEMMA RoundAdvancesKeeps == ASSUME ConversationsInv, RoundAdvances PROVE ConversationsInv'
<1>0. ConversationsTyped /\ StoryHolds
  BY InvIs
<1> DEFINE W == {i \in DOMAIN rounds : rounds[i].status = "waiting_room"}
           m == Min(W)
<1>1. /\ room.active = 0 /\ W # {} /\ room' = [room EXCEPT !.active = m]
      /\ rounds' = [rounds EXCEPT ![m].status = "running"]
      /\ timeline' = timeline /\ hidden' = hidden /\ turns' = turns /\ log' = log /\ contributions' = contributions
      /\ asking' = asking /\ files' = files /\ watch' = watch
  BY DEF RoundAdvances
<1>2. Len(rounds) \in Nat /\ DOMAIN rounds = 1 .. Len(rounds)
  BY <1>0 DEF ConversationsTyped
<1>3. m \in W
  <2>1. W \in SUBSET (1 .. Len(rounds))
    BY <1>2
  <2> HIDE DEF W
  <2>2. IsFiniteSet(W) /\ W \in SUBSET Nat
    BY <1>2, <2>1, FewNumbers
  <2> QED BY <1>1, <2>2, AscendingEnds
<1> HIDE DEF m
<1>4. m \in DOMAIN rounds /\ rounds[m].status = "waiting_room" /\ m # 0 /\ m \in Nat
  BY <1>2, <1>3
<1>5. rounds[m].status \notin Over /\ "running" \in RoundStatuses
  BY <1>4 DEF Over, RoundStatuses
<1>6. /\ rounds' \in Seq(RoundRecords) /\ DOMAIN rounds' = DOMAIN rounds /\ Len(rounds') = Len(rounds)
      /\ rounds'[m].status = "running"
      /\ \A j \in DOMAIN rounds : j # m => rounds'[j] = rounds[j]
      /\ \A j \in DOMAIN rounds : rounds'[j].message = rounds[j].message /\ rounds'[j].straight = rounds[j].straight
      /\ Grows /\ RunsNamed' /\ StepsStored' /\ room.made
  BY <1>0, <1>1, <1>4, <1>5, StatusMoves
<1>7. room' \in [made : BOOLEAN, active : Nat, removed : BOOLEAN] /\ room'.made = room.made /\ room'.active = m
  BY <1>0, <1>1, <1>4 DEF ConversationsTyped
<1>8. ConversationsTyped'
  BY <1>0, <1>1, <1>6, <1>7 DEF ConversationsTyped
<1>9. RoomFirst'
  BY <1>6, <1>7 DEF RoomFirst
<1>10. SlotHeld'
  BY <1>0, <1>1, <1>2, <1>4, <1>6, <1>7 DEF StoryHolds, SlotHeld
<1>11. EventsTrue'
  <2>1. \A k \in DOMAIN log' : EventTrue(k)'
    BY <1>0, <1>1, <1>6, <1>8, EventStaysTrue, EventsTrueApart DEF StoryHolds
  <2> QED BY <2>1, EventsTrueJoined
<1>12. EventsOrdered'
  BY <1>0, <1>1 DEF StoryHolds, EventsOrdered
<1>13. EventsThere'
  BY <1>0, <1>1, <1>6 DEF StoryHolds, EventsThere, Opens, Begins
<1>14. AnswersVisible'
  <2>1. VisibleIds' = VisibleIds
    BY <1>1 DEF VisibleIds
  <2>2. \A s \in DOMAIN contributions : contributions[s].run \in DOMAIN rounds
    BY <1>0 DEF StoryHolds, StepsStored
  <2>3. ~rounds'[m].straight
    BY <1>0, <1>4, <1>6 DEF StoryHolds, SlotHeld
  <2> QED BY <1>0, <1>1, <1>6, <1>7, <2>1, <2>2, <2>3 DEF StoryHolds, AnswersVisible
<1>15. StoryHolds'
  BY <1>6, <1>9, <1>10, <1>11, <1>12, <1>13, <1>14 DEF StoryHolds
<1> QED BY <1>1, <1>6, <1>8, <1>15, RoundMoves

\* A run that never began is cancelled.
LEMMA WaitingCancelledKeeps == ASSUME ConversationsInv, NEW i \in DOMAIN rounds, WaitingCancelled(i) PROVE ConversationsInv'
<1>0. ConversationsTyped /\ StoryHolds
  BY InvIs
<1>1. /\ rounds[i].status = "waiting_room" /\ rounds' = [rounds EXCEPT ![i].status = "cancelled"]
      /\ timeline' = timeline /\ hidden' = hidden /\ turns' = turns /\ log' = log /\ contributions' = contributions
      /\ asking' = asking /\ files' = files /\ watch' = watch /\ room' = room
  BY DEF WaitingCancelled
<1>2. rounds[i].status \notin Over /\ "cancelled" \in RoundStatuses
  BY <1>1 DEF Over, RoundStatuses
<1>3. /\ rounds' \in Seq(RoundRecords) /\ DOMAIN rounds' = DOMAIN rounds /\ Len(rounds') = Len(rounds)
      /\ rounds'[i].status = "cancelled"
      /\ \A j \in DOMAIN rounds : j # i => rounds'[j] = rounds[j]
      /\ \A j \in DOMAIN rounds : rounds'[j].message = rounds[j].message /\ rounds'[j].straight = rounds[j].straight
      /\ Grows /\ RunsNamed' /\ StepsStored' /\ room.made
  BY <1>0, <1>1, <1>2, StatusMoves
<1>4. ConversationsTyped'
  BY <1>0, <1>1, <1>3 DEF ConversationsTyped
<1>5. RoomFirst'
  BY <1>1, <1>3 DEF RoomFirst
<1>6. SlotHeld'
  <2>1. room.active # i
    BY <1>0, <1>1 DEF StoryHolds, SlotHeld
  <2> QED BY <1>0, <1>1, <1>3, <2>1 DEF StoryHolds, SlotHeld
<1>7. EventsTrue'
  <2>1. \A k \in DOMAIN log' : EventTrue(k)'
    BY <1>0, <1>1, <1>3, <1>4, EventStaysTrue, EventsTrueApart DEF StoryHolds
  <2> QED BY <2>1, EventsTrueJoined
<1>8. EventsOrdered'
  BY <1>0, <1>1 DEF StoryHolds, EventsOrdered
<1>9. EventsThere'
  BY <1>0, <1>1, <1>3 DEF StoryHolds, EventsThere, Opens, Begins
<1>10. AnswersVisible'
  <2>1. VisibleIds' = VisibleIds
    BY <1>1 DEF VisibleIds
  <2>2. \A s \in DOMAIN contributions : contributions[s].run \in DOMAIN rounds
    BY <1>0 DEF StoryHolds, StepsStored
  <2>3. room.active # 0 => room.active \in DOMAIN rounds
    BY <1>0 DEF StoryHolds, SlotHeld, ConversationsTyped
  <2> QED BY <1>0, <1>1, <1>3, <2>1, <2>2, <2>3 DEF StoryHolds, AnswersVisible
<1>11. StoryHolds'
  BY <1>3, <1>5, <1>6, <1>7, <1>8, <1>9, <1>10 DEF StoryHolds
<1> QED BY <1>1, <1>3, <1>4, <1>11, RoundMoves

\* A run ends, frees the slot and says so.
LEMMA RoundSettlesKeeps ==
  ASSUME ConversationsInv, NEW i \in DOMAIN rounds, NEW status \in Over, RoundSettles(i, status) PROVE ConversationsInv'
<1>0. ConversationsTyped /\ StoryHolds
  BY InvIs
<1> DEFINE e == Event(IF status \in {"succeeded", "partial"} THEN "round_finished" ELSE "run_stopped", i, 0, 0)
<1>1. /\ rounds[i].status = "running" /\ rounds' = [rounds EXCEPT ![i].status = status]
      /\ room' = [room EXCEPT !.active = IF @ = i THEN 0 ELSE @]
      /\ log' = Append(log, e)
      /\ timeline' = timeline /\ hidden' = hidden /\ turns' = turns /\ contributions' = contributions
      /\ asking' = asking /\ files' = files /\ watch' = watch
  BY DEF RoundSettles
<1>2. rounds[i].status \notin Over /\ status \in RoundStatuses /\ room.active = i
  BY <1>0, <1>1 DEF Over, RoundStatuses, StoryHolds, SlotHeld
<1>3. Len(rounds) \in Nat /\ DOMAIN rounds = 1 .. Len(rounds) /\ i \in Nat /\ i # 0 /\ Len(log) \in Nat
  BY <1>0 DEF ConversationsTyped
<1>4. e \in EventRecords /\ e.kind \in EndKinds /\ e.run = i /\ e.step = 0 /\ e.message = 0
  BY <1>3 DEF Event, EventRecords, EndKinds
<1> HIDE DEF e
<1>5. /\ log' \in Seq(EventRecords) /\ log'[Len(log) + 1] = e
      /\ \A k \in DOMAIN log : k \in DOMAIN log' /\ log'[k] = log[k]
  BY <1>0, <1>1, <1>4, OneMore DEF ConversationsTyped
<1>6. /\ rounds' \in Seq(RoundRecords) /\ DOMAIN rounds' = DOMAIN rounds /\ Len(rounds') = Len(rounds)
      /\ rounds'[i].status = status
      /\ \A j \in DOMAIN rounds : j # i => rounds'[j] = rounds[j]
      /\ \A j \in DOMAIN rounds : rounds'[j].message = rounds[j].message /\ rounds'[j].straight = rounds[j].straight
      /\ Grows /\ RunsNamed' /\ StepsStored' /\ room.made
  BY <1>0, <1>1, <1>2, <1>5, StatusMoves
<1>7. room' \in [made : BOOLEAN, active : Nat, removed : BOOLEAN] /\ room'.made = room.made /\ room'.active = 0
  BY <1>0, <1>1, <1>2 DEF ConversationsTyped
<1>8. ConversationsTyped'
  BY <1>0, <1>1, <1>5, <1>6, <1>7 DEF ConversationsTyped
<1>9. RoomFirst'
  BY <1>6, <1>7 DEF RoomFirst
<1>10. SlotHeld'
  <2>1. status # "running" /\ status # "waiting_room"
    BY DEF Over
  <2>2. \A j \in DOMAIN rounds : j # 0 /\ (j # i => rounds[j].status # "running")
    BY <1>0, <1>2, <1>3 DEF StoryHolds, SlotHeld
  <2> QED BY <1>0, <1>3, <1>6, <1>7, <2>1, <2>2 DEF StoryHolds, SlotHeld
<1>11. EventsTrue' /\ EventsOrdered'
  <2>1. \A k \in DOMAIN log : log[k].run = i => log[k].kind \notin EndKinds
    BY <1>0, <1>2 DEF StoryHolds, EventsTrue
  <2>2. ASSUME NEW k \in Nat, k = Len(log) + 1 PROVE EventTrue(k)'
    <3>1. log'[k] = e
      BY <1>5, <2>2
    <3>2. Len(timeline') \in Nat
      BY <1>8 DEF ConversationsTyped
    <3> QED BY <1>3, <1>4, <1>6, <3>1, <3>2 DEF EventTrue, EndKinds, AnswerKinds, Over
  <2>3. e.kind # "user_message" /\ e.kind # "speaker_started" /\ e.run # 0
    BY <1>3, <1>4 DEF EndKinds
  <2> QED BY <1>0, <1>1, <1>4, <1>6, <1>8, <2>1, <2>2, <2>3, EventAdded DEF StoryHolds
<1>12. EventsThere'
  BY <1>0, <1>1, <1>6, EventsStayThere DEF StoryHolds, EventsThere, Opens, Begins, AnswerKinds
<1>13. AnswersVisible'
  <2>1. VisibleIds' = VisibleIds
    BY <1>1 DEF VisibleIds
  <2>2. \A s \in DOMAIN contributions : contributions[s].run \in DOMAIN rounds
    BY <1>0 DEF StoryHolds, StepsStored
  <2> QED BY <1>0, <1>1, <1>6, <1>7, <2>1, <2>2 DEF StoryHolds, AnswersVisible
<1>14. StoryHolds'
  BY <1>6, <1>9, <1>10, <1>11, <1>12, <1>13 DEF StoryHolds
<1> QED BY <1>1, <1>6, <1>8, <1>14, RoundMoves

\* MISSING ContributionStartsKeeps
LEMMA ContributionStartsKeeps ==
  ASSUME ConversationsInv, NEW i \in DOMAIN rounds, NEW private \in BOOLEAN, ContributionStarts(i, private)
  PROVE  ConversationsInv'
<1>0. ConversationsTyped /\ StoryHolds
  BY InvIs
<1> DEFINE new == Len(contributions) + 1
           made == [run |-> i, private |-> private, status |-> "running", message |-> 0]
           e == Event("speaker_started", i, new, 0)
<1>1. /\ rounds[i].status = "running" /\ contributions' = Append(contributions, made) /\ log' = Append(log, e)
      /\ timeline' = timeline /\ hidden' = hidden /\ turns' = turns /\ rounds' = rounds /\ room' = room
      /\ asking' = asking /\ files' = files /\ watch' = watch
  BY DEF ContributionStarts
<1>2. Len(rounds) \in Nat /\ DOMAIN rounds = 1 .. Len(rounds) /\ i \in Nat \ {0} /\ Len(log) \in Nat /\ Len(contributions) \in Nat
      /\ contributions \in Seq(StepRecords) /\ log \in Seq(EventRecords) /\ DOMAIN contributions = 1 .. Len(contributions)
      /\ Len(timeline) \in Nat /\ DOMAIN timeline = 1 .. Len(timeline)
  BY <1>0 DEF ConversationsTyped
<1>3. e \in EventRecords /\ e.kind = "speaker_started" /\ e.run = i /\ e.step = new /\ e.message = 0 /\ new \in Nat \ {0}
  BY <1>2 DEF Event, EventRecords
<1>4. made \in StepRecords /\ made.run = i /\ made.status = "running" /\ made.message = 0
  BY <1>2 DEF StepRecords
<1> HIDE DEF e, made
<1>5. /\ log' \in Seq(EventRecords) /\ log'[Len(log) + 1] = e /\ Len(log) + 1 \in DOMAIN log'
      /\ \A k \in DOMAIN log : k \in DOMAIN log' /\ log'[k] = log[k]
  BY <1>1, <1>2, <1>3, OneMore
<1>6. /\ contributions' \in Seq(StepRecords) /\ contributions'[new] = made /\ new \in DOMAIN contributions' /\ new \notin DOMAIN contributions
      /\ \A s \in DOMAIN contributions : s \in DOMAIN contributions' /\ contributions'[s] = contributions[s]
      /\ \A s \in DOMAIN contributions' : s \in DOMAIN contributions \/ s = new
  BY <1>1, <1>2, <1>4, OneMore
<1> HIDE DEF new
<1>7. Grows
  BY <1>1, <1>5, <1>6 DEF Grows
<1>8. ConversationsTyped'
  BY <1>0, <1>1, <1>5, <1>6 DEF ConversationsTyped
<1>9. RoomFirst'
  <2>1. rounds # <<>>
    BY <1>2
  <2> QED BY <1>0, <1>1, <2>1 DEF StoryHolds, RoomFirst
<1>10. SlotHeld' /\ RunsNamed'
  BY <1>0, <1>1 DEF StoryHolds, SlotHeld, RunsNamed
<1>11. StepsStored'
  <2>0. StepsStored
    BY <1>0 DEF StoryHolds
  <2>1. \A n \in DOMAIN timeline : timeline[n].step # 0 =>
          timeline[n].step \in DOMAIN contributions' /\ contributions'[timeline[n].step].message = n
    BY <1>6, <2>0 DEF StepsStored
  <2>2. \A s \in DOMAIN contributions' :
          /\ contributions'[s].run \in DOMAIN rounds
          /\ contributions'[s].message # 0 <=> contributions'[s].status = "succeeded"
          /\ contributions'[s].message # 0 =>
               /\ contributions'[s].message \in DOMAIN timeline /\ timeline[contributions'[s].message].step = s
               /\ rounds[contributions'[s].run].message < contributions'[s].message
    <3> TAKE s \in DOMAIN contributions'
    <3>1. CASE s \in DOMAIN contributions
      BY <1>6, <2>0, <3>1 DEF StepsStored
    <3>2. CASE s = new
      BY <1>4, <1>6, <3>2
    <3> QED BY <1>6, <3>1, <3>2
  <2> QED BY <1>1, <2>0, <2>1, <2>2 DEF StepsStored
<1>12. EventsTrue' /\ EventsOrdered'
  <2>0. EventsTrue /\ EventsOrdered
    BY <1>0 DEF StoryHolds
  <2>1. \A k \in DOMAIN log : log[k].run = i => log[k].kind \notin EndKinds
    BY <1>1, <2>0 DEF EventsTrue, Over
  <2>2. \A k \in DOMAIN log : log[k].step # new
    BY <1>3, <1>6, <2>0 DEF EventsTrue
  <2>3. ASSUME NEW k \in Nat, k = Len(log) + 1 PROVE EventTrue(k)'
    <3>1. log'[k] = e
      BY <1>5, <2>3
    <3> QED BY <1>1, <1>2, <1>3, <1>4, <1>6, <3>1 DEF EventTrue, EndKinds, AnswerKinds
  <2> QED BY <1>0, <1>1, <1>2, <1>3, <1>7, <1>8, <2>0, <2>1, <2>2, <2>3, EventAdded
<1>13. EventsThere'
  <2>1. EventsThere
    BY <1>0 DEF StoryHolds
  <2>2. \A s \in DOMAIN contributions' :
          /\ \E k \in DOMAIN log' : Begins(k, s)'
          /\ contributions'[s].status = "succeeded" => \E k \in DOMAIN log' : log'[k].kind \in AnswerKinds /\ log'[k].step = s
    <3> TAKE s \in DOMAIN contributions'
    <3>1. CASE s \in DOMAIN contributions
      BY <1>6, <1>7, <2>1, <3>1, EventsStayThere
    <3>2. CASE s = new
      <4>1. \A k : k = Len(log) + 1 => Begins(k, s)'
        BY <1>3, <1>5, <3>2 DEF Begins
      <4> QED BY <1>4, <1>5, <1>6, <3>2, <4>1
    <3> QED BY <1>6, <3>1, <3>2
  <2> QED BY <1>1, <1>7, <2>1, <2>2, EventsStayThere DEF EventsThere, Opens, Begins, AnswerKinds
<1>14. AnswersVisible'
  <2>1. VisibleIds' = VisibleIds /\ 0 \notin VisibleIds
    BY <1>1, <1>2 DEF VisibleIds
  <2>2. \A s \in DOMAIN contributions' : contributions'[s].message \in VisibleIds => s \in DOMAIN contributions
    BY <1>4, <1>6, <2>1
  <2> QED BY <1>0, <1>1, <1>6, <2>1, <2>2 DEF StoryHolds, AnswersVisible
<1>15. StoryHolds'
  BY <1>9, <1>10, <1>11, <1>12, <1>13, <1>14 DEF StoryHolds
<1> QED BY <1>1, <1>7, <1>8, <1>15, RoundMoves

\* A list with another element in one place.
LEMMA OnePlaceOf ==
  ASSUME NEW T, NEW s \in Seq(T), NEW i \in DOMAIN s, NEW x \in T
  PROVE  [s EXCEPT ![i] = x] \in Seq(T) /\ Len([s EXCEPT ![i] = x]) = Len(s)
  OBVIOUS

\* An answer is stored and told, or the contribution is stopped.
LEMMA ContributionEndsKeeps ==
  ASSUME ConversationsInv, NEW s \in DOMAIN contributions, NEW delivered \in BOOLEAN, ContributionEnds(s, delivered)
  PROVE  ConversationsInv'
<1>0. ConversationsTyped /\ StoryHolds
  BY InvIs
<1> DEFINE i == contributions[s].run
           place == Len(timeline) + 1
           status == IF delivered THEN "succeeded" ELSE "cancelled"
           message == IF delivered THEN place ELSE 0
           words == Message("assistant", FALSE, s)
           e == IF ~delivered THEN Event("contribution_stopped", i, s, 0)
                ELSE Event(IF IsPrivate(s) THEN "consult_result" ELSE "message", i, s, place)
<1>1. /\ rounds[i].status = "running" /\ s \in SpeakingIn(i)
      /\ contributions' = [contributions EXCEPT ![s].status = status, ![s].message = message]
      /\ timeline' = IF delivered THEN Append(timeline, words) ELSE timeline
      /\ log' = Append(log, e)
      /\ hidden' = hidden /\ turns' = turns /\ rounds' = rounds /\ room' = room
      /\ asking' = asking /\ files' = files /\ watch' = watch
  BY DEF ContributionEnds
<1>2. /\ contributions \in Seq(StepRecords) /\ log \in Seq(EventRecords) /\ Len(contributions) \in Nat
      /\ DOMAIN contributions = 1 .. Len(contributions) /\ Len(log) \in Nat /\ s \in Nat \ {0} /\ contributions[s] \in StepRecords
      /\ timeline \in Seq([role : {"user", "assistant"}, seed : BOOLEAN, step : Nat])
      /\ Len(timeline) \in Nat /\ DOMAIN timeline = 1 .. Len(timeline)
  BY <1>0 DEF ConversationsTyped
<1>3. i \in DOMAIN rounds /\ i \in Nat \ {0} /\ contributions[s].status = "running" /\ contributions[s].message = 0
  <2>1. contributions[s].status = "running"
    BY <1>1 DEF SpeakingIn
  <2>2. contributions[s].message = 0 /\ i \in DOMAIN rounds
    BY <1>0, <2>1 DEF StoryHolds, StepsStored
  <2> QED BY <1>0, <2>1, <2>2 DEF ConversationsTyped
<1>4. /\ e \in EventRecords /\ e.run = i /\ e.step = s /\ e.message = message
      /\ (delivered => e.kind \in AnswerKinds) /\ (~delivered => e.kind = "contribution_stopped")
  BY <1>2, <1>3 DEF Event, EventRecords, AnswerKinds
<1>5. words.role = "assistant" /\ ~words.seed /\ words.step = s /\ words \in [role : {"user", "assistant"}, seed : BOOLEAN, step : Nat]
  BY <1>2 DEF Message
<1>6. /\ contributions' \in Seq(StepRecords) /\ DOMAIN contributions' = DOMAIN contributions
      /\ contributions'[s].run = i /\ contributions'[s].private = contributions[s].private
      /\ contributions'[s].status = status /\ contributions'[s].message = message
      /\ \A x \in DOMAIN contributions : x # s => contributions'[x] = contributions[x]
  <2>1. DOMAIN contributions' = DOMAIN contributions /\ contributions'[s] = [contributions[s] EXCEPT !.status = status, !.message = message]
        /\ \A x \in DOMAIN contributions : x # s => contributions'[x] = contributions[x]
    BY <1>1, <1>2
  <2>2. status \in {"running", "succeeded", "cancelled"} /\ message \in Nat
    BY <1>2
  <2> HIDE DEF status, message
  <2>3. /\ contributions'[s] \in StepRecords /\ contributions'[s].run = i /\ contributions'[s].private = contributions[s].private
        /\ contributions'[s].status = status /\ contributions'[s].message = message
    BY <1>2, <2>1, <2>2 DEF StepRecords
  <2>4. contributions' = [contributions EXCEPT ![s] = contributions'[s]]
    BY <1>1, <1>2, <2>1
  <2>5. contributions' \in Seq(StepRecords)
    <3>1. s \in DOMAIN contributions /\ contributions'[s] \in StepRecords /\ contributions \in Seq(StepRecords)
      BY <1>2, <2>3
    <3>2. [contributions EXCEPT ![s] = contributions'[s]] \in Seq(StepRecords)
      BY Zenon, <3>1, OnePlaceOf
    <3> QED BY Zenon, <2>4, <3>2
  <2> QED BY <2>1, <2>3, <2>5
<1> HIDE DEF e, words
<1>7. /\ log' \in Seq(EventRecords) /\ log'[Len(log) + 1] = e /\ Len(log) + 1 \in DOMAIN log'
      /\ \A k \in DOMAIN log : k \in DOMAIN log' /\ log'[k] = log[k]
  BY <1>1, <1>2, <1>4, OneMore
<1>8. /\ timeline' \in Seq([role : {"user", "assistant"}, seed : BOOLEAN, step : Nat])
      /\ \A n \in DOMAIN timeline : n \in DOMAIN timeline' /\ timeline'[n] = timeline[n]
      /\ \A n \in DOMAIN timeline' : n \in DOMAIN timeline \/ (delivered /\ n = place)
      /\ delivered => place \in DOMAIN timeline' /\ timeline'[place] = words
      /\ place \notin DOMAIN timeline
  <2>1. CASE delivered
    <3>1. timeline' = Append(timeline, words)
      BY <1>1, <2>1
    <3> QED BY <1>2, <1>5, <2>1, <3>1, OneMore
  <2>2. CASE ~delivered
    BY <1>1, <1>2, <2>2
  <2> QED BY <2>1, <2>2
<1> HIDE DEF i
<1>9. Grows
  <2>1. \A x \in DOMAIN contributions :
          /\ x \in DOMAIN contributions' /\ contributions'[x].run = contributions[x].run
          /\ contributions'[x].private = contributions[x].private
          /\ contributions[x].message # 0 => contributions'[x].message = contributions[x].message
    <3> TAKE x \in DOMAIN contributions
    <3>1. CASE x = s
      BY <1>3, <1>6, <3>1 DEF i
    <3>2. CASE x # s
      BY <1>6, <3>2
    <3> QED BY <3>1, <3>2
  <2> QED BY <1>1, <1>7, <1>8, <2>1 DEF Grows
<1>10. ConversationsTyped'
  <2>1. hidden \subseteq DOMAIN timeline'
    BY <1>0, <1>8 DEF ConversationsTyped
  <2> QED BY <1>0, <1>1, <1>6, <1>7, <1>8, <2>1 DEF ConversationsTyped
<1>11. RoomFirst'
  <2>1. contributions # <<>>
    BY <1>2
  <2> QED BY <1>0, <1>1, <2>1 DEF StoryHolds, RoomFirst
<1>12. SlotHeld' /\ RunsNamed'
  <2>1. RunsNamed'
    BY <1>0, <1>1, <1>8 DEF StoryHolds, RunsNamed
  <2> QED BY <1>0, <1>1, <2>1 DEF StoryHolds, SlotHeld
<1>13. StepsStored'
  <2>0. StepsStored
    BY <1>0 DEF StoryHolds
  <2>1. \A n \in DOMAIN timeline' :
          /\ timeline'[n].seed => timeline'[n].role = "user"
          /\ timeline'[n].role = "user" => timeline'[n].step = 0
          /\ timeline'[n].step # 0 => timeline'[n].step \in DOMAIN contributions' /\ contributions'[timeline'[n].step].message = n
    <3> TAKE n \in DOMAIN timeline'
    <3>1. CASE n \in DOMAIN timeline
      <4>1. timeline'[n] = timeline[n]
        BY <1>8, <3>1
      <4>2. n # 0
        BY <1>2, <3>1
      <4>3. timeline[n].step # 0 => timeline[n].step # s
        BY <1>3, <2>0, <3>1, <4>2 DEF StepsStored
      <4> QED BY <1>6, <2>0, <3>1, <4>1, <4>3 DEF StepsStored
    <3>2. CASE delivered /\ n = place
      <4>1. timeline'[n] = words /\ contributions'[s].message = n
        BY <1>6, <1>8, <3>2
      <4> QED BY <1>5, <1>6, <4>1
    <3> QED BY <1>8, <3>1, <3>2
  <2>2. \A x \in DOMAIN contributions :
          /\ contributions'[x].run \in DOMAIN rounds
          /\ contributions'[x].message # 0 <=> contributions'[x].status = "succeeded"
          /\ contributions'[x].message # 0 =>
               /\ contributions'[x].message \in DOMAIN timeline' /\ timeline'[contributions'[x].message].step = x
               /\ rounds[contributions'[x].run].message < contributions'[x].message
    <3> TAKE x \in DOMAIN contributions
    <3>1. CASE x # s
      BY <1>6, <1>8, <2>0, <3>1 DEF StepsStored
    <3>2. CASE x = s /\ delivered
      <4>1. rounds[i].message \in DOMAIN timeline
        BY <1>0, <1>3 DEF StoryHolds, RunsNamed
      <4>2. rounds[i].message < place /\ place # 0
        BY <1>2, <4>1
      <4> QED BY <1>3, <1>5, <1>6, <1>8, <3>2, <4>2
    <3>3. CASE x = s /\ ~delivered
      BY <1>3, <1>6, <3>3
    <3> QED BY <3>1, <3>2, <3>3
  <2> QED BY <1>1, <1>6, <2>1, <2>2 DEF StepsStored
<1>14. EventsTrue' /\ EventsOrdered'
  <2>0. EventsTrue /\ EventsOrdered
    BY <1>0 DEF StoryHolds
  <2>1. \A k \in DOMAIN log : log[k].run = i => log[k].kind \notin EndKinds
    BY <1>1, <2>0 DEF EventsTrue, Over, i
  <2>2. ASSUME NEW k \in Nat, k = Len(log) + 1 PROVE EventTrue(k)'
    <3>1. log'[k] = e
      BY <1>7, <2>2
    <3>2. message \in 0 .. Len(timeline')
      <4>1. Len(timeline') \in Nat /\ DOMAIN timeline' = 1 .. Len(timeline')
        BY <1>10 DEF ConversationsTyped
      <4> QED BY <1>8, <4>1
    <3>3. delivered => message # 0
      BY <1>2
    <3>4. (e.kind \in AnswerKinds <=> delivered) /\ e.kind \notin {"user_message"} \cup EndKinds
      BY <1>4 DEF AnswerKinds, EndKinds
    <3>5. ~delivered => message = 0
      OBVIOUS
    <3> HIDE DEF message
    <3> QED BY <1>1, <1>2, <1>3, <1>4, <1>6, <3>1, <3>2, <3>3, <3>4, <3>5 DEF EventTrue
  <2>3. e.kind # "user_message" /\ e.kind # "speaker_started" /\ e.run # 0
    BY <1>3, <1>4 DEF AnswerKinds
  <2> QED BY <1>0, <1>1, <1>4, <1>9, <1>10, <2>0, <2>1, <2>2, <2>3, EventAdded
<1>15. EventsThere'
  <2>1. EventsThere
    BY <1>0 DEF StoryHolds
  <2>2. \A x \in DOMAIN contributions' :
          /\ \E k \in DOMAIN log' : Begins(k, x)'
          /\ contributions'[x].status = "succeeded" => \E k \in DOMAIN log' : log'[k].kind \in AnswerKinds /\ log'[k].step = x
    <3> TAKE x \in DOMAIN contributions'
    <3>0. x \in DOMAIN contributions
      BY <1>6
    <3>1. CASE x # s
      BY <1>6, <1>9, <2>1, <3>0, <3>1, EventsStayThere
    <3>2. CASE x = s
      <4>1. \E k \in DOMAIN log' : Begins(k, x)'
        BY <1>9, <2>1, <3>0, EventsStayThere
      <4>2. contributions'[x].status = "succeeded" => \E k \in DOMAIN log' : log'[k].kind \in AnswerKinds /\ log'[k].step = x
        BY <1>4, <1>6, <1>7, <3>2
      <4> QED BY <4>1, <4>2
    <3> QED BY <3>1, <3>2
  <2> QED BY <1>1, <1>9, <2>1, <2>2, EventsStayThere DEF EventsThere, Opens, Begins, AnswerKinds
<1>16. AnswersVisible'
  <2>0. AnswersVisible /\ StepsStored /\ SlotHeld /\ RunsNamed
    BY <1>0 DEF StoryHolds
  <2>1. VisibleIds \subseteq VisibleIds' /\ \A n \in DOMAIN timeline : n \in VisibleIds' => n \in VisibleIds
    BY <1>1, <1>9, VisibleStays
  <2>2. \A j \in DOMAIN rounds : rounds[j].message \in VisibleIds => rounds[j].message \in VisibleIds'
    BY <2>1
  <2>3. 0 \notin VisibleIds'
    BY <1>10 DEF VisibleIds, ConversationsTyped
  <2>4. ASSUME NEW x \in DOMAIN contributions, contributions'[x].message \in VisibleIds', rounds[contributions'[x].run].straight
        PROVE  rounds[contributions'[x].run].message \in VisibleIds'
    <3>1. CASE x # s
      <4>1. contributions'[x] = contributions[x]
        BY <1>6, <3>1
      <4>2. contributions[x].message \in DOMAIN timeline
        BY <2>0, <2>3, <2>4, <4>1 DEF StepsStored
      <4> QED BY <2>0, <2>1, <2>4, <4>1, <4>2 DEF AnswersVisible
    <3>2. CASE x = s
      <4>1. room.active = i
        BY <1>1, <1>3, <2>0 DEF SlotHeld, i
      <4>2. rounds[i].straight
        BY <1>6, <2>4, <3>2
      <4>3. rounds[i].message \in VisibleIds
        BY <1>3, <2>0, <4>1, <4>2 DEF AnswersVisible
      <4> QED BY <1>6, <2>1, <3>2, <4>3
    <3> QED BY <3>1, <3>2
  <2> QED BY <1>1, <1>6, <2>0, <2>1, <2>4 DEF AnswersVisible
<1>17. StoryHolds'
  BY <1>11, <1>12, <1>13, <1>14, <1>15, <1>16 DEF StoryHolds
<1> QED BY <1>1, <1>9, <1>10, <1>17, RoundMoves

-----------------------------------------------------------------------------
(* The conversation is sound. *)

\* MISSING WiderSeq
LEMMA WiderSeq ==
  ASSUME NEW T, NEW U, NEW s \in Seq(T), \A x \in T : x \in U
  PROVE  s \in Seq(U) /\ \A n \in DOMAIN s : s[n] \in T
<1>1. s \in [1 .. Len(s) -> T] /\ Len(s) \in Nat
  OBVIOUS
<1>2. s \in [1 .. Len(s) -> U]
  BY <1>1
<1> QED BY <1>1, <1>2

\* A conversation begins with what is stored.
LEMMA ConversationStarts == ConversationsInit => ConversationsInv
<1> SUFFICES ASSUME ConversationsInit PROVE ConversationsInv
  OBVIOUS
<1>1. /\ timeline \in Imported
      /\ hidden = {} /\ turns = [t \in TurnIds |-> NoTurn]
      /\ room = [made |-> FALSE, active |-> 0, removed |-> FALSE]
      /\ rounds = <<>> /\ log = <<>> /\ contributions = <<>>
      /\ asking = [c \in Clients |-> Calm] /\ files = [of |-> [t \in TurnIds |-> 0], uploaded |-> 0]
      /\ watch = Unwatched
  BY DEF ConversationsInit
<1>2. /\ timeline \in Seq([role : {"user", "assistant"}, seed : BOOLEAN, step : {0}])
      /\ \A n \in DOMAIN timeline : timeline[n].seed => timeline[n].role = "user"
  BY <1>1, ConversationsAssumption
<1>3. /\ timeline \in Seq([role : {"user", "assistant"}, seed : BOOLEAN, step : Nat])
      /\ \A n \in DOMAIN timeline : timeline[n].step = 0
  <2> DEFINE T == [role : {"user", "assistant"}, seed : BOOLEAN, step : {0}]
             U == [role : {"user", "assistant"}, seed : BOOLEAN, step : Nat]
  <2>1. \A x \in T : x \in U /\ x.step = 0
    OBVIOUS
  <2>2. timeline \in Seq(T)
    BY <1>2
  <2> HIDE DEF T, U
  <2>3. timeline \in Seq(U) /\ \A n \in DOMAIN timeline : timeline[n] \in T
    BY <2>1, <2>2, WiderSeq
  <2> QED BY <2>1, <2>3 DEF U
<1>4. ConversationsTyped
  <2>1. files \in [of : [TurnIds -> Nat], uploaded : Nat] /\ asking \in [Clients -> RequestRecords]
        /\ turns \in [TurnIds -> TurnRecords]
    BY <1>1 DEF RequestRecords, TurnRecords
  <2>2. rounds \in Seq(RoundRecords) /\ log \in Seq(EventRecords) /\ contributions \in Seq(StepRecords)
    BY <1>1
  <2>3. room \in [made : BOOLEAN, active : Nat, removed : BOOLEAN] /\ hidden \subseteq DOMAIN timeline
        /\ watch \in {Unwatched} \cup Streams
    BY <1>1
  <2> QED BY <1>3, <2>1, <2>2, <2>3 DEF ConversationsTyped
<1>5. RoomFirst
  BY <1>1, <1>3 DEF RoomFirst, NoTurn
<1>6. SlotHeld /\ RunsNamed
  BY <1>1 DEF SlotHeld, RunsNamed
<1>7. RequestsNamed
  BY <1>1 DEF RequestsNamed, Calm, NoTurn
<1>8. StepsStored
  BY <1>1, <1>2, <1>3 DEF StepsStored
<1>9. EventsTrue /\ EventsOrdered /\ EventsThere
  BY <1>1 DEF EventsTrue, EventsOrdered, EventsThere
<1>10. StreamKnows /\ StreamTold
  BY <1>1 DEF StreamKnows, StreamTold, Unwatched
<1>11. AttachedOnce /\ AttachedFew
  <2>1. \A t \in TurnIds : files.of[t] = 0
    BY <1>1
  <2>2. {t \in TurnIds : files.of[t] > 0} = {} /\ files.uploaded = 0
    BY <1>1, <2>1
  <2>3. Stored(files) = 0
    BY <2>2, FS_EmptySet DEF Stored
  <2> QED BY <2>1, <2>2, <2>3, FS_EmptySet, ConversationsAssumption DEF AttachedOnce, AttachedFew
<1>12. AnswersVisible
  BY <1>1 DEF AnswersVisible
<1> QED BY <1>4, <1>5, <1>6, <1>7, <1>8, <1>9, <1>10, <1>11, <1>12 DEF ConversationsInv

\* Every step of a conversation keeps the invariant.
LEMMA ConversationKept == ConversationsInv /\ [ConversationsNext]_conversationVars => ConversationsInv'
<1> SUFFICES ASSUME ConversationsInv, [ConversationsNext]_conversationVars PROVE ConversationsInv'
  OBVIOUS
<1>1. CASE \E c \in Clients, t \in TurnIds, body \in Bodies : ClientAsks(c, t, body)
  BY <1>1, ClientAsksKeeps
<1>2. CASE \E c \in Clients : ClientMaps(c)
  BY <1>2, ClientMapsKeeps
<1>3. CASE \E c \in Clients : ClientAttaches(c)
  BY <1>3, ClientAttachesKeeps
<1>4. CASE \E c \in Clients : ClientAdmits(c)
  BY <1>4, ClientAdmitsKeeps
<1>5. CASE UploadFile
  BY <1>5, UploadFileKeeps
<1>6. CASE ConversationsCrash
  BY <1>6, CrashKeeps
<1>7. CASE RemoveConversation
  BY <1>7, RemoveKeeps
<1>8. CASE RoundAdvances
  BY <1>8, RoundAdvancesKeeps
<1>9. CASE \E i \in DOMAIN rounds, private \in BOOLEAN : ContributionStarts(i, private)
  BY <1>9, ContributionStartsKeeps
<1>10. CASE \E i \in DOMAIN rounds, status \in Over : RoundSettles(i, status)
  BY <1>10, RoundSettlesKeeps
<1>11. CASE \E i \in DOMAIN rounds : WaitingCancelled(i)
  BY <1>11, WaitingCancelledKeeps
<1>12. CASE \E i \in DOMAIN rounds : StreamOpens(i)
  BY <1>12, StreamOpensKeeps
<1>13. CASE \E s \in DOMAIN contributions, delivered \in BOOLEAN : ContributionEnds(s, delivered)
  BY <1>13, ContributionEndsKeeps
<1>14. CASE StreamDrops
  BY <1>14, StreamDropsKeeps
<1>15. CASE StreamPolls
  BY <1>15, StreamPollsKeeps
<1>16. CASE StreamChecks
  BY <1>16, StreamChecksKeeps
<1>17. CASE UNCHANGED conversationVars
  <2>1. /\ UNCHANGED <<hidden, turns, asking, files, watch>> /\ UNCHANGED <<timeline, log, rounds, contributions>> /\ room' = room
    BY <1>17 DEF conversationVars
  <2>2. ConversationsTyped /\ StoryHolds
    BY InvIs
  <2>3. ConversationsTyped'
    BY <2>1, <2>2 DEF ConversationsTyped
  <2>4. StoryHolds'
    BY <2>1, <2>2, StorySame DEF StoryVars
  <2> QED BY <2>1, <2>3, <2>4, Growing, RoundMoves
<1> QED BY <1>1, <1>2, <1>3, <1>4, <1>5, <1>6, <1>7, <1>8, <1>9, <1>10, <1>11, <1>12, <1>13, <1>14, <1>15, <1>16, <1>17
        DEF ConversationsNext

\* The invariant is enough.
LEMMA ConversationIsSound == ConversationsInv => ConversationsSound
<1> SUFFICES ASSUME ConversationsInv PROVE ConversationsSound
  OBVIOUS
<1>0. InvParts
  BY InvIs DEF InvParts
<1>1. TurnOnce
  <2>1. ASSUME NEW t \in TurnIds PROVE Cardinality(RunsOf(t)) <= 1
    <3>1. CASE RunsOf(t) = {}
      BY <3>1, FS_EmptySet
    <3>2. CASE RunsOf(t) # {}
      <4>1. PICK i \in RunsOf(t) : TRUE
        BY <3>2
      <4>2. RunsOf(t) = {i}
        BY <1>0, <4>1 DEF InvParts, StoryHolds, RunsNamed, RunsOf
      <4> QED BY <4>2, FS_Singleton
    <3> QED BY <3>1, <3>2
  <2>2. \A i \in DOMAIN rounds : turns[rounds[i].id].made /\ rounds[i].body = turns[rounds[i].id].body
    BY <1>0 DEF InvParts, StoryHolds, RunsNamed
  <2>3. ASSUME NEW i \in DOMAIN rounds, NEW j \in DOMAIN rounds, i # j, rounds[i].message = rounds[j].message
        PROVE  rounds[i].replayed \/ rounds[j].replayed
    <3>1. i \in Nat /\ j \in Nat /\ rounds[i] \in RoundRecords /\ rounds[j] \in RoundRecords
      BY <1>0 DEF InvParts, ConversationsTyped
    <3>2. rounds[i].message \in Nat /\ rounds[j].message \in Nat
      BY <3>1 DEF RoundRecords
    <3>3. i < j \/ j < i
      BY <2>3, <3>1
    <3> QED BY <1>0, <2>3, <3>2, <3>3 DEF InvParts, StoryHolds, RunsNamed
  <2>4. \A c \in Clients : asking[c].answer = "told" => turns[asking[c].id].body = asking[c].body /\ RunsOf(asking[c].id) # {}
    BY <1>0 DEF InvParts, RequestsNamed
  <2> QED BY <2>1, <2>2, <2>3, <2>4 DEF TurnOnce
<1>2. PageShows
  BY <1>0, PageShown DEF InvParts, StoryHolds, StoryTrue
<1>3. AttachedOnce /\ AnswersVisible /\ StreamTold
  BY <1>0 DEF InvParts, StoryHolds
<1> QED BY <1>1, <1>2, <1>3 DEF ConversationsSound

\* Whatever clients ask, retry, edit, regenerate, attach and upload, in whatever
\* order runs are admitted, wait, settle and are lost, with restarts between any two
\* transactions: a request makes at most one run and one message, stores its
\* attachments once and within the limit of the room, an answer that is shown keeps
\* its question, a stream tells the public events of its turn once and in order, and
\* the page shows what is visible and public, each message once.
THEOREM ConversationsHold == ConversationsSpec => []ConversationsSound
<1>1. ConversationsInit => ConversationsInv
  BY ConversationStarts
<1>2. ConversationsInv /\ [ConversationsNext]_conversationVars => ConversationsInv'
  BY ConversationKept
<1>3. ConversationsInv => ConversationsSound
  BY ConversationIsSound
<1> QED BY <1>1, <1>2, <1>3, PTL DEF ConversationsSpec
=============================================================================
