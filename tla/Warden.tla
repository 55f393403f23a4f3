------------------------------- MODULE Warden -------------------------------
(***************************************************************************)
(* The execution loop of a FORGE agent: run_messages() over one            *)
(* transcript, from the prompt that seeds it to its Terminal, with the     *)
(* reclaiming of context, retries, resumed turns, nudges, the operator's   *)
(* interjections, both interrupts, and the read-before-write cache of one  *)
(* file.  Turns of a conversation follow each other; the transcript of one *)
(* seeds the next, repaired first on the Gate and as it is in the REPL.    *)
(*                                                                         *)
(* A message is a record: the tool call an assistant turn makes (`use`, 0  *)
(* for none), the call a user turn answers, the operator texts it carries, *)
(* and, for a result, the version of the file it is `about` and whether it *)
(* shows that version `whole`.  One call per turn: the calls of a batch    *)
(* are answered together or not at all.                                    *)
(***************************************************************************)
EXTENDS Naturals, Sequences, SequencesExt, FiniteSets, FiniteSetsExt

CONSTANTS
  Entrance,           \* "gate" or "repl"
  ToolKinds,          \* tools on offer; a project job is offered no subagents
  Typed,              \* what the operator types while a turn runs (strings)
  MaxPrompts,         \* bound on the turns of the conversation (at most 3)
  MaxWork,            \* max_iterations
  RetryAttempts,      \* retry_attempts
  MaxTruncationResumes, \* MAX_TRUNCATION_RESUMES
  MaxCompactFailures, \* MAX_COMPACT_FAILURES
  KeepCycles,         \* KEEP_CYCLES
  ElideAfterCycles,   \* ELIDE_AFTER_CYCLES
  TurnsCap,           \* operator turns that fit OPERATOR_TURNS_CAP
  MaxDisk             \* bound on the versions of the file

ASSUME WardenAssumption ==
  /\ Entrance \in {"gate", "repl"}
  /\ ToolKinds \subseteq {"read", "edit", "write", "run", "memory", "task"}
  /\ {MaxPrompts, MaxWork, RetryAttempts, MaxTruncationResumes, MaxCompactFailures,
      KeepCycles, ElideAfterCycles, TurnsCap, MaxDisk} \subseteq Nat

VARIABLES
  lapAt,        \* where the loop is
  transcript,   \* state.messages, and between turns session.messages
  budget,       \* work = iteration - retries, and the consecutive counters
  flags,        \* what the loop has noticed about the run
  said,         \* state.operator_turns
  windowFull,   \* ledger.should_compact()
  fileCache,    \* ctx.files: the version vouched for, 0 for none
  diskFile,     \* version of the file in the Cell
  pending,      \* the inbox
  unsaid,       \* texts the operator has not typed yet
  claimedTexts, \* texts the loop took during this run
  abortSignal,  \* the interrupt
  stubbed,      \* the last result only said "unchanged since you read it"
  calls, prompts

wardenVars == <<lapAt, transcript, budget, flags, said, windowFull, fileCache, diskFile, pending,
                unsaid, claimedTexts, abortSignal, stubbed, calls, prompts>>

Nudge == "nudge"     \* any text the loop itself puts in a user message
Prompt(n) == <<"first", "second", "third">>[n]
User(texts) == [role |-> "user", use |-> 0, answer |-> 0, texts |-> texts,
                about |-> 0, whole |-> FALSE, elided |-> FALSE]
Assistant(id) == [User({}) EXCEPT !.role = "assistant", !.use = id]
Result(id, v, whole) == [User({}) EXCEPT !.answer = id, !.about = v, !.whole = whole]
NoFile == [version |-> 0, whole |-> FALSE]
NoFlags == [dirty |-> FALSE, rule |-> FALSE, asked |-> {}]
NewBudget == [work |-> 0, attempt |-> 0, resumes |-> 0, compactFailures |-> 0]

WardenInit ==
  /\ lapAt = "idle" /\ transcript = <<>> /\ budget = NewBudget
  /\ flags = NoFlags
  /\ said = <<>> /\ windowFull = FALSE
  /\ fileCache = NoFile /\ diskFile = 1
  /\ pending = {} /\ unsaid = Typed /\ claimedTexts = {}
  /\ abortSignal = FALSE /\ stubbed = FALSE /\ calls = 0 /\ prompts = 0

(***************************************************************************)
(* Seeding a turn                                                          *)
(***************************************************************************)

\* operator_turns(): user messages that carry no results, in order.
OperatorTurns(msgs) == SelectSeq(msgs, LAMBDA m : m.role = "user" /\ m.answer = 0)

\* A mistake: a call without its result is left as it is.
PairToolsNot(msgs) == msgs

\* _pair_tools(): an assistant turn the next message leaves unanswered gets an
\* error result; a result the message before never asked for goes, and with it a
\* message that held nothing else.
PairTools(msgs) ==
  LET Asked(i) == IF i = 1 THEN 0 ELSE msgs[i - 1].use
      Answered(i) == i < Len(msgs) /\ msgs[i + 1].answer = msgs[i].use
      Paired(i) ==
        IF msgs[i].use # 0 /\ ~Answered(i) THEN <<msgs[i], Result(msgs[i].use, 0, FALSE)>>
        ELSE IF msgs[i].answer \in {0, Asked(i)} THEN <<msgs[i]>>
        ELSE IF msgs[i].texts = {} THEN <<>> ELSE <<User(msgs[i].texts)>>
  IN FlattenSeq([i \in DOMAIN msgs |-> Paired(i)])

\* _trim_edges(): a transcript starts and ends on a user turn.
TrimEdges(msgs) ==
  LET users == {i \in DOMAIN msgs : msgs[i].role = "user"}
      first == CHOOSE i \in users : \A j \in users : i <= j
      last == CHOOSE i \in users : \A j \in users : i >= j
  IN IF users = {} THEN <<>> ELSE SubSeq(msgs, first, last)

RepairTranscript(msgs) == TrimEdges(PairTools(msgs))

\* run_job() and _drive(): the next turn starts from the transcript of the last.
BeginTurn(rule) ==
  /\ lapAt = "idle" /\ prompts < MaxPrompts
  /\ LET carried == IF Entrance = "repl" THEN pending ELSE {}
         history == Append(transcript, User({Prompt(prompts + 1)} \union carried))
         seed == IF Entrance = "gate" THEN RepairTranscript(history) ELSE history
     IN /\ transcript' = seed
        /\ said' = OperatorTurns(seed)
        /\ pending' = pending \ carried
  /\ prompts' = prompts + 1
  /\ flags' = [flags EXCEPT !.rule = rule]
  /\ lapAt' = "head"
  /\ UNCHANGED <<budget, windowFull, fileCache, diskFile, unsaid, claimedTexts, abortSignal, stubbed, calls>>

Running == lapAt \notin {"idle", "ended"}

\* The turn is over: loop state, cache and interrupt were its own, and on the
\* Gate the ledger too.
CloseTurn ==
  /\ lapAt = "ended" /\ lapAt' = "idle"
  /\ budget' = NewBudget /\ flags' = NoFlags /\ said' = <<>>
  /\ fileCache' = NoFile /\ claimedTexts' = {} /\ abortSignal' = FALSE /\ stubbed' = FALSE
  /\ windowFull' = (windowFull /\ Entrance = "repl")
  /\ UNCHANGED <<transcript, diskFile, pending, unsaid, calls, prompts>>

(***************************************************************************)
(* Reclaiming context                                                      *)
(***************************************************************************)
OpensACycle(msgs) == {i \in DOMAIN msgs : msgs[i].use # 0}
IsToolResult(msgs) == {i \in DOMAIN msgs : msgs[i].answer # 0}

\* elide_old_tool_results(): the results older than the last `keep`.
Doomed(msgs, keep) ==
  LET carriers == IsToolResult(msgs)
  IN {i \in carriers : Cardinality({j \in carriers : j > i}) >= keep}

Elide(msgs, keep) ==
  [i \in DOMAIN msgs |-> IF i \in Doomed(msgs, keep)
     THEN [msgs[i] EXCEPT !.about = 0, !.whole = FALSE, !.elided = TRUE] ELSE msgs[i]]

Freed(msgs, keep) == \E i \in Doomed(msgs, keep) : ~msgs[i].elided

\* A mistake: the tail may begin at any message.
CutStartsAny(msgs) == DOMAIN msgs

\* Only an assistant message that opens a tool cycle may begin the tail.
CutStarts(msgs) == OpensACycle(msgs)

\* find_cut(): where the preserved tail begins; nowhere when there is nothing to gain.
FindCut(msgs, keep) ==
  LET starts == CutStarts(msgs)
      cuts == IF keep = 0 THEN {Len(msgs) + 1}
              ELSE {i \in starts : Cardinality({j \in starts : j >= i}) = keep}
  IN IF Cardinality(starts) <= keep THEN {} ELSE {cut \in cuts : cut > 2}

\* The escalation of a forced recovery: the first that cuts.
ForcedKeeps == <<2, 1, 0>>
AnyCut(msgs, keeps) ==
  LET cutting == {k \in DOMAIN keeps : FindCut(msgs, keeps[k]) # {}}
  IN IF cutting = {} THEN {} ELSE FindCut(msgs, keeps[Min(cutting)])

\* A mistake: the operator's own words are left to the summary.
VerbatimNone(task) == {}

\* render_operator_turns(): the newest turns that fit, those in the task apart.
Verbatim(task) ==
  LET rest == SelectSeq(said, LAMBDA m : ~(m.texts \subseteq task))
      kept == SubSeq(rest, IF Len(rest) > TurnsCap THEN Len(rest) - TurnsCap + 1 ELSE 1, Len(rest))
  IN UNION {kept[i].texts : i \in DOMAIN kept}

\* rebuild(): task, summary and the operator's words in one message, then the tail.
Rebuild(msgs, cut) ==
  LET task == msgs[1].texts
  IN <<User(task \union Verbatim(task))>> \o SubSeq(msgs, cut, Len(msgs))

\* A mistake: eliding results is taken to leave the grounding alone.
ForgetFilesSummarised(elided, summarised) == IF summarised THEN NoFile ELSE fileCache

\* _forget_files(): any reclamation drops what the cache vouches for.
ForgetFiles(elided, summarised) == IF elided \/ summarised THEN NoFile ELSE fileCache

\* _compact(): elide; if that is not enough, or forced, summarise up to a cut.
\* `freed` is its return value.
Compact(forced, freed) ==
  LET keep == IF forced THEN 1 ELSE ElideAfterCycles
      thin == Elide(transcript, keep)
      elided == Freed(transcript, keep)
      cuts == AnyCut(thin, IF forced THEN ForcedKeeps ELSE <<KeepCycles>>)
  IN IF budget.compactFailures >= MaxCompactFailures
     THEN ~freed /\ UNCHANGED <<transcript, fileCache, windowFull>> /\ budget' = budget
     ELSE \/ /\ elided /\ ~forced /\ freed             \* eliding was enough
             /\ transcript' = thin /\ fileCache' = ForgetFiles(TRUE, FALSE)
             /\ windowFull' = FALSE /\ budget' = budget
          \/ /\ cuts = {} /\ freed = elided             \* nothing to summarise
             /\ transcript' = thin /\ fileCache' = ForgetFiles(elided, FALSE)
             /\ UNCHANGED windowFull /\ budget' = budget
          \/ /\ cuts # {} /\ freed = elided             \* the summary failed
             /\ transcript' = thin /\ fileCache' = ForgetFiles(elided, FALSE)
             /\ budget' = [budget EXCEPT !.compactFailures = @ + 1]
             /\ UNCHANGED windowFull
          \/ /\ freed /\ \E cut \in cuts : transcript' = Rebuild(thin, cut)
             /\ fileCache' = ForgetFiles(elided, TRUE)
             /\ budget' = [budget EXCEPT !.compactFailures = 0]
             /\ UNCHANGED windowFull

(***************************************************************************)
(* One lap                                                                 *)
(***************************************************************************)

\* The head of a lap: the ceiling, and room before the next model call.
MakeRoom ==
  /\ lapAt = "head" /\ budget.work < MaxWork
  /\ IF windowFull THEN \E freed \in BOOLEAN : Compact(FALSE, freed)
     ELSE UNCHANGED <<transcript, fileCache, windowFull, budget>>
  /\ lapAt' = "claim"
  /\ UNCHANGED <<flags, said, diskFile, pending, unsaid, claimedTexts, abortSignal, stubbed, calls, prompts>>

Heard == pending' = {} /\ claimedTexts' = claimedTexts \union pending

\* Waiting input joins the last user message before the model is called.
ClaimBeforeModel ==
  /\ lapAt = "claim" /\ lapAt' = "model"
  /\ budget' = [budget EXCEPT !.work = @ + 1]
  /\ Heard
  /\ transcript' = IF pending = {} THEN transcript
                   ELSE IF Last(transcript).role = "user"
                        THEN [transcript EXCEPT ![Len(transcript)].texts = @ \union pending]
                        ELSE Append(transcript, User(pending))
  /\ UNCHANGED <<flags, said, windowFull, fileCache, diskFile, unsaid, abortSignal, stubbed, calls, prompts>>

\* _wind_down(): at the ceiling one more turn, without tools.
WindDown ==
  /\ lapAt = "head" /\ budget.work >= MaxWork
  /\ IF abortSignal THEN lapAt' = "ended" /\ UNCHANGED transcript
     ELSE lapAt' = "handover" /\ transcript' = Append(transcript, User({Nudge}))
  /\ UNCHANGED <<budget, flags, said, windowFull, fileCache, diskFile, pending, unsaid,
                 claimedTexts, abortSignal, stubbed, calls, prompts>>

Handover(ok) ==
  /\ lapAt = "handover" /\ lapAt' = "ended"
  /\ transcript' = IF ok THEN Append(transcript, Assistant(0)) ELSE transcript
  /\ UNCHANGED <<budget, flags, said, windowFull, fileCache, diskFile, pending, unsaid,
                 claimedTexts, abortSignal, stubbed, calls, prompts>>

\* A mistake: an attempt at the same turn is not counted.
RetryUncounted == [budget EXCEPT !.work = @ - 1]

\* A retry is not work done, and there are only so many of the same turn.
Retry == [budget EXCEPT !.attempt = @ + 1, !.work = @ - 1]

\* The failure boundary: _recover() compacts, backs off or gives up.
TurnFails(kind) ==
  /\ lapAt = "model"
  /\ \/ /\ kind = "recoverable"
        /\ \E freed \in BOOLEAN : Compact(TRUE, freed) /\ lapAt' = (IF freed THEN "head" ELSE "ended")
     \/ /\ kind = "transient" /\ budget.attempt < RetryAttempts
        /\ budget' = Retry
        /\ lapAt' = "backoff" /\ UNCHANGED <<transcript, fileCache, windowFull>>
     \/ /\ kind = "fatal" \/ (kind = "transient" /\ budget.attempt >= RetryAttempts)
        /\ lapAt' = "ended" /\ UNCHANGED <<transcript, fileCache, windowFull, budget>>
  /\ UNCHANGED <<flags, said, diskFile, pending, unsaid, claimedTexts, abortSignal, stubbed, calls, prompts>>

\* _sleep_unless_interrupted(): an interrupt ends the run instead of the nap.
Backoff ==
  /\ lapAt = "backoff"
  /\ lapAt' = IF abortSignal THEN "ended" ELSE "head"
  /\ UNCHANGED <<transcript, budget, flags, said, windowFull, fileCache, diskFile, pending, unsaid,
                 claimedTexts, abortSignal, stubbed, calls, prompts>>

\* The turn streamed: the retries are over and its usage is on the ledger.
Streamed(full) == windowFull' = full /\ UNCHANGED <<said, diskFile, unsaid, abortSignal, stubbed, prompts>>

\* Boundary 1 without calls, or with calls that get no chance to run.
AbortedAfterModel(tool, full) ==
  /\ lapAt = "model" /\ abortSignal /\ lapAt' = "ended"
  /\ Streamed(full)
  /\ calls' = calls + (IF tool THEN 1 ELSE 0)
  /\ transcript' = transcript \o
       (IF tool THEN <<Assistant(calls'), Result(calls', 0, FALSE), User({Nudge})>>
        ELSE <<Assistant(0), User({Nudge})>>)
  /\ UNCHANGED <<budget, flags, fileCache, pending, claimedTexts>>

\* A resumed turn is not work done, and there are only so many in a row.
ResumeCut == [budget EXCEPT !.attempt = 0, !.resumes = @ + 1, !.work = @ - 1]

\* A turn cut off at the output cap is resumed a few times, then given up.
Truncated(full) ==
  /\ lapAt = "model" /\ ~abortSignal /\ Streamed(full)
  /\ IF budget.resumes >= MaxTruncationResumes
     THEN /\ lapAt' = "ended" /\ transcript' = Append(transcript, Assistant(0))
          /\ budget' = [budget EXCEPT !.attempt = 0]
     ELSE /\ lapAt' = "head" /\ transcript' = transcript \o <<Assistant(0), User({Nudge})>>
          /\ budget' = ResumeCut
  /\ UNCHANGED <<flags, fileCache, pending, claimedTexts, calls>>

\* _unverified() and _unsaved_rule(): each asks once.
Owed == (IF flags.dirty THEN {"verify"} ELSE {}) \union (IF flags.rule THEN {"rule"} ELSE {})

\* A turn without calls: input of the operator, a nudge, or the end.
Finished(full) ==
  /\ lapAt = "model" /\ ~abortSignal /\ Streamed(full)
  /\ budget' = [budget EXCEPT !.attempt = 0]
  /\ LET due == Owed \ flags.asked
         ask == IF "verify" \in due THEN "verify" ELSE "rule"
     IN \/ /\ pending # {} /\ Heard
           /\ transcript' = transcript \o <<Assistant(0), User(pending)>>
           /\ lapAt' = "head" /\ UNCHANGED flags
        \/ /\ pending = {} /\ due # {} /\ UNCHANGED <<pending, claimedTexts>>
           /\ transcript' = transcript \o <<Assistant(0), User({Nudge})>>
           /\ flags' = [flags EXCEPT !.asked = @ \union {ask}]
           /\ lapAt' = "head"
        \/ /\ pending = {} /\ due = {} /\ UNCHANGED <<pending, claimedTexts, flags>>
           /\ transcript' = Append(transcript, Assistant(0))
           /\ lapAt' = "ended"
  /\ UNCHANGED <<fileCache, calls>>

\* The turn asks for a tool; _note_tools() sees what kind before it runs.
AskForTool(kind, full) ==
  /\ lapAt = "model" /\ ~abortSignal /\ Streamed(full)
  /\ calls' = calls + 1
  /\ transcript' = Append(transcript, Assistant(calls'))
  /\ budget' = [budget EXCEPT !.attempt = 0]
  /\ flags' = [flags EXCEPT !.dirty = kind \in {"edit", "write"} \/ (@ /\ kind # "run"),
                            !.rule = @ /\ kind # "memory"]
  /\ lapAt' = kind
  /\ UNCHANGED <<fileCache, pending, claimedTexts>>

(***************************************************************************)
(* The tools that touch the file                                           *)
(***************************************************************************)
Stub == fileCache.version = diskFile /\ fileCache.whole

\* read_file: a window, the whole file, or a whole file over the ceiling of one
\* read, which is refused after it was recorded.
ReadFile(how) ==
  LET windowed == how = "window"
      stub == ~windowed /\ Stub
  IN [result |-> [about |-> IF stub THEN 0 ELSE diskFile, whole |-> how = "whole" /\ ~stub],
      cache |-> IF stub THEN fileCache ELSE [version |-> diskFile, whole |-> ~windowed],
      disk |-> diskFile, stub |-> stub]

Untouched == [result |-> [about |-> 0, whole |-> FALSE], cache |-> fileCache,
              disk |-> diskFile, stub |-> FALSE]
Written == [result |-> [about |-> diskFile + 1, whole |-> FALSE],
            cache |-> [version |-> diskFile + 1, whole |-> TRUE], disk |-> diskFile + 1, stub |-> FALSE]

\* freshness_error(): an edit needs the version the cache vouches for.
CacheFresh == fileCache.version = diskFile

\* What a call may do.  Refused, failed, interrupted and timed out calls leave
\* the file alone; a command may rewrite it; a child shares the cache.
ToolOutcomes(kind) ==
  {Untouched} \union
  CASE kind = "read" -> {ReadFile(how) : how \in {"whole", "window", "refused"}}
    [] kind = "edit" -> IF CacheFresh /\ diskFile < MaxDisk THEN {Written} ELSE {}
    [] kind = "write" -> IF diskFile < MaxDisk THEN {Written} ELSE {}
    [] kind = "run" -> IF diskFile < MaxDisk THEN {[Untouched EXCEPT !.disk = diskFile + 1]} ELSE {}
    [] kind = "task" -> {[Untouched EXCEPT !.cache = [version |-> diskFile, whole |-> TRUE]]}
    [] OTHER -> {}

\* The tool ran; result and waiting input make one user message.  Boundary 2.
RunTool(outcome) ==
  /\ transcript' = Append(transcript,
       [Result(calls, outcome.result.about, outcome.result.whole) EXCEPT !.texts = pending])
  /\ Heard
  /\ fileCache' = outcome.cache /\ diskFile' = outcome.disk /\ stubbed' = outcome.stub
  /\ IF abortSignal THEN lapAt' = "ended" /\ UNCHANGED budget
     ELSE lapAt' = "head" /\ budget' = [budget EXCEPT !.resumes = 0]
  /\ UNCHANGED <<flags, said, windowFull, unsaid, abortSignal, calls, prompts>>

Observe == lapAt \in ToolKinds /\ \E outcome \in ToolOutcomes(lapAt) : RunTool(outcome)

(***************************************************************************)
(* The operator and the world                                              *)
(***************************************************************************)
Type(x) ==
  /\ Running /\ x \in unsaid
  /\ unsaid' = unsaid \ {x} /\ pending' = pending \union {x}
  /\ UNCHANGED <<lapAt, transcript, budget, flags, said, windowFull, fileCache, diskFile,
                 claimedTexts, abortSignal, stubbed, calls, prompts>>

InterruptTurn ==
  /\ Running /\ ~abortSignal /\ abortSignal' = TRUE
  /\ UNCHANGED <<lapAt, transcript, budget, flags, said, windowFull, fileCache, diskFile, pending,
                 unsaid, claimedTexts, stubbed, calls, prompts>>

\* The second ctrl+c cancels the task, and the Gate's process may die: what was
\* committed is all there is, recover_transcript().
ForcedStop ==
  /\ Running /\ (Entrance = "repl" => abortSignal)
  /\ lapAt' = "ended"
  /\ UNCHANGED <<transcript, budget, flags, said, windowFull, fileCache, diskFile, pending, unsaid,
                 claimedTexts, abortSignal, stubbed, calls, prompts>>

TurnStep ==
  \/ MakeRoom \/ ClaimBeforeModel \/ WindDown \/ Backoff \/ Observe
  \/ \E ok \in BOOLEAN : Handover(ok)
  \/ \E kind \in {"recoverable", "transient", "fatal"} : TurnFails(kind)
  \/ \E full \in BOOLEAN : \/ Truncated(full) \/ Finished(full)
                           \/ \E tool \in BOOLEAN : AbortedAfterModel(tool, full)
                           \/ \E kind \in ToolKinds : AskForTool(kind, full)

WardenNext ==
  \/ \E rule \in BOOLEAN : BeginTurn(rule)
  \/ TurnStep \/ CloseTurn
  \/ \E x \in Typed : Type(x)
  \/ InterruptTurn \/ ForcedStop

\* The loop, its timers and the bounded tool calls go on by themselves.
WardenFairness == WF_wardenVars(TurnStep)
WardenSpec == WardenInit /\ [][WardenNext]_wardenVars /\ WardenFairness

(***************************************************************************)
(* Properties                                                              *)
(***************************************************************************)

\* Every transcript the model is called with starts and ends on a user turn and
\* answers each tool call in the message after it, whatever was elided, cut out,
\* interrupted or killed before.
TranscriptPaired ==
  lapAt \in {"model", "handover"} =>
    /\ transcript[1].role = "user" /\ Last(transcript).role = "user"
    /\ \A i \in DOMAIN transcript :
         /\ transcript[i].use # 0 =>
              i < Len(transcript) /\ transcript[i + 1].answer = transcript[i].use
         /\ transcript[i].answer # 0 => i > 1 /\ transcript[i - 1].use = transcript[i].answer

\* The version read-before-write vouches for is one a result still in the
\* transcript is about: context that was reclaimed takes the grounding with it.
CacheGrounded ==
  Running /\ fileCache.version # 0 =>
    \E i \in DOMAIN transcript : transcript[i].about = fileCache.version

\* Compaction never drops the words that began the turn.
PromptKept ==
  lapAt = "model" => \E i \in DOMAIN transcript : Prompt(prompts) \in transcript[i].texts

\* A run ends: retries, resumed turns, nudges, recoveries and the operator's
\* interjections do not keep it going past its ceiling.
EveryTurnEnds == Running ~> ~Running

\* state.py: what the operator said is carried verbatim through every compaction.
OperatorHeard ==
  lapAt = "model" =>
    \A x \in claimedTexts : \E i \in DOMAIN transcript : x \in transcript[i].texts

\* files.py: "unchanged since you read it" is only said of a text that was shown whole.
StubHonest ==
  stubbed => \E i \in DOMAIN transcript : transcript[i].about = diskFile /\ transcript[i].whole
=============================================================================
