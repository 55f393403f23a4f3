------------------------------ MODULE Terminal ------------------------------
(***************************************************************************)
(* FORGE at a terminal: what a session keeps and saves between turns, what *)
(* slash commands do to it, and the keyboard during a turn, when a draft,  *)
(* permission prompts, questions and the line editor all read keys.        *)
(*                                                                         *)
(* A conversation is a sequence of turns, each a number, with whether its  *)
(* tool output is still whole; 0 stands for a summary.  Every key typed is *)
(* numbered, so that the model can tell where each of them went.           *)
(***************************************************************************)
EXTENDS Integers, Sequences, FiniteSets, SequencesExt, FiniteSetsExt

CONSTANTS
  Terminals,        \* processes open on one workspace
  MaxTurns,         \* bound on turns
  MaxIds,           \* bound on sessions
  MaxCheckpoints,   \* bound on checkpoints of a session
  KEEP_SESSIONS,    \* saved conversations kept
  ListLimit,        \* saved conversations listed
  Asks,             \* gated actions asked about in a turn
  MaxKeys,          \* bound on keys pressed
  MaxDraft,         \* _MAX_DRAFT
  Letters, Groups, MaxQuery, WindowHeight   \* the picker: options are sets of letters

ASSUME TerminalAssumption ==
  /\ KEEP_SESSIONS \in Nat \ {0} /\ ListLimit \in Nat /\ MaxDraft \in Nat
  /\ WindowHeight \in Nat \ {0} /\ Groups \in Seq([options : Seq(SUBSET Letters), note : BOOLEAN])

VARIABLES
  sessions,         \* Session, per terminal: id, messages, turns, checkpoints, warned
  records,          \* .forge/sessions/<id>.json: messages and turns
  saves,            \* ids by modification time, newest last
  ids, spoken,      \* ids and turns handed out
  givenUp, sharedIds, \* ghosts: turns dropped on request; ids two terminals wrote
  turn,             \* the turn that runs: stage, signal, presses of each route
  asks,             \* prompts: stage, cursor and what the gate was told
  draft, inbox, told, stillTyped,  \* keys: being typed, queued, in the transcript, carried
  pressed,          \* the keys so far
  erased, eaten,    \* ghosts: keys erased by the operator; taken by something else
  region,           \* LiveRegion: paused, rows in flight, rows drawn
  picker            \* Picker: query, cursor, chosen

sessionVars == <<sessions, records, saves, ids, spoken, givenUp, sharedIds>>
keyVars == <<turn, asks, draft, inbox, told, stillTyped, pressed, erased, eaten, region>>
terminalVars == <<sessionVars, keyVars, picker>>

Closed == [id |-> 0, messages |-> <<>>, turns |-> 0, checkpoints |-> <<>>]
Entry(t, whole) == [turn |-> t, whole |-> whole]
TurnsIn(messages) == {messages[i].turn : i \in DOMAIN messages} \ {0}

(***************************************************************************)
(* Sessions and their records.                                             *)
(***************************************************************************)
OpenSession == {w \in Terminals : sessions[w].id # 0}
Put(w, s) == sessions' = [sessions EXCEPT ![w] = s]
Said(w) == TurnsIn(sessions[w].messages)
NotGivenUp == UNCHANGED givenUp
GivesUp(T) == givenUp' = givenUp \cup T
Unsaved == UNCHANGED <<records, saves>>
Holds(w, i) == sharedIds' = sharedIds \cup (IF \E v \in OpenSession \ {w} : sessions[v].id = i THEN {i} ELSE {})

\* new_id() is a time of day in seconds: a terminal opened within the second
\* of another one gets the same id.
NewIds == {ids + 1} \cup {sessions[v].id : v \in {u \in OpenSession : sessions[u].id = ids /\ sessions[u].turns = 0}}

OpenTerminal(w) ==
  /\ sessions[w].id = 0 /\ ids < MaxIds
  /\ \E i \in NewIds : Put(w, [Closed EXCEPT !.id = i]) /\ Holds(w, i) /\ ids' = Max({ids, i})
  /\ NotGivenUp /\ Unsaved /\ UNCHANGED spoken

KeptOldest(order) == IF Len(order) > KEEP_SESSIONS THEN SubSeq(order, 1, KEEP_SESSIONS) ELSE order
\* _prune: the newest by modification time are kept.
Kept(order) == IF Len(order) > KEEP_SESSIONS THEN SubSeq(order, Len(order) - KEEP_SESSIONS + 1, Len(order)) ELSE order

SaveRecord(w, s) ==
  LET order == Append(RemoveFirst(saves, s.id), s.id)
      kept == Kept(order)
  IN /\ saves' = kept
     /\ records' = [i \in ToSet(kept) |-> IF i = s.id THEN [messages |-> s.messages, turns |-> s.turns] ELSE records[i]]
     /\ GivesUp(UNION {TurnsIn(records[i].messages) : i \in (DOMAIN records \ ToSet(kept)) \ {s.id}})

\* _run_turn: the transcript of the turn, one more turn, one save.
SayTurn(w) ==
  /\ sessions[w].id # 0 /\ spoken < MaxTurns
  /\ spoken' = spoken + 1
  /\ LET s == [sessions[w] EXCEPT !.messages = Append(@, Entry(spoken + 1, TRUE)), !.turns = @ + 1]
     IN Put(w, s) /\ SaveRecord(w, s)
  /\ UNCHANGED <<ids, sharedIds>>

Clear(w) ==
  /\ sessions[w].messages # <<>>
  /\ Put(w, [sessions[w] EXCEPT !.messages = <<>>]) /\ GivesUp(Said(w))
  /\ Unsaved /\ UNCHANGED <<ids, spoken, sharedIds>>

\* elide_old_tool_results: the older results are replaced in copies of their messages.
Elided(messages) == [i \in DOMAIN messages |-> IF i < Len(messages) THEN [messages[i] EXCEPT !.whole = FALSE] ELSE messages[i]]
ElidedInPlace(s) == [s EXCEPT !.messages = Elided(@),
  !.checkpoints = [n \in DOMAIN @ |-> IF @[n].messages = s.messages THEN [@[n] EXCEPT !.messages = Elided(@)] ELSE @[n]]]
ElidedIn(s) == [s EXCEPT !.messages = Elided(@)]

\* _compact_now: the old output goes; a summary of all but the first and the
\* last follows when there is enough and the call succeeds.
CompactContext(w) ==
  /\ sessions[w].messages # <<>>
  /\ LET s == ElidedIn(sessions[w])
         n == Len(s.messages)
     IN \/ Put(w, s) /\ NotGivenUp
        \/ /\ n > 2
           /\ Put(w, [s EXCEPT !.messages = <<@[1], Entry(0, TRUE), @[n]>>])
           /\ GivesUp(Said(w))
  /\ Unsaved /\ UNCHANGED <<ids, spoken, sharedIds>>

Checkpoint(w) ==
  /\ sessions[w].messages # <<>> /\ Len(sessions[w].checkpoints) < MaxCheckpoints
  /\ Put(w, [sessions[w] EXCEPT !.checkpoints = Append(@,
       [turn |-> sessions[w].turns, messages |-> sessions[w].messages, taken |-> sessions[w].messages])])
  /\ NotGivenUp /\ Unsaved /\ UNCHANGED <<ids, spoken, sharedIds>>

\* /restore takes the latest and keeps it; /restore N drops N and what follows.
Rewound(s, n) == [s EXCEPT !.messages = s.checkpoints[n].messages, !.turns = s.checkpoints[n].turn]
Restore(w, n) ==
  LET s == sessions[w]
  IN /\ n \in DOMAIN s.checkpoints
     /\ \/ n = Len(s.checkpoints) /\ Put(w, Rewound(s, n)) /\ GivesUp(Said(w))
        \/ /\ Put(w, [Rewound(s, n) EXCEPT !.checkpoints = SubSeq(@, 1, n - 1)])
           /\ GivesUp(Said(w) \cup UNION {TurnsIn(s.checkpoints[k].messages) : k \in n + 1 .. Len(s.checkpoints)})
     /\ Unsaved /\ UNCHANGED <<ids, spoken, sharedIds>>

Listing == {saves[k] : k \in {j \in DOMAIN saves : Len(saves) - j < ListLimit}}

ResumedUnderOwnId(s, i) == [s EXCEPT !.messages = records[i].messages, !.turns = records[i].turns]
\* /resume: the stored transcript, its id and its turns; checkpoints stay.
Resumed(s, i) == [s EXCEPT !.messages = records[i].messages, !.id = i, !.turns = records[i].turns]
ResumeRecord(w) ==
  /\ sessions[w].id # 0
  /\ \E i \in Listing \ {sessions[w].id} : Put(w, Resumed(sessions[w], i)) /\ Holds(w, i)
  /\ NotGivenUp /\ Unsaved /\ UNCHANGED <<ids, spoken>>

\* /exit, end of input, or the window closed: memory goes, records stay.
Leave(w) ==
  /\ sessions[w].id # 0
  /\ Put(w, Closed)
  /\ NotGivenUp /\ Unsaved /\ UNCHANGED <<ids, spoken, sharedIds>>

SessionNext == \E w \in Terminals :
  OpenTerminal(w) \/ SayTurn(w) \/ Clear(w) \/ CompactContext(w) \/ Checkpoint(w)
  \/ (\E n \in 1 .. MaxCheckpoints : Restore(w, n)) \/ ResumeRecord(w) \/ Leave(w)

(***************************************************************************)
(* The keyboard during a turn.                                             *)
(***************************************************************************)
Answers == <<"once", "always", "no", "redirect">>
Quiet == [stage |-> "none", kind |-> "gate", cursor |-> 0, answer |-> "none", by |-> "none"]
OpenAsks == {a \in Asks : asks[a].stage = "open"}
Reading == {a \in Asks : asks[a].stage \in {"open", "orphan"}}
NewKey == pressed + 1
Press == pressed < MaxKeys /\ pressed' = NewKey
NoKey == UNCHANGED <<pressed, erased, eaten>>

StartTurn ==
  /\ turn.stage = "idle" /\ stillTyped = <<>>
  /\ turn' = [stage |-> "running", signal |-> FALSE, keyPresses |-> 0, signals |-> 0, overlapped |-> FALSE]
  /\ inbox' = <<>> /\ draft' = <<>> /\ region' = [paused |-> FALSE, drawn |-> 0]
  /\ UNCHANGED <<asks, told, stillTyped>> /\ NoKey

\* LiveRegion: a frame is the header and the draft's row; pausing clears it.
Frame == 1 + (IF draft # <<>> THEN 1 ELSE 0)
DrawFrame ==
  /\ turn.stage = "running" /\ ~region.paused /\ region.drawn # Frame
  /\ region' = [region EXCEPT !.drawn = Frame]
  /\ UNCHANGED <<turn, asks, draft, inbox, told, stillTyped>> /\ NoKey
PausedRegion == [paused |-> TRUE, drawn |-> 0]

FirstCursorOnYes == 1
\* TerminalOracle.ask and consult: nothing opens once the turn was told to stop.
FirstCursor == Len(Answers)
Ask(a, kind) ==
  /\ turn.stage = "running" /\ asks[a].stage = "none"
  /\ IF turn.signal
     THEN /\ asks' = [asks EXCEPT ![a] = [Quiet EXCEPT !.stage = "over", !.kind = kind, !.answer = "refused"]]
          /\ UNCHANGED <<region, turn>>
     ELSE /\ asks' = [asks EXCEPT ![a] = [Quiet EXCEPT !.stage = "open", !.kind = kind, !.cursor = FirstCursor]]
          /\ region' = PausedRegion /\ turn' = [turn EXCEPT !.overlapped = @ \/ OpenAsks # {}]
  /\ UNCHANGED <<draft, inbox, told, stillTyped>> /\ NoKey

Told(a, answer, by) ==
  /\ asks' = [asks EXCEPT ![a] = [@ EXCEPT !.stage = "over", !.by = by,
       !.answer = IF asks[a].stage = "orphan" THEN "refused" ELSE answer]]
  /\ region' = IF asks[a].stage = "open" THEN [region EXCEPT !.paused = FALSE] ELSE region

Picked(cursor) == CASE Answers[cursor] \in {"once", "always"} -> "approved" [] OTHER -> "refused"

\* A key that a permission prompt reads, in _select_sync.
PromptReads(a, key) ==
  /\ a \in Reading /\ asks[a].kind = "gate" /\ Press
  /\ eaten' = eaten \cup {NewKey} /\ UNCHANGED erased
  /\ CASE key \in {"y", "a"} -> Told(a, "approved", key)
       [] key \in {"n", "t", "cancel"} -> Told(a, "refused", key)
       [] key = "enter" -> Told(a, Picked(asks[a].cursor), IF asks[a].cursor = FirstCursor THEN "accident" ELSE "chosen")
       [] key = "up" -> asks' = [asks EXCEPT ![a].cursor = ((@ + Len(Answers) - 2) % Len(Answers)) + 1] /\ UNCHANGED region
       [] key = "down" -> asks' = [asks EXCEPT ![a].cursor = (@ % Len(Answers)) + 1] /\ UNCHANGED region
       [] OTHER -> UNCHANGED <<asks, region>>
  /\ UNCHANGED <<turn, draft, inbox, told, stillTyped>>

\* Between keys a prompt looks whether its turn was told to stop.
PromptAbandoned(a) ==
  /\ a \in Reading /\ asks[a].kind = "gate" /\ turn.signal
  /\ Told(a, "refused", "abandoned")
  /\ UNCHANGED <<turn, draft, inbox, told, stillTyped>> /\ NoKey

\* consult() reads a whole line with input(), which nothing interrupts; read
\* after its turn is gone, the line is lost.
ConsultReads(a) ==
  /\ a \in Reading /\ asks[a].kind = "consult" /\ Press
  /\ eaten' = eaten \cup {NewKey} /\ UNCHANGED erased
  /\ Told(a, "refused", "line")
  /\ UNCHANGED <<turn, draft, inbox, told, stillTyped>>

\* Composer._feed.
Forces(presses) == presses >= 2
ComposerReads(key) ==
  /\ turn.stage = "running" /\ Press
  /\ CASE key = "cancel" /\ draft # <<>> -> draft' = <<>> /\ erased' = erased \cup ToSet(draft) \cup {NewKey} /\ UNCHANGED <<inbox, eaten, turn>>
       [] key = "cancel" /\ draft = <<>> ->
            /\ turn' = [turn EXCEPT !.keyPresses = @ + 1, !.signal = TRUE,
                 !.stage = IF Forces(turn.keyPresses + 1) THEN "forced" ELSE @]
            /\ erased' = erased \cup {NewKey} /\ UNCHANGED <<draft, inbox, eaten>>
       [] key = "enter" -> /\ inbox' = (IF draft # <<>> THEN Append(inbox, draft) ELSE inbox) /\ draft' = <<>>
                           /\ erased' = erased \cup {NewKey} /\ UNCHANGED <<eaten, turn>>
       [] key = "backspace" -> /\ draft' = (IF draft = <<>> THEN draft ELSE Front(draft))
                               /\ erased' = erased \cup {NewKey} \cup (IF draft = <<>> THEN {} ELSE {Last(draft)}) /\ UNCHANGED <<inbox, eaten, turn>>
       [] key \in {"y", "x"} /\ Len(draft) < MaxDraft -> draft' = Append(draft, NewKey) /\ UNCHANGED <<inbox, erased, eaten, turn>>
       [] OTHER -> eaten' = eaten \cup {NewKey} /\ UNCHANGED <<draft, inbox, erased, turn>>
  /\ UNCHANGED <<asks, told, stillTyped, region>>

\* Control-C delivered as a signal: it has a count of its own.
Signalled ==
  /\ turn.stage = "running" /\ turn.signals < 2
  /\ turn' = [turn EXCEPT !.signals = @ + 1, !.signal = TRUE, !.stage = IF Forces(turn.signals + 1) THEN "forced" ELSE @]
  /\ UNCHANGED <<asks, draft, inbox, told, stillTyped, region>> /\ NoKey

\* The loop claims what is queued at its next boundary.
ClaimInbox ==
  /\ turn.stage = "running" /\ OpenAsks = {} /\ inbox # <<>>
  /\ told' = told \o inbox /\ inbox' = <<>>
  /\ UNCHANGED <<turn, asks, draft, stillTyped, region>> /\ NoKey

CarriedQueue(queued, left) == queued
\* The turn ends; composer.stop() hands back the draft, and the read it was
\* waiting in may still take the key that comes next.
Carried(queued, left) == queued \o (IF left # <<>> THEN <<left>> ELSE <<>>)
EndTurn ==
  /\ turn.stage = "forced" \/ (turn.stage = "running" /\ OpenAsks = {})
  /\ turn' = [turn EXCEPT !.stage = "over"]
  /\ stillTyped' = Carried(inbox, draft) /\ inbox' = <<>> /\ draft' = <<>>
  /\ asks' = [a \in Asks |-> IF asks[a].stage = "open" THEN [asks[a] EXCEPT !.stage = "orphan"] ELSE asks[a]]
  /\ region' = PausedRegion
  /\ UNCHANGED told /\ NoKey
LateRead ==
  /\ turn.stage = "over" /\ Press /\ eaten' = eaten \cup {NewKey}
  /\ turn' = [turn EXCEPT !.stage = "idle"]
  /\ UNCHANGED <<erased, asks, draft, inbox, told, stillTyped, region>>
BackToPrompt ==
  /\ turn.stage = "over" /\ turn' = [turn EXCEPT !.stage = "idle"]
  /\ UNCHANGED <<asks, draft, inbox, told, stillTyped, region>> /\ NoKey

\* The line editor opens with what was carried; its line becomes a turn, or
\* control-C clears it.
SubmitCarried(keep) ==
  /\ turn.stage = "idle" /\ stillTyped # <<>>
  /\ told' = (IF keep THEN told \o stillTyped ELSE told)
  /\ erased' = (IF keep THEN erased ELSE erased \cup UNION {ToSet(stillTyped[i]) : i \in DOMAIN stillTyped})
  /\ stillTyped' = <<>>
  /\ UNCHANGED <<turn, asks, draft, inbox, region, pressed, eaten>>

KeyNext ==
  \/ StartTurn \/ DrawFrame \/ Signalled \/ ClaimInbox \/ EndTurn \/ LateRead \/ BackToPrompt
  \/ \E a \in Asks : Ask(a, "gate") \/ Ask(a, "consult") \/ PromptAbandoned(a) \/ ConsultReads(a)
  \/ \E a \in Asks : \E key \in {"y", "n", "enter", "cancel", "up", "x"} : PromptReads(a, key)
  \/ \E key \in {"y", "x", "enter", "cancel", "backspace"} : ComposerReads(key)
  \/ \E keep \in BOOLEAN : SubmitCarried(keep)

(***************************************************************************)
(* The picker: groups of options narrowed by what is typed.                *)
(***************************************************************************)
Matches(option, query) == ToSet(query) \subseteq option
HeaderRow == [option |-> FALSE, letters |-> {}]
HitRows(group, query) ==
  FlattenSeq([k \in DOMAIN group.options |->
    IF Matches(group.options[k], query) THEN <<[option |-> TRUE, letters |-> group.options[k]]>> ELSE <<>>])
RowsOf(group, query) ==
  LET hits == HitRows(group, query)
  IN IF hits = <<>> /\ ~(group.note /\ query = <<>>) THEN <<>>
     ELSE <<HeaderRow>> \o (IF group.note /\ hits = <<>> THEN <<HeaderRow>> ELSE <<>>) \o hits
Rows(query) == FlattenSeq([g \in DOMAIN Groups |-> RowsOf(Groups[g], query)])

OptionRows(rows) == {i \in DOMAIN rows : rows[i].option}
FirstOption(rows) == IF OptionRows(rows) = {} THEN 0 ELSE Min(OptionRows(rows))

StepAnywhere(rows, cursor, delta) == ((cursor - 1 + delta + Len(rows)) % Len(rows)) + 1
\* One row up or down, wrapping, to the next one that can be chosen.
Step(rows, cursor, delta) ==
  LET reached(k) == ((cursor - 1 + k * delta + k * Len(rows)) % Len(rows)) + 1
      steps == {k \in 1 .. Len(rows) : rows[reached(k)].option}
  IN IF steps = {} THEN cursor ELSE reached(Min(steps))

WindowStart(rows, cursor) ==
  IF Len(rows) <= WindowHeight THEN 0
  ELSE Max({0, Min({cursor - 1 - WindowHeight \div 2, Len(rows) - WindowHeight})})
Window(rows, cursor) == WindowStart(rows, cursor) + 1 .. Min({Len(rows), WindowStart(rows, cursor) + WindowHeight})

OpenPicker ==
  /\ picker.stage = "closed" /\ FirstOption(Rows(<<>>)) # 0
  /\ \E c \in OptionRows(Rows(<<>>)) : picker' = [stage |-> "open", query |-> <<>>, cursor |-> c]
TypeLetter(l) ==
  /\ picker.stage = "open" /\ Len(picker.query) < MaxQuery
  /\ FirstOption(Rows(Append(picker.query, l))) # 0
  /\ picker' = [picker EXCEPT !.query = Append(@, l), !.cursor = FirstOption(Rows(Append(picker.query, l)))]
EraseLetter ==
  /\ picker.stage = "open" /\ picker.query # <<>>
  /\ picker' = [picker EXCEPT !.query = Front(@), !.cursor = FirstOption(Rows(Front(picker.query)))]
MoveCursor(delta) ==
  /\ picker.stage = "open"
  /\ picker' = [picker EXCEPT !.cursor = Step(Rows(picker.query), @, delta)]
ChooseOrCancel == picker.stage = "open" /\ picker' = [picker EXCEPT !.stage = "closed"]

PickerNext == OpenPicker \/ (\E l \in Letters : TypeLetter(l)) \/ EraseLetter
  \/ (\E delta \in {-1, 1} : MoveCursor(delta)) \/ ChooseOrCancel

(***************************************************************************)
TerminalInit ==
  /\ sessions = [w \in Terminals |-> Closed] /\ records = <<>> /\ saves = <<>>
  /\ ids = 0 /\ spoken = 0 /\ givenUp = {} /\ sharedIds = {}
  /\ turn = [stage |-> "idle", signal |-> FALSE, keyPresses |-> 0, signals |-> 0, overlapped |-> FALSE]
  /\ asks = [a \in Asks |-> Quiet]
  /\ draft = <<>> /\ inbox = <<>> /\ told = <<>> /\ stillTyped = <<>>
  /\ pressed = 0 /\ erased = {} /\ eaten = {} /\ region = PausedRegion
  /\ picker = [stage |-> "closed", query |-> <<>>, cursor |-> 0]

TerminalNext ==
  \/ SessionNext /\ UNCHANGED <<keyVars, picker>>
  \/ KeyNext /\ UNCHANGED <<sessionVars, picker>>
  \/ PickerNext /\ UNCHANGED <<sessionVars, keyVars>>

TerminalSpec == TerminalInit /\ [][TerminalNext]_terminalVars

TerminalTypeOK ==
  /\ \A w \in Terminals : sessions[w].id \in 0 .. MaxIds /\ sessions[w].turns \in Nat
  /\ DOMAIN records = ToSet(saves) /\ Len(saves) <= KEEP_SESSIONS
  /\ turn.stage \in {"idle", "running", "forced", "over"}
  /\ \A a \in Asks : asks[a].stage \in {"none", "open", "orphan", "over"} /\ asks[a].cursor \in 0 .. Len(Answers)
  /\ pressed \in 0 .. MaxKeys /\ region.drawn \in 0 .. 2
  /\ picker.stage \in {"open", "closed"}

\* A turn that was worked is in a terminal's conversation or in a saved one,
\* unless the operator cleared, rewound or summarised it away, it was among
\* the oldest of too many, or two terminals wrote the same record.
TurnsKept ==
  \A t \in 1 .. spoken :
    \/ t \in givenUp
    \/ \E i \in DOMAIN records : t \in TurnsIn(records[i].messages)
    \/ sharedIds # {}
    \/ \E w \in Terminals : t \in Said(w)

\* A checkpoint holds what the conversation was when it was taken, whatever
\* was restored, said and compacted since.
CheckpointsIntact ==
  \A w \in Terminals : \A n \in DOMAIN sessions[w].checkpoints :
    sessions[w].checkpoints[n].messages = sessions[w].checkpoints[n].taken

\* Every key the operator pressed for the agent is in the draft, queued,
\* carried to the next prompt or in the transcript; the others were erased,
\* or read by a prompt or by a read that outlived its turn.
TypedKept ==
  LET within(queue) == UNION {ToSet(queue[i]) : i \in DOMAIN queue}
  IN 1 .. pressed = ToSet(draft) \cup within(inbox) \cup within(told) \cup within(stillTyped) \cup erased \cup eaten

\* A gated action is approved by the key for it or by Enter on an answer the
\* operator moved to: never by an accidental Enter, by an interruption, or by
\* an answer that arrives after its turn.
ApprovedDeliberately ==
  \A a \in Asks : asks[a].answer = "approved" => asks[a].by \in {"y", "a", "chosen"} /\ asks[a].kind = "gate"

\* While one question is open, nothing is drawn over it.
QuestionReadable == (OpenAsks # {} /\ ~turn.overlapped) => region.drawn = 0

\* What the picker would choose is an option that is on the screen.
PickerSteady ==
  picker.stage = "open" =>
    /\ picker.cursor \in OptionRows(Rows(picker.query))
    /\ picker.cursor \in Window(Rows(picker.query), picker.cursor)

TerminalSound == TurnsKept /\ CheckpointsIntact /\ TypedKept /\ ApprovedDeliberately /\ QuestionReadable /\ PickerSteady
=============================================================================
