--------------------------- MODULE Conversations ---------------------------
(***************************************************************************)
(* One conversation as the owner's clients see it: turns admitted under    *)
(* request ids that clients retry, edits and regeneration over the visible *)
(* history, attachments, the live stream of a turn, and the page that is   *)
(* rebuilt when the conversation is opened again.                          *)
(*                                                                         *)
(* A message is its place in the stored history, an event its place in the *)
(* room's log.  What the room's runs do between admission and settlement   *)
(* is Coordination's; here they speak, deliver and settle.                 *)
(***************************************************************************)
EXTENDS Integers, Sequences, FiniteSets, SequencesExt, FiniteSetsExt

CONSTANTS
  Clients,          \* concurrent requests of the owner's devices
  TurnIds,          \* request ids
  Bodies,           \* what a turn may ask for
  Imported,         \* histories from before the conversation had a room
  MaxAttachments,   \* attachments a room may hold
  MaxUploads,       \* bound on separate uploads
  MaxSpoken,        \* bound on contributions
  ClientDeaths      \* bound on restarts

ASSUME ConversationsAssumption ==
  /\ MaxAttachments \in Nat /\ MaxUploads \in Nat
  /\ Bodies \subseteq [keep : Int, regenerate : BOOLEAN, files : BOOLEAN, room : BOOLEAN]
  /\ Imported \subseteq Seq([role : {"user", "assistant"}, seed : BOOLEAN, step : {0}])
  /\ \A stored \in Imported : \A n \in DOMAIN stored : stored[n].seed => stored[n].role = "user"

VARIABLES
  timeline,         \* stored timeline: role, seed of a report, private step
  hidden,           \* HiddenMessage: timeline edited away
  turns,            \* ClientTurn and ClientReplay, per request id
  room,             \* made, the run that holds the slot, conversation removed
  rounds,           \* CoordinationRun
  log,              \* RoomEvent
  contributions,    \* AgentStep: run, private, message delivered, status
  asking,           \* each client's request in start()
  files,            \* RoomAttachment, per request id, and uploads
  watch,            \* one client's stream of a turn
  clientDeaths

conversationVars == <<timeline, hidden, turns, room, rounds, log, contributions,
                      asking, files, watch, clientDeaths>>

NoTurn == [made |-> FALSE, replay |-> 0]
Calm == [pc |-> "idle", answer |-> "none"]
Unwatched == [pc |-> "idle"]
Over == {"succeeded", "partial", "cancelled", "reconciling"}

Message(role, seed, step) == [role |-> role, seed |-> seed, step |-> step]
Event(kind, run, step, message) == [kind |-> kind, run |-> run, step |-> step, message |-> message]

IsPrivate(step) == step # 0 /\ contributions[step].private
VisibleIds == {n \in DOMAIN timeline : n \notin hidden}
\* The numbers of S in their order, and what a sequence has at these places.
Ascending(S) == [n \in 1 .. Cardinality(S) |-> CHOOSE m \in S : Cardinality({k \in S : k <= m}) = n]
At(seq, S) == LET places == Ascending(S) IN [n \in DOMAIN places |-> seq[places[n]]]

ConversationsTypeOK ==
  /\ hidden \subseteq DOMAIN timeline
  /\ room.active \in 0 .. Len(rounds) /\ room.made \in BOOLEAN /\ room.removed \in BOOLEAN
  /\ \A c \in Clients : asking[c].pc \in {"idle", "mapping", "attaching", "admitting"}
  /\ \A i \in DOMAIN rounds : rounds[i].message \in DOMAIN timeline
  /\ watch.pc \in {"idle", "polling", "checking", "done"}

ConversationsInit ==
  /\ timeline \in Imported
  /\ hidden = {} /\ turns = [t \in TurnIds |-> NoTurn]
  /\ room = [made |-> FALSE, active |-> 0, removed |-> FALSE]
  /\ rounds = <<>> /\ log = <<>> /\ contributions = <<>>
  /\ asking = [c \in Clients |-> Calm] /\ files = [of |-> [t \in TurnIds |-> 0], uploaded |-> 0]
  /\ watch = Unwatched /\ clientDeaths = 0

(***************************************************************************)
(* Admission                                                               *)
(***************************************************************************)
RunsOf(t) == {i \in DOMAIN rounds : rounds[i].id = t}
Answer(c, answer) == asking' = [asking EXCEPT ![c].pc = "idle", ![c].answer = answer]
GoOn(c, pc) == asking' = [asking EXCEPT ![c].pc = pc]

\* start(): an exact retry finds its run, a changed one is refused.
ClientAsks(c, t, body) ==
  /\ asking[c].pc = "idle"
  /\ LET ask(pc, answer) == asking' = [asking EXCEPT ![c] = [pc |-> pc, answer |-> answer, id |-> t, body |-> body]]
     IN \/ turns[t].made /\ turns[t].body # body /\ ask("idle", "refused")
        \/ turns[t].made /\ turns[t].body = body /\ RunsOf(t) # {} /\ ask("idle", "told")
        \/ RunsOf(t) = {} /\ (turns[t].made => turns[t].body = body) /\ ask("mapping", "none")
  /\ UNCHANGED <<timeline, hidden, turns, room, rounds, log, contributions, files, watch, clientDeaths>>

\* The history an edit counts: a room client never sees consultations.
EditView(body) == Ascending({n \in VisibleIds : ~(body.room /\ IsPrivate(timeline[n].step))})
Kept(body) == IF body.keep < 0 THEN EditView(body) ELSE SubSeq(EditView(body), 1, body.keep)
RemovedBy(body) ==
  IF body.keep < 0 THEN {}
  ELSE IF body.room THEN {n \in VisibleIds : \A k \in ToSet(Kept(body)) : n > k}
  ELSE ToSet(EditView(body)) \ ToSet(Kept(body))
OwnerWords(seq) == {n \in ToSet(seq) : timeline[n].role = "user"}

\* A mistake: only regeneration looks for an active reply.
EditableLoosely(body) == body.regenerate => room.active = 0
Editable(body) == (body.keep >= 0 \/ body.regenerate) => room.active = 0

CanMap(body) ==
  /\ ~room.removed /\ Editable(body)
  /\ body.keep <= Len(EditView(body))
  /\ body.regenerate => OwnerWords(Kept(body)) # {}

\* The view of a conversation that had no room yet.
ImportedView ==
  [n \in DOMAIN timeline |->
     Event(IF timeline[n].role = "user" THEN "user_message" ELSE "message", 0, 0, n)]

\* The one transaction that edits, picks the replay and names the turn.
ClientMaps(c) ==
  /\ asking[c].pc = "mapping"
  /\ LET t == asking[c].id
         body == asking[c].body
     IN \/ /\ turns[t].made /\ turns[t].body = body /\ GoOn(c, "attaching")
           /\ UNCHANGED <<hidden, turns, room, log>>
        \/ /\ (turns[t].made /\ turns[t].body # body) \/ (~turns[t].made /\ ~CanMap(body))
           /\ Answer(c, "refused") /\ UNCHANGED <<hidden, turns, room, log>>
        \/ /\ ~turns[t].made /\ CanMap(body) /\ GoOn(c, "attaching")
           /\ hidden' = hidden \cup RemovedBy(body)
           /\ turns' = [turns EXCEPT ![t] = [made |-> TRUE, body |-> body,
                replay |-> IF body.regenerate THEN Max(OwnerWords(Kept(body))) ELSE 0]]
           /\ room' = [room EXCEPT !.made = TRUE]
           /\ log' = IF room.made THEN log ELSE ImportedView
  /\ UNCHANGED <<timeline, rounds, contributions, files, watch, clientDeaths>>

Stored(f) == f.uploaded + Cardinality({t \in TurnIds : f.of[t] > 0})

\* A mistake: every delivery of the request stores its attachments again.
StoredUnder(t) == IF t \in TurnIds THEN 0 ELSE 1
\* store_client(): the identity is made of the request, so a retry finds it.
AlreadyStored(t) == files.of[t]

ClientAttaches(c) ==
  /\ asking[c].pc = "attaching"
  /\ LET t == asking[c].id
     IN \/ /\ ~asking[c].body.files \/ AlreadyStored(t) > 0
           /\ GoOn(c, "admitting") /\ UNCHANGED files
        \/ /\ asking[c].body.files /\ AlreadyStored(t) = 0 /\ Stored(files) < MaxAttachments
           /\ files' = [files EXCEPT !.of[t] = @ + 1] /\ GoOn(c, "admitting")
        \/ /\ asking[c].body.files /\ AlreadyStored(t) = 0 /\ Stored(files) >= MaxAttachments
           /\ Answer(c, "refused") /\ UNCHANGED files
  /\ UNCHANGED <<timeline, hidden, turns, room, rounds, log, contributions, watch, clientDeaths>>

UploadFile ==
  /\ room.made /\ files.uploaded < MaxUploads /\ Stored(files) < MaxAttachments
  /\ files' = [files EXCEPT !.uploaded = @ + 1]
  /\ UNCHANGED <<timeline, hidden, turns, room, rounds, log, contributions, asking, watch, clientDeaths>>

\* A mistake: the second admission of a request is not recognised.
DuplicateOfNone(t) == t \notin TurnIds
Duplicate(t) == RunsOf(t) # {}

\* A mistake: the message to be answered again may be gone.
ReplayableAnyway(n) == n \in 0 .. Len(timeline)
Replayable(n) == n # 0 => n \notin hidden

\* Coordinator.start(): the run, the owner's message and the event together.
ClientAdmits(c) ==
  /\ asking[c].pc = "admitting"
  /\ LET t == asking[c].id
         replay == turns[t].replay
         run == Len(rounds) + 1
         message == IF replay = 0 THEN Len(timeline) + 1 ELSE replay
     IN \/ /\ Duplicate(t) /\ Answer(c, "told")
           /\ UNCHANGED <<timeline, room, rounds, log>>
        \/ /\ ~Duplicate(t) /\ ~Replayable(replay) /\ Answer(c, "refused")
           /\ UNCHANGED <<timeline, room, rounds, log>>
        \/ /\ ~Duplicate(t) /\ Replayable(replay) /\ Answer(c, "told")
           /\ timeline' = IF replay = 0 THEN Append(timeline, Message("user", FALSE, 0)) ELSE timeline
           /\ rounds' = Append(rounds,
                [id |-> t, body |-> asking[c].body, message |-> message,
                 replayed |-> replay # 0, straight |-> room.active = 0,
                 status |-> IF room.active = 0 THEN "running" ELSE "waiting_room"])
           /\ room' = IF room.active = 0 THEN [room EXCEPT !.active = run] ELSE room
           /\ log' = Append(log, Event("user_message", run, 0, message))
  /\ UNCHANGED <<hidden, turns, contributions, files, watch, clientDeaths>>

\* The process ends: whatever was between two transactions is gone.
ConversationsCrash ==
  /\ clientDeaths < ClientDeaths /\ clientDeaths' = clientDeaths + 1
  /\ asking' = [c \in Clients |-> Calm] /\ watch' = Unwatched
  /\ UNCHANGED <<timeline, hidden, turns, room, rounds, log, contributions, files>>

\* edit_session(hide): a removed conversation is kept, not shown.
RemoveConversation ==
  /\ ~room.removed /\ room.active = 0
  /\ room' = [room EXCEPT !.removed = TRUE]
  /\ UNCHANGED <<timeline, hidden, turns, rounds, log, contributions, asking, files, watch, clientDeaths>>

(***************************************************************************)
(* The round                                                               *)
(***************************************************************************)
SpeakingIn(i) == {s \in DOMAIN contributions : contributions[s].run = i /\ contributions[s].status = "running"}

\* advance_room(): the oldest waiting run takes the free slot.
RoundAdvances ==
  LET waiting == {i \in DOMAIN rounds : rounds[i].status = "waiting_room"}
  IN /\ room.active = 0 /\ waiting # {}
     /\ room' = [room EXCEPT !.active = Min(waiting)]
     /\ rounds' = [rounds EXCEPT ![Min(waiting)].status = "running"]
     /\ UNCHANGED <<timeline, hidden, turns, log, contributions, asking, files, watch, clientDeaths>>

\* A consultation is held within a contribution that is being made.
ContributionStarts(i, private) ==
  /\ rounds[i].status = "running" /\ Len(contributions) < MaxSpoken
  /\ IF private THEN Cardinality(SpeakingIn(i)) = 1 ELSE SpeakingIn(i) = {}
  /\ contributions' = Append(contributions, [run |-> i, private |-> private, status |-> "running", message |-> 0])
  /\ log' = Append(log, Event("speaker_started", i, Len(contributions) + 1, 0))
  /\ UNCHANGED <<timeline, hidden, turns, room, rounds, asking, files, watch, clientDeaths>>

\* The answer is stored and told, or the contribution is stopped.
ContributionEnds(s, delivered) ==
  LET i == contributions[s].run
  IN /\ rounds[i].status = "running" /\ s \in SpeakingIn(i) /\ s = Max(SpeakingIn(i))
     /\ contributions' = [contributions EXCEPT ![s].status = IF delivered THEN "succeeded" ELSE "cancelled",
                            ![s].message = IF delivered THEN Len(timeline) + 1 ELSE 0]
     /\ timeline' = IF delivered THEN Append(timeline, Message("assistant", FALSE, s)) ELSE timeline
     /\ log' = Append(log, IF ~delivered THEN Event("contribution_stopped", i, s, 0)
                           ELSE Event(IF IsPrivate(s) THEN "consult_result" ELSE "message", i, s, Len(timeline) + 1))
     /\ UNCHANGED <<hidden, turns, room, rounds, asking, files, watch, clientDeaths>>

\* A run ends: complete, stopped by the owner, or lost with its executor.
RoundSettles(i, status) ==
  /\ rounds[i].status = "running"
  /\ status \in {"succeeded", "partial"} => SpeakingIn(i) = {}
  /\ rounds' = [rounds EXCEPT ![i].status = status]
  /\ room' = [room EXCEPT !.active = IF @ = i THEN 0 ELSE @]
  /\ log' = Append(log, Event(IF status \in {"succeeded", "partial"} THEN "round_finished" ELSE "run_stopped", i, 0, 0))
  /\ UNCHANGED <<timeline, hidden, turns, contributions, asking, files, watch, clientDeaths>>

\* cancel() of a run that has not begun: no event tells of its end.
WaitingCancelled(i) ==
  /\ rounds[i].status = "waiting_room"
  /\ rounds' = [rounds EXCEPT ![i].status = "cancelled"]
  /\ UNCHANGED <<timeline, hidden, turns, room, log, contributions, asking, files, watch, clientDeaths>>

(***************************************************************************)
(* The live stream of a turn                                               *)
(***************************************************************************)
Consulted(page) == {page[k].step : k \in {n \in DOMAIN page : page[n].kind = "speaker_started" /\ IsPrivate(page[n].step)}}

\* A mistake: what is private is learnt anew on every page.
PrivateOnPage(known, page) == Consulted(page)
\* The set grows over the pages of one stream.
PrivateSoFar(known, page) == known \cup Consulted(page)

\* attach(): from the beginning of the room's log, whenever it is opened.
StreamOpens(i) ==
  /\ watch.pc \in {"idle", "done"}
  /\ watch' = [pc |-> "polling", run |-> i, cursor |-> 0, private |-> {}, sent |-> <<>>]
  /\ UNCHANGED <<timeline, hidden, turns, room, rounds, log, contributions, asking, files, clientDeaths>>

StreamDrops ==
  /\ watch.pc \in {"polling", "checking"} /\ watch' = Unwatched
  /\ UNCHANGED <<timeline, hidden, turns, room, rounds, log, contributions, asking, files, clientDeaths>>

\* One page of events, told up to the one that ends the turn.
StreamPolls ==
  /\ watch.pc = "polling"
  /\ LET page == SubSeq(log, watch.cursor + 1, Len(log))
         private == PrivateSoFar(watch.private, page)
         mine == {k \in DOMAIN page : page[k].run = watch.run /\ page[k].step \notin private}
         ends == {k \in mine : page[k].kind \in {"round_finished", "run_stopped"}}
         told == Ascending({k \in mine : ends = {} \/ k <= Min(ends)})
     IN watch' =
          [watch EXCEPT !.cursor = Len(log), !.private = private,
             !.sent = @ \o [n \in DOMAIN told |-> watch.cursor + told[n]],
             !.pc = IF ends # {} THEN "done" ELSE IF page = <<>> THEN "checking" ELSE "polling"]
  /\ UNCHANGED <<timeline, hidden, turns, room, rounds, log, contributions, asking, files, clientDeaths>>

\* A mistake: the turn is over when nothing new was said.
OverInSilence(i) == i \in DOMAIN rounds
\* resolve(): the run's status, read after an empty page.
IsOver(i) == rounds[i].status \in Over

StreamChecks ==
  /\ watch.pc = "checking"
  /\ watch' = [watch EXCEPT !.pc = IF IsOver(watch.run) THEN "done" ELSE "polling"]
  /\ UNCHANGED <<timeline, hidden, turns, room, rounds, log, contributions, asking, files, clientDeaths>>

(***************************************************************************)
(* The page of a conversation that is opened again                         *)
(***************************************************************************)
\* A report's seed waits for the reply that it produced.
FoldRow(shown, n) ==
  LET alone == [message |-> n, seed |-> 0]
  IN IF shown.held # <<>> /\ timeline[n].role = "assistant"
     THEN [rows |-> Append(shown.rows, [alone EXCEPT !.seed = Head(shown.held).message]), held |-> <<>>]
     ELSE IF timeline[n].seed THEN [rows |-> shown.rows \o shown.held, held |-> <<alone>>]
     ELSE [rows |-> Append(shown.rows \o shown.held, alone), held |-> <<>>]

RowsFromMessages ==
  LET shown == FoldLeft(FoldRow, [rows |-> <<>>, held |-> <<>>], Ascending(VisibleIds))
  IN shown.rows \o shown.held

\* A mistake: only the stored rows of a consultation are kept back.
PublicEventsAll == DOMAIN log
PublicEvents == {k \in DOMAIN log : ~IsPrivate(log[k].step)}

StartedAt(step) == Min({k \in DOMAIN log : log[k].kind = "speaker_started" /\ log[k].step = step})
\* A later event about the same message moves it: a replayed question.
Telling(n) == Max({k \in PublicEvents : log[k].message = n})
Place(k) == IF log[k].step # 0 THEN StartedAt(log[k].step) ELSE k

\* history(): rows without an event first, the rest in the room's order.
History ==
  LET all == RowsFromMessages
      rows == At(all, {n \in DOMAIN all : ~IsPrivate(timeline[all[n].message].step)})
      known == {r \in ToSet(rows) : \E k \in PublicEvents : log[k].message = r.message}
      delivered == {log[k].step : k \in {n \in DOMAIN log : log[n].kind \in {"message", "consult_result"}}}
      begun == {log[k].step : k \in {n \in PublicEvents : log[n].kind = "speaker_started"}}
      placed == {[message |-> r.message, seed |-> r.seed, step |-> 0, at |-> Place(Telling(r.message))] : r \in known}
                \cup {[message |-> 0, seed |-> 0, step |-> s, at |-> StartedAt(s)] : s \in begun \ delivered}
      unbound == At(rows, {n \in DOMAIN rows : rows[n] \notin known})
      order == Ascending({p.at : p \in placed})
  IN [n \in DOMAIN unbound |-> [message |-> unbound[n].message, seed |-> unbound[n].seed, step |-> 0, at |-> 0]]
     \o [n \in DOMAIN order |-> CHOOSE p \in placed : p.at = order[n]]

ConversationsNext ==
  \/ \E c \in Clients : \/ \E t \in TurnIds, body \in Bodies : ClientAsks(c, t, body)
                        \/ ClientMaps(c) \/ ClientAttaches(c) \/ ClientAdmits(c)
  \/ UploadFile \/ ConversationsCrash \/ RemoveConversation \/ RoundAdvances
  \/ \E i \in DOMAIN rounds : \/ \E private \in BOOLEAN : ContributionStarts(i, private)
                              \/ \E status \in Over : RoundSettles(i, status)
                              \/ WaitingCancelled(i) \/ StreamOpens(i)
  \/ \E s \in DOMAIN contributions, delivered \in BOOLEAN : ContributionEnds(s, delivered)
  \/ StreamDrops \/ StreamPolls \/ StreamChecks

ConversationsSpec == ConversationsInit /\ [][ConversationsNext]_conversationVars

(***************************************************************************)
(* Properties                                                              *)
(***************************************************************************)
\* However often and from however many devices a request is sent, it makes
\* one run, with the input it was admitted with, and one owner's message;
\* a client that is told of success has had its own input admitted.
TurnOnce ==
  /\ \A t \in TurnIds : Cardinality(RunsOf(t)) <= 1
  /\ \A i \in DOMAIN rounds : LET t == rounds[i].id IN turns[t].made /\ rounds[i].body = turns[t].body
  /\ \A i, j \in DOMAIN rounds : i # j /\ rounds[i].message = rounds[j].message => rounds[i].replayed \/ rounds[j].replayed
  /\ \A c \in Clients : asking[c].answer = "told" =>
       turns[asking[c].id].body = asking[c].body /\ RunsOf(asking[c].id) # {}

\* Retried or not, a request stores its attachments once and the room's
\* limit holds for the sum of what turns and uploads brought.
AttachedOnce == (\A t \in TurnIds : files.of[t] <= 1) /\ Stored(files) <= MaxAttachments

\* An answer on the page has its question on the page, however turns were
\* edited, replayed and retried meanwhile; only a run that had to wait for
\* the slot can find its question edited away before it begins.
AnswersVisible ==
  /\ \A s \in DOMAIN contributions :
       LET i == contributions[s].run
       IN contributions[s].message \in VisibleIds /\ rounds[i].straight => rounds[i].message \in VisibleIds
  /\ room.active # 0 /\ rounds[room.active].straight => rounds[room.active].message \in VisibleIds

\* A stream tells the turn's public events, each once and in order, leaves
\* none out up to its cursor, and says the turn is done only when it is.
StreamTold ==
  watch.pc # "idle" =>
    LET mine == {k \in 1 .. watch.cursor : log[k].run = watch.run /\ ~IsPrivate(log[k].step)}
    IN /\ watch.sent = Ascending(mine)
       /\ watch.pc = "done" => rounds[watch.run].status \in Over

\* A seed that was regenerated and first led to a consultation goes with it.
GoesWithConsultation(n) ==
  LET later == {v \in VisibleIds : v > n} IN timeline[n].seed /\ later # {} /\ IsPrivate(timeline[Min(later)].step)

\* The page shows every visible message that is not private once, a report's
\* seed by itself or in the reply it produced, no consultation, every unfinished
\* public contribution once, and an answer below the question it answers.
PageShows ==
  LET page == History
      shown(n) == {k \in DOMAIN page : page[k].message = n}
      folded(n) == {k \in DOMAIN page : page[k].seed = n}
  IN /\ \A n \in VisibleIds : Cardinality(shown(n)) + Cardinality(folded(n)) =
                                IF IsPrivate(timeline[n].step) \/ GoesWithConsultation(n) THEN 0 ELSE 1
     /\ \A n \in DOMAIN timeline : n \notin VisibleIds => shown(n) = {} /\ folded(n) = {}
     /\ \A s \in DOMAIN contributions :
          Cardinality({k \in DOMAIN page : page[k].step = s}) =
            IF IsPrivate(s) \/ contributions[s].status = "succeeded" THEN 0 ELSE 1
     /\ \A s \in DOMAIN contributions :
          LET asked == rounds[contributions[s].run].message
              last == \A i \in DOMAIN rounds : rounds[i].message = asked => i <= contributions[s].run
          IN \A k \in shown(contributions[s].message), q \in shown(asked) :
               contributions[s].message # 0 /\ last => q < k

ConversationsSound == TurnOnce /\ AttachedOnce /\ AnswersVisible /\ StreamTold /\ PageShows
=============================================================================
