------------------------------- MODULE Outbox -------------------------------
(***************************************************************************)
(* Messages to the owner: the delivery rows of services/delivery.py, which  *)
(* are claimed, sent to Telegram or FCM and settled, and the reminder       *)
(* questions of services/reminders.py, which are asked again through them.  *)
(*                                                                         *)
(* A row is identified by its dedupe key. The process that sends it may die *)
(* or lose the answer while the request is still on the wire; the owner     *)
(* answers, edits the reminder, unlinks the bot or replaces the device in   *)
(* between. Time is the day and, for each cycle, whether its next question  *)
(* is due.                                                                 *)
(***************************************************************************)
EXTENDS Naturals, FiniteSets

CONSTANTS
  Runs,           \* runs whose output goes to the owner
  Texts,          \* texts the agent of a run sends itself
  MaxDays,        \* bound on days
  MaxAsks,        \* max_asks of the reminder
  MaxLinks,       \* bound on changes of the link and of the device
  MaxDeaths       \* bound on process deaths

ASSUME OutboxAssumption == MaxDays \in Nat \ {0} /\ {MaxAsks, MaxLinks, MaxDeaths} \subseteq Nat

VARIABLES
  rows,           \* Delivery by dedupe key
  link,           \* TelegramLink: linked, version, and a pairing nonce
  device,         \* the device's registration, 0 when there is none
  stopped,        \* runs cancelled, closed or taken over since
  cycle,          \* ReminderCycle by day
  enabled,        \* the reminder's definition is enabled
  today,
  busy,           \* rows a live process is sending
  wire,           \* requests under way to the transport
  seen,           \* how often the transport took each message
  deaths

outboxVars == <<rows, link, device, stopped, cycle, enabled, today, busy, wire, seen, deaths>>
world == <<busy, wire, seen, deaths>>
reminder == <<cycle, enabled, today>>
places == <<link, device, stopped>>

Days == 1..MaxDays
Keys == {<<"run", r>> : r \in Runs} \cup {<<"manual", r, t>> : r \in Runs, t \in Texts}
          \cup {<<"ask", c, n>> : c \in Days, n \in 1..MaxAsks}
NoRow == [status |-> "none", channel |-> "none", at |-> 0]
OriginRun(k) == IF k[1] = "ask" THEN {} ELSE {k[2]}

OutboxInit ==
  /\ rows = [k \in Keys |-> NoRow]
  /\ link = [chat |-> TRUE, version |-> 1, nonce |-> FALSE]
  /\ device \in {0, 1}
  /\ stopped \in {{}, Runs}
  /\ \E past \in {"none", "answered"} :
       cycle = [d \in Days |-> [status |-> past, asks |-> 0, due |-> FALSE]]
  /\ enabled = TRUE /\ today = 1
  /\ busy = {} /\ wire = {} /\ deaths = 0
  /\ seen = [k \in Keys |-> 0]

\* add(): a row under a key that exists is left as it is.
Added(k, channel, at) ==
  IF rows[k] # NoRow THEN rows
  ELSE [rows EXCEPT ![k] = [status |-> "pending", channel |-> channel, at |-> at]]

\* enqueue_run(), in the transaction that publishes a contribution.
EnqueueRun(r) ==
  /\ r \notin stopped
  /\ rows' = IF link.chat THEN Added(<<"run", r>>, "telegram", link.version)
             ELSE IF device # 0 THEN Added(<<"run", r>>, "fcm", device)
             ELSE Added(<<"run", r>>, "unconfigured", 0)
  /\ UNCHANGED <<places, reminder, world>>

\* A row of the run that may or may not have arrived.
HeldRow(r) == \E k \in Keys : r \in OriginRun(k) /\ rows[k].status \in {"sending", "unknown"}

\* manual(): the agent's own message; its send() is the claim below.
Manual(r, t) ==
  /\ r \notin stopped
  /\ ~HeldRow(r)
  /\ link.chat
  /\ rows' = Added(<<"manual", r, t>>, "telegram", link.version)
  /\ UNCHANGED <<places, reminder, world>>

\* The question of this row still wants an answer.
QuestionOpen(k) == k[1] = "ask" => cycle[k[2]].status = "open"

\* The chat or the registration the row was written for is still there.
SameTarget(k) ==
  CASE rows[k].channel = "telegram" -> link.chat /\ link.version = rows[k].at
    [] rows[k].channel = "fcm" -> device = rows[k].at
    [] OTHER -> TRUE

RunStands(k) == k[1] = "manual" => k[2] \notin stopped

\* The first transaction of send(), from drain() or manual().
Claim(k) ==
  /\ rows[k].status = "pending"
  /\ LET goes == QuestionOpen(k) /\ SameTarget(k) /\ RunStands(k)
     IN IF rows[k].channel = "unconfigured"
        THEN rows' = [rows EXCEPT ![k].status = "unconfigured"] /\ UNCHANGED busy
        ELSE /\ rows' = [rows EXCEPT ![k].status = IF goes THEN "sending" ELSE "cancelled"]
             /\ busy' = IF goes THEN busy \cup {k} ELSE busy
  /\ UNCHANGED <<places, reminder, wire, seen, deaths>>

\* The request leaves (after the file of an upload was read and compared).
Post(k) ==
  /\ k \in busy /\ k \notin wire /\ seen[k] = 0
  /\ wire' = wire \cup {k}
  /\ UNCHANGED <<rows, places, reminder, busy, seen, deaths>>

\* The transport takes it, whoever still waits for the answer.
Arrive(k) ==
  /\ k \in wire
  /\ wire' = wire \ {k}
  /\ seen' = [seen EXCEPT ![k] = @ + 1]
  /\ UNCHANGED <<rows, places, reminder, busy, deaths>>

\* The request is lost on its way.
Vanish(k) ==
  /\ k \in wire
  /\ wire' = wire \ {k}
  /\ UNCHANGED <<rows, places, reminder, busy, seen, deaths>>

\* A confirmed answer settles the row.
Accepted(k) ==
  /\ k \in busy /\ seen[k] = 1 /\ k \notin wire
  /\ rows' = [rows EXCEPT ![k].status = IF @ = "sending" THEN "accepted" ELSE @]
  /\ busy' = busy \ {k}
  /\ UNCHANGED <<places, reminder, wire, seen, deaths>>

\* FCM says the installation is gone: nothing was delivered.
Rejected(k) ==
  /\ k \in busy /\ rows[k].channel = "fcm" /\ seen[k] = 0 /\ k \notin wire
  /\ rows' = [rows EXCEPT ![k].status = IF @ = "sending" THEN "rejected" ELSE @]
  /\ busy' = busy \ {k}
  /\ UNCHANGED <<places, reminder, wire, seen, deaths>>

\* A mistake: a send that raised is put back in the queue.
HoldForRetry(k) ==
  /\ k \in busy
  /\ rows' = [rows EXCEPT ![k].status = "pending"]
  /\ busy' = busy \ {k}
  /\ UNCHANGED <<places, reminder, wire, seen, deaths>>

\* hold(): any exception after the claim, cancellation included.
HoldDelivery(k) ==
  /\ k \in busy
  /\ rows' = [rows EXCEPT ![k].status = IF @ = "sending" THEN "unknown" ELSE @]
  /\ busy' = busy \ {k}
  /\ UNCHANGED <<places, reminder, wire, seen, deaths>>

\* The process dies: rows in "sending" stay there, nobody resets them.
SenderDies ==
  /\ busy # {} /\ deaths < MaxDeaths
  /\ deaths' = deaths + 1
  /\ busy' = {}
  /\ UNCHANGED <<rows, places, reminder, wire, seen>>

(***************************************************************************)
(* Reminders                                                               *)
(***************************************************************************)
OpenCycles == {d \in Days : cycle[d].status = "open"}

\* open(): an open cycle of an earlier day is taken up, else one for today.
Opened == IF OpenCycles # {} \/ cycle[today].status # "none" THEN cycle
          ELSE [cycle EXCEPT ![today] = [status |-> "open", asks |-> 0, due |-> TRUE]]

\* A mistake: only a question still waiting to be sent stops the next one.
UnsettledQueued(c, n) == n > 0 /\ rows[<<"ask", c, n>>].status \in {"pending", "sending"}

\* The last question of the cycle is not settled.
Unsettled(c, n) ==
  n > 0 /\ rows[<<"ask", c, n>>].status \in {"pending", "sending", "unknown", "rejected"}

\* queue() for one cycle, as it stands after open().
Queue(c, cyc) ==
  IF cyc.status # "open" \/ ~cyc.due \/ Unsettled(c, cyc.asks)
  THEN rows' = rows /\ cycle' = [cycle EXCEPT ![c] = cyc]
  ELSE IF cyc.asks >= MaxAsks
  THEN rows' = rows /\ cycle' = [cycle EXCEPT ![c] = [cyc EXCEPT !.status = "gave_up"]]
  ELSE IF ~link.chat
  THEN rows' = rows /\ cycle' = [cycle EXCEPT ![c] = cyc]
  ELSE /\ rows' = Added(<<"ask", c, cyc.asks + 1>>, "telegram", link.version)
       /\ cycle' = [cycle EXCEPT ![c] = [cyc EXCEPT !.asks = @ + 1, !.due = FALSE]]

\* tick(): opens today's cycle when the definition is enabled, then queues the
\* open ones (at most one at a time is open).
Tick ==
  /\ LET now == IF enabled THEN Opened ELSE cycle
         open == {d \in Days : now[d].status = "open"}
     IN /\ open # {}
        /\ \E c \in open : Queue(c, now[c])
  /\ UNCHANGED <<places, enabled, today, world>>

\* ask(): an agent's question; only a cycle it opened itself is queued.
Ask ==
  /\ OpenCycles = {} /\ cycle[today].status = "none"
  /\ Queue(today, Opened[today])
  /\ UNCHANGED <<places, enabled, today, world>>

\* save(): editing or removing the definition cancels the open cycle.
SaveReminder ==
  /\ enabled' \in BOOLEAN
  /\ cycle' = [d \in Days |-> IF d \in OpenCycles THEN [cycle[d] EXCEPT !.status = "cancelled"]
                              ELSE cycle[d]]
  /\ UNCHANGED <<rows, places, today, world>>

\* answer() in the app.
Answer(c) ==
  /\ cycle[c].status = "open"
  /\ cycle' = [cycle EXCEPT ![c].status = "answered"]
  /\ UNCHANGED <<rows, places, enabled, today, world>>

\* answer() by a button of a message the owner has: the last row that may have
\* arrived must belong to the link as it is now.
Press(c, n) ==
  /\ cycle[c].status = "open"
  /\ seen[<<"ask", c, n>>] > 0
  /\ \E i \in 1..MaxAsks :
       /\ rows[<<"ask", c, i>>].status \in {"accepted", "unknown", "sending"}
       /\ \A j \in 1..MaxAsks :
            j > i => rows[<<"ask", c, j>>].status \notin {"accepted", "unknown", "sending"}
       /\ link.chat /\ rows[<<"ask", c, i>>].at = link.version
       /\ rows[<<"ask", c, i>>].status = "accepted" => i = n  \* its message_id is known
  /\ cycle' = [cycle EXCEPT ![c].status = "answered"]
  /\ UNCHANGED <<rows, places, enabled, today, world>>

(***************************************************************************)
(* The owner's side                                                        *)
(***************************************************************************)
\* link(): a fresh nonce; disconnect(): no chat, a new version; accept_text()
\* with /start and the nonce: the chat, a new version.
LinkBot == ~link.nonce /\ link' = [link EXCEPT !.nonce = TRUE]
Pair == link.nonce /\ link' = [chat |-> TRUE, version |-> link.version + 1, nonce |-> FALSE]
Disconnect == link.chat /\ link' = [chat |-> FALSE, version |-> link.version + 1, nonce |-> FALSE]

ChangeLink ==
  /\ link.version < MaxLinks
  /\ LinkBot \/ Pair \/ Disconnect
  /\ UNCHANGED <<rows, device, stopped, reminder, world>>

\* The app registers again or goes away.
ChangeDevice ==
  /\ device # 0 /\ device < MaxLinks
  /\ device' \in {0, device + 1}
  /\ UNCHANGED <<rows, link, stopped, reminder, world>>

OwnerStopsRun(r) ==
  /\ r \notin stopped
  /\ stopped' = stopped \cup {r}
  /\ UNCHANGED <<rows, link, device, reminder, world>>

NextDay ==
  /\ today < MaxDays
  /\ today' = today + 1
  /\ UNCHANGED <<rows, places, cycle, enabled, world>>

Due(c) ==
  /\ cycle[c].status = "open" /\ ~cycle[c].due
  /\ cycle' = [cycle EXCEPT ![c].due = TRUE]
  /\ UNCHANGED <<rows, places, enabled, today, world>>

OutboxNext ==
  \/ \E r \in Runs : EnqueueRun(r) \/ OwnerStopsRun(r) \/ \E t \in Texts : Manual(r, t)
  \/ \E k \in Keys : Claim(k) \/ Post(k) \/ Arrive(k) \/ Vanish(k)
                       \/ Accepted(k) \/ Rejected(k) \/ HoldDelivery(k)
  \/ \E c \in Days : Answer(c) \/ Due(c) \/ \E n \in 1..MaxAsks : Press(c, n)
  \/ SenderDies \/ Tick \/ Ask \/ SaveReminder \/ ChangeLink \/ ChangeDevice \/ NextDay

OutboxSpec == OutboxInit /\ [][OutboxNext]_outboxVars

(***************************************************************************)
(* Properties                                                              *)
(***************************************************************************)
RowState(k) ==
  CASE rows[k].status \in {"none", "pending"} -> "new"
    [] rows[k].status = "sending" -> "admitted"
    [] rows[k].status = "accepted" -> "confirmed"
    [] rows[k].status = "unknown" -> "unknown"
    [] OTHER -> "refused"

Sent == INSTANCE EffectOnce WITH
  Op <- Keys, state <- [k \in Keys |-> RowState(k)], times <- seen

\* send() delivers a message at most once and records nothing it cannot vouch
\* for: through lost answers, dead processes and repeated enqueueing the rows
\* implement EffectOnce under their dedupe keys.
OutboxEffects == Sent!EffectSpec

\* queue(): of all the questions of one cycle at most one is unsettled, and none
\* is asked after it; a second copy is never on its way to the owner.
OneQuestion ==
  \A c \in Days :
    /\ Cardinality({n \in 1..MaxAsks : rows[<<"ask", c, n>>].status \in {"pending", "sending", "unknown"}}) <= 1
    /\ Cardinality({n \in 1..MaxAsks : <<"ask", c, n>> \in wire}) <= 1
=============================================================================
