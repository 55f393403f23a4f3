--------------------------- MODULE MessagesProofs ---------------------------
(***************************************************************************)
(* Proofs about what reaches the owner, n8n and the backend, for any runs,  *)
(* days, links, polls and bounds: a message is delivered at most once and   *)
(* never called delivered when it was not, one question of a cycle is open  *)
(* at a time, a definition has one workflow, no watch forgets news nobody   *)
(* was told, and what the owner writes on Telegram is worked once.          *)
(***************************************************************************)
EXTENDS Outbox, Automations, Watches, TelegramInbox, FiniteSetTheorems, TLAPS

-----------------------------------------------------------------------------
(* The outbox. *)

RowStatus == {"none", "pending", "unconfigured", "sending", "cancelled", "accepted", "rejected", "unknown"}
Row == [status : RowStatus, channel : {"none", "telegram", "fcm", "unconfigured"}, at : Nat]
Link == [chat : BOOLEAN, version : Nat, nonce : BOOLEAN]
Cycle == [status : {"none", "open", "answered", "cancelled", "gave_up"}, asks : 0 .. MaxAsks, due : BOOLEAN]

OutboxTyped ==
  /\ rows \in [Keys -> Row] /\ link \in Link /\ device \in Nat
  /\ cycle \in [Days -> Cycle] /\ today \in Days
  /\ busy \subseteq Keys /\ wire \subseteq Keys /\ seen \in [Keys -> 0 .. 1]

\* A live sender holds only rows in "sending"; a request is on the wire once,
\* for a row nobody has called settled; what a status says of the world is true.
RowsTrue ==
  /\ \A k \in busy : rows[k].status = "sending"
  /\ \A k \in wire : seen[k] = 0 /\ rows[k].status \in {"sending", "unknown"}
  /\ \A k \in Keys :
       /\ seen[k] = 1 => rows[k].status \in {"sending", "unknown", "accepted"}
       /\ rows[k].status = "accepted" => seen[k] = 1
       /\ rows[k].status = "none" => rows[k] = NoRow

\* Of a cycle's questions, exactly those up to the last have a row and those
\* before it are settled.
QuestionsInTurn ==
  \A c \in Days :
    /\ cycle[c].status = "none" => cycle[c].asks = 0
    /\ \A n \in 1 .. MaxAsks :
         /\ n > cycle[c].asks <=> rows[<<"ask", c, n>>].status = "none"
         /\ n < cycle[c].asks => rows[<<"ask", c, n>>].status \in {"accepted", "cancelled", "unconfigured"}

OutboxInv == OutboxTyped /\ RowsTrue /\ QuestionsInTurn

\* One row is replaced by another; every other row stays.
LEMMA RowChanges ==
  ASSUME OutboxTyped, NEW k \in Keys, NEW new \in Row, rows' = [rows EXCEPT ![k] = new]
  PROVE  rows' \in [Keys -> Row] /\ rows'[k] = new /\ \A j \in Keys \ {k} : rows'[j] = rows[j]
BY DEF OutboxTyped

\* A row's status is replaced; the rest of it and every other row stay.
LEMMA StatusChanges ==
  ASSUME OutboxTyped, NEW k \in Keys, NEW to \in RowStatus, rows' = [rows EXCEPT ![k].status = to]
  PROVE  /\ rows' \in [Keys -> Row] /\ rows'[k].status = to
         /\ \A j \in Keys \ {k} : rows'[j] = rows[j]
<1> DEFINE new == [rows[k] EXCEPT !.status = to]
<1>1. new \in Row /\ new.status = to
  BY DEF OutboxTyped, Row
<1>2. rows' = [rows EXCEPT ![k] = new]
  OBVIOUS
<1> HIDE DEF new
<1> QED BY <1>1, <1>2, RowChanges

\* What add() writes is a row with no news, or nothing.
LEMMA AddsRow ==
  ASSUME OutboxTyped, NEW k \in Keys, NEW channel \in {"telegram", "fcm", "unconfigured"}, NEW at \in Nat,
         rows' = Added(k, channel, at)
  PROVE  \/ rows' = rows /\ rows[k] # NoRow
         \/ /\ rows[k].status = "none" /\ rows'[k].status = "pending"
            /\ rows' \in [Keys -> Row] /\ \A j \in Keys \ {k} : rows'[j] = rows[j]
<1>1. CASE rows[k] # NoRow
  BY <1>1 DEF Added
<1>2. CASE rows[k] = NoRow
  <2> DEFINE new == [status |-> "pending", channel |-> channel, at |-> at]
  <2>1. new \in Row /\ new.status = "pending"
    BY DEF Row, RowStatus
  <2>2. rows' = [rows EXCEPT ![k] = new]
    BY <1>2 DEF Added
  <2>3. rows[k].status = "none"
    BY <1>2 DEF NoRow
  <2> HIDE DEF new
  <2> QED BY <2>1, <2>2, <2>3, RowChanges
<1> QED BY <1>1, <1>2

LEMMA OutboxStarts == OutboxInit => OutboxInv
<1> SUFFICES ASSUME OutboxInit PROVE OutboxInv
  OBVIOUS
<1>1. rows \in [Keys -> Row] /\ \A k \in Keys : rows[k] = NoRow /\ rows[k].status = "none"
  BY DEF OutboxInit, NoRow, Row, RowStatus
<1>2. cycle \in [Days -> Cycle] /\ \A c \in Days : cycle[c].asks = 0
  BY OutboxAssumption DEF OutboxInit, Cycle
<1>3. link \in Link /\ device \in Nat /\ busy \subseteq Keys /\ wire \subseteq Keys /\ seen \in [Keys -> 0 .. 1]
  BY DEF OutboxInit, Link
<1>4. \A d \in Days, n \in 1 .. MaxAsks : <<"ask", d, n>> \in Keys
  BY DEF Keys
<1>5. today \in Days
  BY OutboxAssumption DEF OutboxInit, Days
<1>6. OutboxTyped
  BY <1>1, <1>2, <1>3, <1>5 DEF OutboxTyped
<1>7. RowsTrue
  BY <1>1 DEF RowsTrue, OutboxInit
<1>8. QuestionsInTurn
  <2>1. ASSUME NEW n \in 1 .. MaxAsks PROVE n > 0
    BY OutboxAssumption
  <2>2. ASSUME NEW d \in Days, NEW n \in 1 .. MaxAsks 
        PROVE  /\ n > cycle[d].asks <=> rows[<<"ask", d, n>>].status = "none"
               /\ ~(n < cycle[d].asks)
    <3>1. <<"ask", d, n>> \in Keys /\ n \in Nat /\ cycle[d].asks = 0
      BY <1>2, <1>4, <2>1, OutboxAssumption
    <3>2. rows[<<"ask", d, n>>].status = "none"
      BY <1>1, <3>1
    <3> QED BY <2>1, <3>1, <3>2
  <2> QED BY <1>2, <2>2 DEF QuestionsInTurn
<1> QED BY <1>6, <1>7, <1>8 DEF OutboxInv

\* The reminder's part: nothing it does touches the wire.
\* A question of today or of an open cycle is queued behind settled ones only.
LEMMA QueueKeeps ==
  ASSUME OutboxInv, NEW c \in Days, NEW cyc \in Cycle, cyc.asks = cycle[c].asks, cyc.status # "none",
         Queue(c, cyc), UNCHANGED <<places, world>>, today' \in Days
  PROVE  OutboxInv'
<1> DEFINE k == <<"ask", c, cyc.asks + 1>>
           next == [cyc EXCEPT !.asks = @ + 1, !.due = FALSE]
           over == [cyc EXCEPT !.status = "gave_up"]
<1>1. \A d \in Days, n \in 1 .. MaxAsks : <<"ask", d, n>> \in Keys
  BY DEF Keys
<1>2. CASE rows' = rows /\ cycle' = [cycle EXCEPT ![c] = cyc]
  <2>1. cycle' \in [Days -> Cycle] /\ \A d \in Days : cycle'[d].asks = cycle[d].asks /\ (cycle'[d].status = "none" => cycle[d].status = "none")
    BY <1>2 DEF OutboxInv, OutboxTyped
  <2> QED BY <1>2, <2>1 DEF OutboxInv, OutboxTyped, RowsTrue, QuestionsInTurn, places, world
<1>3. CASE rows' = rows /\ cycle' = [cycle EXCEPT ![c] = over]
  <2>1. over \in Cycle /\ over.asks = cyc.asks /\ over.status # "none"
    BY DEF Cycle
  <2> HIDE DEF over
  <2>2. cycle' \in [Days -> Cycle] /\ \A d \in Days : cycle'[d].asks = cycle[d].asks /\ (cycle'[d].status = "none" => cycle[d].status = "none")
    BY <1>3, <2>1 DEF OutboxInv, OutboxTyped
  <2> QED BY <1>3, <2>2 DEF OutboxInv, OutboxTyped, RowsTrue, QuestionsInTurn, places, world
<1>4. CASE /\ cyc.asks < MaxAsks /\ ~Unsettled(c, cyc.asks)
           /\ rows' = Added(k, "telegram", link.version) /\ cycle' = [cycle EXCEPT ![c] = next]
  <2>1. next \in Cycle /\ next.asks = cyc.asks + 1 /\ next.status # "none" /\ cyc.asks \in 0 .. MaxAsks
    <3>1. cyc.asks \in 0 .. MaxAsks /\ cyc.asks + 1 \in 0 .. MaxAsks
      BY <1>4, OutboxAssumption DEF Cycle
    <3>2. next.asks = cyc.asks + 1 /\ next.status = cyc.status
      BY DEF Cycle
    <3>3. next \in Cycle
      BY <3>1 DEF Cycle
    <3> QED BY <3>1, <3>2, <3>3
  <2>2. k \in Keys /\ cyc.asks + 1 \in 1 .. MaxAsks
    BY <1>1, <1>4, <2>1, OutboxAssumption
  <2> HIDE DEF next
  <2>3. cycle' \in [Days -> Cycle] /\ cycle'[c] = next /\ \A d \in Days \ {c} : cycle'[d] = cycle[d]
    BY <1>4, <2>1 DEF OutboxInv, OutboxTyped
  <2>4. rows[k] = NoRow
    BY <2>1, <2>2, OutboxAssumption DEF OutboxInv, QuestionsInTurn, RowsTrue
  <2>5. link.version \in Nat
    BY DEF OutboxInv, OutboxTyped, Link
  <2>6. /\ rows' \in [Keys -> Row] /\ \A j \in Keys \ {k} : rows'[j] = rows[j]
        /\ rows[k].status = "none" /\ rows'[k].status = "pending"
    BY <1>4, <2>2, <2>4, <2>5, AddsRow DEF OutboxInv, OutboxTyped
  <2>7. cyc.asks > 0 => rows[<<"ask", c, cyc.asks>>].status \in {"accepted", "cancelled", "unconfigured"}
    <3>1. SUFFICES ASSUME cyc.asks > 0 PROVE rows[<<"ask", c, cyc.asks>>].status \in {"accepted", "cancelled", "unconfigured"}
      OBVIOUS
    <3>2. <<"ask", c, cyc.asks>> \in Keys
      BY <1>1, <2>1, <3>1, OutboxAssumption
    <3>3. rows[<<"ask", c, cyc.asks>>].status \in RowStatus \ {"none"}
      BY <2>1, <3>1, <3>2, OutboxAssumption DEF OutboxInv, OutboxTyped, Row, QuestionsInTurn
    <3> QED BY <1>4, <3>1, <3>3 DEF Unsettled, RowStatus
  <2>8. QuestionsInTurn'
    <3> SUFFICES ASSUME NEW d \in Days
                 PROVE  /\ cycle'[d].status = "none" => cycle'[d].asks = 0
                        /\ \A n \in 1 .. MaxAsks :
                             /\ n > cycle'[d].asks <=> rows'[<<"ask", d, n>>].status = "none"
                             /\ n < cycle'[d].asks => rows'[<<"ask", d, n>>].status \in {"accepted", "cancelled", "unconfigured"}
      BY DEF QuestionsInTurn
    <3>1. CASE d = c
      <4>1. ASSUME NEW n \in 1 .. MaxAsks
            PROVE  /\ n > cyc.asks + 1 <=> rows'[<<"ask", c, n>>].status = "none"
                   /\ n < cyc.asks + 1 => rows'[<<"ask", c, n>>].status \in {"accepted", "cancelled", "unconfigured"}
        <5>1. n \in Nat /\ n > 0 /\ cyc.asks \in Nat /\ <<"ask", c, n>> \in Keys
          BY <1>1, <2>1, OutboxAssumption
        <5>2. CASE n = cyc.asks + 1
          BY <2>6, <5>1, <5>2
        <5>3. CASE n # cyc.asks + 1
          <6>1. <<"ask", c, n>> # k
            BY <5>3
          <6>2. rows'[<<"ask", c, n>>] = rows[<<"ask", c, n>>]
            BY <2>6, <5>1, <6>1
          <6> HIDE DEF k
          <6> QED BY <2>7, <5>1, <5>3, <6>2 DEF OutboxInv, QuestionsInTurn
        <5> QED BY <5>2, <5>3
      <4> QED BY <2>1, <2>3, <3>1, <4>1
    <3>2. CASE d # c
      <4>1. \A n \in 1 .. MaxAsks : <<"ask", d, n>> \in Keys /\ <<"ask", d, n>> # k
        BY <1>1, <3>2
      <4> HIDE DEF k
      <4> QED BY <2>3, <2>6, <3>2, <4>1 DEF OutboxInv, QuestionsInTurn
    <3> QED BY <3>1, <3>2
  <2> HIDE DEF k
  <2>9. OutboxTyped'
    BY <2>3, <2>6 DEF OutboxInv, OutboxTyped, places, world
  <2>10. RowsTrue'
    BY <2>2, <2>6 DEF OutboxInv, RowsTrue, OutboxTyped, places, world, NoRow
  <2> QED BY <2>8, <2>9, <2>10 DEF OutboxInv
<1>5. cyc.asks >= MaxAsks \/ cyc.asks < MaxAsks
  BY OutboxAssumption DEF Cycle
<1> QED BY <1>2, <1>3, <1>4, <1>5 DEF Queue

\* A row that is not settled may take any status; the questions stay in turn.
LEMMA TurnKept ==
  ASSUME OutboxInv, NEW k \in Keys, NEW to \in RowStatus \ {"none"}, rows[k].status \in {"pending", "sending"},
         rows' = [rows EXCEPT ![k].status = to], cycle' = cycle
  PROVE  QuestionsInTurn'
<1>1. rows'[k].status = to /\ \A j \in Keys \ {k} : rows'[j] = rows[j]
  BY StatusChanges DEF OutboxInv
<1>2. \A d \in Days, n \in 1 .. MaxAsks : <<"ask", d, n>> \in Keys
  BY DEF Keys
<1> QED BY <1>1, <1>2 DEF OutboxInv, QuestionsInTurn

\* A row enters the queue, for any of the two ways a message of a run does.
LEMMA QueuesRow ==
  ASSUME OutboxInv, NEW k \in Keys, NEW channel \in {"telegram", "fcm", "unconfigured"}, NEW at \in Nat,
         rows' = Added(k, channel, at), k[1] # "ask", UNCHANGED <<places, reminder, world>>
  PROVE  OutboxInv'
<1>1. CASE rows' = rows
  BY <1>1 DEF OutboxInv, OutboxTyped, RowsTrue, QuestionsInTurn, places, reminder, world
<1>2. CASE /\ rows[k].status = "none" /\ rows'[k].status = "pending"
           /\ rows' \in [Keys -> Row] /\ \A j \in Keys \ {k} : rows'[j] = rows[j]
  <2>1. OutboxTyped'
    BY <1>2 DEF OutboxInv, OutboxTyped, places, reminder, world
  <2>2. RowsTrue'
    BY <1>2 DEF OutboxInv, OutboxTyped, RowsTrue, world
  <2>3. \A d \in Days, n \in 1 .. MaxAsks : <<"ask", d, n>> \in Keys /\ <<"ask", d, n>> # k
    BY DEF Keys
  <2>4. QuestionsInTurn'
    BY <1>2, <2>3 DEF OutboxInv, QuestionsInTurn, reminder
  <2> QED BY <2>1, <2>2, <2>4 DEF OutboxInv
<1> QED BY <1>1, <1>2, AddsRow DEF OutboxInv

\* The steps of a delivery, from its claim to its answer.
LEMMA DeliveryKeeps ==
  ASSUME OutboxInv, NEW k \in Keys,
         \/ Claim(k) \/ Post(k) \/ Arrive(k) \/ Vanish(k) \/ Accepted(k) \/ Rejected(k) \/ HoldDelivery(k)
  PROVE  OutboxInv'
<1>1. CASE Claim(k)
  <2>1. PICK to \in {"sending", "cancelled", "unconfigured"} :
             /\ rows' = [rows EXCEPT ![k].status = to]
             /\ busy' = IF to = "sending" THEN busy \cup {k} ELSE busy
    BY <1>1 DEF Claim
  <2>2. rows[k].status = "pending" /\ UNCHANGED <<places, reminder, wire, seen>> /\ to \in RowStatus
    BY <1>1 DEF Claim, RowStatus
  <2>3. rows' \in [Keys -> Row] /\ rows'[k].status = to /\ \A j \in Keys \ {k} : rows'[j] = rows[j]
    BY <2>1, <2>2, StatusChanges DEF OutboxInv
  <2>4. OutboxTyped'
    BY <2>1, <2>2, <2>3 DEF OutboxInv, OutboxTyped, places, reminder
  <2>5. RowsTrue'
    BY <2>1, <2>2, <2>3 DEF OutboxInv, OutboxTyped, RowsTrue
  <2>6. QuestionsInTurn'
    BY <2>1, <2>2, TurnKept DEF reminder
  <2> QED BY <2>4, <2>5, <2>6 DEF OutboxInv
<1>2. CASE Accepted(k) \/ Rejected(k) \/ HoldDelivery(k)
  <2>1. rows[k].status = "sending" /\ k \in busy
    BY <1>2 DEF Accepted, Rejected, HoldDelivery, OutboxInv, RowsTrue
  <2>2. PICK to \in {"accepted", "rejected", "unknown"} :
             /\ rows' = [rows EXCEPT ![k].status = to]
             /\ to = "accepted" => seen[k] = 1 /\ k \notin wire
             /\ to = "rejected" => seen[k] = 0 /\ k \notin wire
    BY <1>2, <2>1 DEF Accepted, Rejected, HoldDelivery
  <2>3. busy' = busy \ {k} /\ UNCHANGED <<places, reminder, wire, seen>> /\ to \in RowStatus
    BY <1>2 DEF Accepted, Rejected, HoldDelivery, RowStatus
  <2>4. rows' \in [Keys -> Row] /\ rows'[k].status = to /\ \A j \in Keys \ {k} : rows'[j] = rows[j]
    BY <2>2, <2>3, StatusChanges DEF OutboxInv
  <2>5. OutboxTyped'
    BY <2>3, <2>4 DEF OutboxInv, OutboxTyped, places, reminder
  <2>6. RowsTrue'
    BY <2>1, <2>2, <2>3, <2>4 DEF OutboxInv, OutboxTyped, RowsTrue
  <2>7. QuestionsInTurn'
    BY <2>1, <2>2, <2>3, TurnKept DEF reminder
  <2> QED BY <2>5, <2>6, <2>7 DEF OutboxInv
<1>3. CASE Post(k)
  <2>1. rows[k].status = "sending" /\ seen[k] = 0 /\ wire' = wire \cup {k} /\ UNCHANGED <<rows, places, reminder, busy, seen>>
    BY <1>3 DEF Post, OutboxInv, RowsTrue
  <2> QED BY <2>1 DEF OutboxInv, OutboxTyped, RowsTrue, QuestionsInTurn, places, reminder
<1>4. CASE Arrive(k)
  <2>1. seen[k] = 0 /\ rows[k].status \in {"sending", "unknown"} /\ wire' = wire \ {k} /\ UNCHANGED <<rows, places, reminder, busy>>
    BY <1>4 DEF Arrive, OutboxInv, RowsTrue
  <2>2. seen' \in [Keys -> 0 .. 1] /\ seen'[k] = 1 /\ \A j \in Keys \ {k} : seen'[j] = seen[j]
    BY <1>4, <2>1 DEF Arrive, OutboxInv, OutboxTyped
  <2> QED BY <2>1, <2>2 DEF OutboxInv, OutboxTyped, RowsTrue, QuestionsInTurn, places, reminder
<1>5. CASE Vanish(k)
  BY <1>5 DEF Vanish, OutboxInv, OutboxTyped, RowsTrue, QuestionsInTurn, places, reminder
<1> QED BY <1>1, <1>2, <1>3, <1>4, <1>5

\* The owner's side and the clock of a cycle touch no row.
LEMMA CyclesKeep ==
  ASSUME OutboxInv, UNCHANGED <<rows, busy, wire, seen>>, link' \in Link, device' \in Nat, today' \in Days,
         cycle' \in [Days -> Cycle],
         \A d \in Days : cycle'[d].asks = cycle[d].asks /\ (cycle'[d].status = "none" => cycle[d].status = "none")
  PROVE  OutboxInv'
BY DEF OutboxInv, OutboxTyped, RowsTrue, QuestionsInTurn

\* What open() returns is a cycle table with the same count of questions.
LEMMA OpenedFits ==
  ASSUME OutboxInv
  PROVE  Opened \in [Days -> Cycle] /\ \A d \in Days : Opened[d].asks = cycle[d].asks
<1> DEFINE fresh == [status |-> "open", asks |-> 0, due |-> TRUE]
<1>1. fresh \in Cycle /\ fresh.asks = 0
  BY OutboxAssumption DEF Cycle
<1>2. Opened = cycle \/ (Opened = [cycle EXCEPT ![today] = fresh] /\ cycle[today].asks = 0)
  BY DEF Opened, OutboxInv, OutboxTyped, QuestionsInTurn
<1> HIDE DEF fresh
<1> QED BY <1>1, <1>2 DEF OutboxInv, OutboxTyped

LEMMA OutboxGoesOn == OutboxInv /\ [OutboxNext]_outboxVars => OutboxInv'
<1> SUFFICES ASSUME OutboxInv, [OutboxNext]_outboxVars PROVE OutboxInv'
  OBVIOUS
<1> USE OutboxAssumption
<1>0. \A d \in Days, n \in 1 .. MaxAsks : <<"ask", d, n>> \in Keys
  BY DEF Keys
<1>1. ASSUME NEW r \in Runs, EnqueueRun(r) PROVE OutboxInv'
  <2>1. <<"run", r>> \in Keys /\ link.version \in Nat /\ device \in Nat
    BY DEF Keys, OutboxInv, OutboxTyped, Link
  <2>2. PICK channel \in {"telegram", "fcm", "unconfigured"}, at \in Nat : rows' = Added(<<"run", r>>, channel, at)
    BY <1>1, <2>1 DEF EnqueueRun
  <2>3. UNCHANGED <<places, reminder, world>>
    BY <1>1 DEF EnqueueRun
  <2>4. <<"run", r>>[1] # "ask"
    OBVIOUS
  <2> QED BY <2>1, <2>2, <2>3, <2>4, QueuesRow
<1>2. ASSUME NEW r \in Runs, NEW t \in Texts, Manual(r, t) PROVE OutboxInv'
  <2>1. <<"manual", r, t>> \in Keys /\ link.version \in Nat
    BY DEF Keys, OutboxInv, OutboxTyped, Link
  <2>2. rows' = Added(<<"manual", r, t>>, "telegram", link.version) /\ UNCHANGED <<places, reminder, world>>
    BY <1>2 DEF Manual
  <2>3. <<"manual", r, t>>[1] # "ask"
    OBVIOUS
  <2> QED BY <2>1, <2>2, <2>3, QueuesRow
<1>3. CASE Tick
  <2>1. PICK c \in Days, cyc \in Cycle : /\ Queue(c, cyc) /\ cyc.asks = cycle[c].asks /\ cyc.status # "none"
    <3>1. PICK now \in {Opened, cycle} : \E c \in Days : now[c].status = "open" /\ Queue(c, now[c])
      BY <1>3 DEF Tick
    <3>2. now \in [Days -> Cycle] /\ \A d \in Days : now[d].asks = cycle[d].asks
      BY <3>1, OpenedFits DEF OutboxInv, OutboxTyped
    <3>3. PICK c \in Days : now[c].status = "open" /\ Queue(c, now[c])
      BY <3>1
    <3>4. now[c] \in Cycle /\ now[c].asks = cycle[c].asks /\ now[c].status # "none"
      BY <3>2, <3>3
    <3> QED BY <3>3, <3>4
  <2>2. UNCHANGED <<places, world>> /\ today' \in Days
    BY <1>3 DEF Tick, OutboxInv, OutboxTyped
  <2> QED BY <2>1, <2>2, QueueKeeps
<1>4. CASE Ask
  <2>1. today \in Days /\ Opened[today] \in Cycle /\ Opened[today].asks = cycle[today].asks
    BY OpenedFits DEF OutboxInv, OutboxTyped
  <2>2. Opened[today].status # "none"
    BY <1>4, <2>1 DEF Ask, Opened, OutboxInv, OutboxTyped
  <2>3. Queue(today, Opened[today]) /\ UNCHANGED <<places, world>> /\ today' \in Days
    BY <1>4, <2>1 DEF Ask
  <2> QED BY <2>1, <2>2, <2>3, QueueKeeps
<1>5. CASE SaveReminder
  <2>1. ASSUME NEW d \in Days
        PROVE  cycle'[d] \in Cycle /\ cycle'[d].asks = cycle[d].asks /\ (cycle'[d].status = "none" => cycle[d].status = "none")
    <3> DEFINE new == [cycle[d] EXCEPT !.status = "cancelled"]
    <3>1. cycle[d] \in Cycle /\ (cycle'[d] = cycle[d] \/ cycle'[d] = new)
      BY <1>5 DEF SaveReminder, OutboxInv, OutboxTyped
    <3>2. new \in Cycle /\ new.asks = cycle[d].asks /\ new.status = "cancelled"
      BY <3>1 DEF Cycle
    <3> HIDE DEF new
    <3> QED BY <3>1, <3>2
  <2>2. cycle' \in [Days -> Cycle]
    <3>1. cycle' = [d \in Days |-> cycle'[d]]
      BY <1>5 DEF SaveReminder
    <3> QED BY <2>1, <3>1
  <2>3. UNCHANGED <<rows, places, today, world>>
    BY <1>5 DEF SaveReminder
  <2> QED BY <2>1, <2>2, <2>3, CyclesKeep DEF OutboxInv, OutboxTyped, places, world
<1>6. ASSUME NEW c \in Days, Answer(c) \/ Due(c) \/ \E n \in 1 .. MaxAsks : Press(c, n) PROVE OutboxInv'
  <2>1. cycle[c] \in Cycle /\ cycle[c].status = "open"
    BY <1>6 DEF Answer, Due, Press, OutboxInv, OutboxTyped
  <2>2. PICK new \in {[cycle[c] EXCEPT !.status = "answered"], [cycle[c] EXCEPT !.due = TRUE]} : cycle' = [cycle EXCEPT ![c] = new]
    BY <1>6 DEF Answer, Due, Press
  <2>3. new \in Cycle /\ new.asks = cycle[c].asks /\ new.status # "none"
    <3>1. CASE new = [cycle[c] EXCEPT !.status = "answered"]
      BY <2>1, <3>1 DEF Cycle
    <3>2. CASE new = [cycle[c] EXCEPT !.due = TRUE]
      BY <2>1, <3>2 DEF Cycle
    <3> QED BY <2>2, <3>1, <3>2
  <2>4. cycle' \in [Days -> Cycle]
        /\ \A d \in Days : cycle'[d].asks = cycle[d].asks /\ (cycle'[d].status = "none" => cycle[d].status = "none")
    BY <2>2, <2>3 DEF OutboxInv, OutboxTyped
  <2>5. UNCHANGED <<rows, places, today, world>>
    BY <1>6 DEF Answer, Due, Press
  <2> QED BY <2>4, <2>5, CyclesKeep DEF OutboxInv, OutboxTyped, places, world
<1>7. CASE ChangeLink
  <2>1. link' \in Link
    <3>1. link.version \in Nat /\ link.version + 1 \in Nat /\ link \in Link
      BY DEF OutboxInv, OutboxTyped, Link
    <3>2. CASE LinkBot
      <4>1. link' = [link EXCEPT !.nonce = TRUE]
        BY <3>2 DEF LinkBot
      <4> QED BY <3>1, <4>1, Zenon DEF Link
    <3>3. CASE Pair \/ Disconnect
      <4>1. PICK linked \in BOOLEAN : link' = [chat |-> linked, version |-> link.version + 1, nonce |-> FALSE]
        BY <3>3, Zenon DEF Pair, Disconnect
      <4> QED BY <3>1, <4>1, Zenon DEF Link
    <3> QED BY <1>7, <3>2, <3>3 DEF ChangeLink
  <2> QED BY <1>7, <2>1, CyclesKeep DEF ChangeLink, reminder, world, OutboxInv, OutboxTyped
<1>8. CASE ChangeDevice
  <2>1. device' \in Nat
    BY <1>8 DEF ChangeDevice, OutboxInv, OutboxTyped
  <2> QED BY <1>8, <2>1, CyclesKeep DEF ChangeDevice, reminder, world, OutboxInv, OutboxTyped
<1>9. CASE NextDay
  <2>1. today' \in Days
    BY <1>9 DEF NextDay, Days, OutboxInv, OutboxTyped
  <2> QED BY <1>9, <2>1, CyclesKeep DEF NextDay, places, world, OutboxInv, OutboxTyped
<1>10. CASE SenderDies
  BY <1>10 DEF SenderDies, OutboxInv, OutboxTyped, RowsTrue, QuestionsInTurn, places, reminder
<1>11. CASE (\E r \in Runs : OwnerStopsRun(r)) \/ UNCHANGED outboxVars
  <2>1. UNCHANGED <<rows, link, device, cycle, today, busy, wire, seen>>
    BY <1>11 DEF OwnerStopsRun, outboxVars, reminder, world
  <2> QED BY <2>1 DEF OutboxInv, OutboxTyped, RowsTrue, QuestionsInTurn
<1>12. ASSUME NEW k \in Keys,
              Claim(k) \/ Post(k) \/ Arrive(k) \/ Vanish(k) \/ Accepted(k) \/ Rejected(k) \/ HoldDelivery(k)
       PROVE  OutboxInv'
  BY <1>12, DeliveryKeeps
<1> QED BY <1>1, <1>2, <1>3, <1>4, <1>5, <1>6, <1>7, <1>8, <1>9, <1>10, <1>11, <1>12 DEF OutboxNext

\* delivery.py, reminders.py: in every reachable state the rows say what is true
\* of the wire and the questions of a cycle are settled in their order.
THEOREM OutboxShape == OutboxSpec => []OutboxInv
BY OutboxStarts, OutboxGoesOn, PTL DEF OutboxSpec

\* Added rows and the reminder's steps are news to nobody.
LEMMA QuietStep ==
  ASSUME OutboxInv, OutboxNext, ~\E k \in Keys : \/ Claim(k) \/ Post(k) \/ Arrive(k) \/ Vanish(k)
                                                 \/ Accepted(k) \/ Rejected(k) \/ HoldDelivery(k)
  PROVE  seen' = seen /\ \A k \in Keys : RowState(k)' = RowState(k)
<1> USE OutboxAssumption
<1>1. ASSUME rows' = rows, seen' = seen PROVE seen' = seen /\ \A k \in Keys : RowState(k)' = RowState(k)
  BY <1>1 DEF RowState
<1>2. ASSUME NEW k \in Keys, NEW channel \in {"telegram", "fcm", "unconfigured"}, NEW at \in Nat, rows' = Added(k, channel, at),
             seen' = seen
      PROVE  seen' = seen /\ \A j \in Keys : RowState(j)' = RowState(j)
  <2>1. \/ rows' = rows
        \/ rows[k].status = "none" /\ rows'[k].status = "pending" /\ \A j \in Keys \ {k} : rows'[j] = rows[j]
    BY <1>2, AddsRow DEF OutboxInv
  <2>2. ASSUME NEW j \in Keys, rows[k].status = "none", rows'[k].status = "pending", \A i \in Keys \ {k} : rows'[i] = rows[i]
        PROVE  RowState(j)' = RowState(j)
    <3>1. CASE j = k
      BY <2>2, <3>1 DEF RowState
    <3>2. CASE j # k
      BY <2>2, <3>2 DEF RowState
    <3> QED BY <3>1, <3>2
  <2> QED BY <1>1, <1>2, <2>1, <2>2
<1>3. link.version \in Nat /\ device \in Nat
  BY DEF OutboxInv, OutboxTyped, Link
<1>4. ASSUME NEW r \in Runs, EnqueueRun(r) PROVE seen' = seen /\ \A k \in Keys : RowState(k)' = RowState(k)
  <2>1. <<"run", r>> \in Keys /\ seen' = seen
    BY <1>4 DEF Keys, EnqueueRun, world
  <2>2. PICK channel \in {"telegram", "fcm", "unconfigured"}, at \in Nat : rows' = Added(<<"run", r>>, channel, at)
    BY <1>3, <1>4 DEF EnqueueRun
  <2> QED BY <1>2, <2>1, <2>2
<1>5. ASSUME NEW r \in Runs, NEW t \in Texts, Manual(r, t) PROVE seen' = seen /\ \A k \in Keys : RowState(k)' = RowState(k)
  <2>1. <<"manual", r, t>> \in Keys /\ seen' = seen /\ rows' = Added(<<"manual", r, t>>, "telegram", link.version)
    BY <1>5 DEF Keys, Manual, world
  <2> QED BY <1>2, <1>3, <2>1
<1>6. ASSUME NEW c \in Days, NEW cyc \in Cycle, Queue(c, cyc), seen' = seen
      PROVE  seen' = seen /\ \A k \in Keys : RowState(k)' = RowState(k)
  <2>1. CASE rows' = rows
    BY <1>1, <1>6, <2>1
  <2>2. CASE cyc.asks < MaxAsks /\ rows' = Added(<<"ask", c, cyc.asks + 1>>, "telegram", link.version)
    <3>1. cyc.asks + 1 \in 1 .. MaxAsks
      BY <2>2 DEF Cycle
    <3>2. <<"ask", c, cyc.asks + 1>> \in Keys
      BY <3>1 DEF Keys
    <3> QED BY <1>2, <1>3, <1>6, <2>2, <3>2
  <2>3. cyc.asks >= MaxAsks \/ cyc.asks < MaxAsks
    BY DEF Cycle
  <2> QED BY <1>6, <2>1, <2>2, <2>3 DEF Queue
<1>7. CASE Tick
  <2>1. PICK c \in Days, now \in {Opened, cycle} : Queue(c, now[c])
    BY <1>7 DEF Tick
  <2>2. now[c] \in Cycle
    BY <2>1, OpenedFits DEF OutboxInv, OutboxTyped
  <2> QED BY <1>6, <1>7, <2>1, <2>2 DEF Tick, world
<1>8. CASE Ask
  BY <1>6, <1>8, OpenedFits DEF Ask, world, OutboxInv, OutboxTyped
<1>9. CASE \/ (\E r \in Runs : OwnerStopsRun(r)) \/ SenderDies \/ SaveReminder \/ ChangeLink \/ ChangeDevice \/ NextDay
           \/ (\E c \in Days : Answer(c) \/ Due(c) \/ \E n \in 1 .. MaxAsks : Press(c, n))
  <2>1. rows' = rows /\ seen' = seen
    BY <1>9 DEF OwnerStopsRun, SenderDies, SaveReminder, ChangeLink, ChangeDevice, NextDay, Answer, Due, Press, world
  <2> QED BY <1>1, <2>1
<1> QED BY <1>4, <1>5, <1>7, <1>8, <1>9 DEF OutboxNext

\* Every step admits, delivers, settles or gives up one message, or is none of
\* EffectOnce's.
LEMMA DeliveryStep ==
  ASSUME OutboxInv, [OutboxNext]_outboxVars
  PROVE  [Sent!EffectNext]_(Sent!effectVars)
<1>q. ASSUME seen' = seen, \A k \in Keys : RowState(k)' = RowState(k) PROVE UNCHANGED Sent!effectVars
  BY <1>q DEF Sent!effectVars
<1>1. CASE UNCHANGED outboxVars
  BY <1>1, <1>q DEF outboxVars, RowState
<1>2. ASSUME NEW k \in Keys, Claim(k) PROVE Sent!EffectNext
  <2>1. PICK to \in {"sending", "cancelled", "unconfigured"} : rows' = [rows EXCEPT ![k].status = to]
    BY <1>2 DEF Claim
  <2>2. rows[k].status = "pending" /\ seen' = seen /\ to \in RowStatus /\ seen[k] = 0
    BY <1>2 DEF Claim, RowStatus, OutboxInv, OutboxTyped, RowsTrue
  <2>3. rows'[k].status = to /\ \A j \in Keys \ {k} : rows'[j] = rows[j]
    BY <2>1, <2>2, StatusChanges DEF OutboxInv
  <2>4. RowState(k) = "new" /\ RowState(k)' = (IF to = "sending" THEN "admitted" ELSE "refused")
        /\ \A j \in Keys \ {k} : RowState(j)' = RowState(j)
    BY <2>2, <2>3 DEF RowState
  <2>5. Sent!Admit(k) \/ Sent!Refuse(k)
    BY <2>2, <2>4 DEF Sent!Admit, Sent!Refuse
  <2> QED BY <2>5 DEF Sent!EffectNext
<1>3. ASSUME NEW k \in Keys, Accepted(k) \/ Rejected(k) \/ HoldDelivery(k) PROVE Sent!EffectNext
  <2>1. rows[k].status = "sending" /\ seen' = seen
    BY <1>3 DEF Accepted, Rejected, HoldDelivery, OutboxInv, RowsTrue
  <2>2. PICK to \in {"accepted", "rejected", "unknown"} :
             /\ rows' = [rows EXCEPT ![k].status = to]
             /\ to = "accepted" => seen[k] = 1
             /\ to = "rejected" => seen[k] = 0
    BY <1>3, <2>1 DEF Accepted, Rejected, HoldDelivery
  <2>3. rows'[k].status = to /\ \A j \in Keys \ {k} : rows'[j] = rows[j]
    BY <2>2, StatusChanges DEF OutboxInv, RowStatus
  <2>4. /\ RowState(k) = "admitted" /\ \A j \in Keys \ {k} : RowState(j)' = RowState(j)
        /\ to = "accepted" => RowState(k)' = "confirmed"
        /\ to = "rejected" => RowState(k)' = "refused"
        /\ to = "unknown" => RowState(k)' = "unknown"
    BY <2>1, <2>3 DEF RowState
  <2>5. CASE to = "accepted"
    <3>1. Sent!Confirm(k)
      BY <2>1, <2>2, <2>4, <2>5 DEF Sent!Confirm
    <3> QED BY <3>1 DEF Sent!EffectNext
  <2>6. CASE to = "rejected"
    <3>1. Sent!Refuse(k)
      BY <2>1, <2>2, <2>4, <2>6 DEF Sent!Refuse
    <3> QED BY <3>1 DEF Sent!EffectNext
  <2>7. CASE to = "unknown"
    <3>1. Sent!GiveUp({k})
      BY <2>1, <2>4, <2>7 DEF Sent!GiveUp
    <3> QED BY <3>1 DEF Sent!EffectNext
  <2> QED BY <2>2, <2>5, <2>6, <2>7
<1>4. ASSUME NEW k \in Keys, Arrive(k) PROVE Sent!EffectNext
  <2>1. seen[k] = 0 /\ rows[k].status \in {"sending", "unknown"} /\ rows' = rows
    BY <1>4 DEF Arrive, OutboxInv, RowsTrue
  <2>2. seen' = [seen EXCEPT ![k] = 1]
    <3>1. seen' = [seen EXCEPT ![k] = seen[k] + 1] /\ seen[k] + 1 = 1
      BY <1>4, <2>1 DEF Arrive
    <3> QED BY <3>1
  <2>3. Sent!Happen(k)
    BY <2>1, <2>2 DEF Sent!Happen, RowState
  <2> QED BY <2>3 DEF Sent!EffectNext
<1>5. ASSUME NEW k \in Keys, Post(k) \/ Vanish(k) PROVE UNCHANGED Sent!effectVars
  BY <1>5, <1>q DEF Post, Vanish, RowState
<1> QED BY <1>q, <1>1, <1>2, <1>3, <1>4, <1>5, QuietStep

\* send(): whatever dies, is lost, enqueued again or answered late, a message is
\* delivered at most once and its row claims nothing it cannot vouch for.
THEOREM MessagesSentOnce == OutboxSpec => OutboxEffects
<1>1. OutboxInit => Sent!EffectInit
  BY DEF OutboxInit, Sent!EffectInit, RowState, NoRow
<1> QED BY <1>1, DeliveryStep, OutboxShape, PTL DEF OutboxSpec, OutboxEffects, Sent!EffectSpec

\* What is open at most one index has at most one member.
LEMMA AtMostOne ==
  ASSUME NEW S, IsFiniteSet(S), \A x, y \in S : x = y
  PROVE  Cardinality(S) <= 1
<1>1. CASE S = {}
  BY <1>1, FS_EmptySet
<1>2. CASE S # {}
  <2>1. PICK x \in S : S = {x}
    BY <1>2
  <2> QED BY <2>1, FS_Singleton
<1> QED BY <1>1, <1>2

\* queue(): of the questions of one cycle at most one waits for its delivery and
\* at most one is on its way to the owner.
THEOREM OneQuestionOpen == OutboxSpec => []OneQuestion
<1>1. ASSUME OutboxInv PROVE OneQuestion
  <2> SUFFICES ASSUME NEW c \in Days
               PROVE  /\ Cardinality({n \in 1 .. MaxAsks : rows[<<"ask", c, n>>].status \in {"pending", "sending", "unknown"}}) <= 1
                      /\ Cardinality({n \in 1 .. MaxAsks : <<"ask", c, n>> \in wire}) <= 1
    BY DEF OneQuestion
  <2>1. ASSUME NEW n \in 1 .. MaxAsks, rows[<<"ask", c, n>>].status \in {"pending", "sending", "unknown"} PROVE n = cycle[c].asks
    BY <1>1, <2>1, OutboxAssumption DEF OutboxInv, OutboxTyped, Cycle, QuestionsInTurn
  <2>2. ASSUME NEW n \in 1 .. MaxAsks, <<"ask", c, n>> \in wire PROVE n = cycle[c].asks
    BY <1>1, <2>1, <2>2 DEF OutboxInv, RowsTrue
  <2>3. IsFiniteSet(1 .. MaxAsks)
    BY FS_Interval, OutboxAssumption
  <2>4. Cardinality({n \in 1 .. MaxAsks : rows[<<"ask", c, n>>].status \in {"pending", "sending", "unknown"}}) <= 1
    <3> DEFINE S == {n \in 1 .. MaxAsks : rows[<<"ask", c, n>>].status \in {"pending", "sending", "unknown"}}
    <3>1. IsFiniteSet(S)
      BY <2>3, FS_Subset
    <3>2. \A x, y \in S : x = y
      BY <2>1
    <3> QED BY <3>1, <3>2, AtMostOne
  <2>5. Cardinality({n \in 1 .. MaxAsks : <<"ask", c, n>> \in wire}) <= 1
    <3> DEFINE S == {n \in 1 .. MaxAsks : <<"ask", c, n>> \in wire}
    <3>1. IsFiniteSet(S)
      BY <2>3, FS_Subset
    <3>2. \A x, y \in S : x = y
      BY <2>2
    <3> QED BY <3>1, <3>2, AtMostOne
  <2> QED BY <2>4, <2>5
<1> QED BY <1>1, OutboxShape, PTL

-----------------------------------------------------------------------------
(* The watches. *)

Revs == 1 .. MaxWatchEdits + 1
Gens == 1 .. MaxRelinks + 1
Poll == [at : {"none", "read", "commit", "trigger", "ack"}, rev : Nat, gen : Nat, page : Nat, version : Nat,
         ids : SUBSET Mail, whole : BOOLEAN]
Batch == [rev : Nat, gen : Nat, ids : SUBSET Mail, ack : BOOLEAN]

MailTyped ==
  /\ watch \in [rev : Revs, bound : Gens, on : BOOLEAN] /\ account \in Gens
  /\ cursor \in [Scopes -> [page : Nat, version : Nat]]
  /\ poll \in [Polls -> Poll] /\ batch \subseteq Batch /\ mailbox \subseteq Mail

\* A batch of the scope still waits for its acknowledgement.
Waiting(rev, gen) == \E b \in batch : b.rev = rev /\ b.gen = gen /\ ~b.ack

\* A scan begun at the cursor's version was begun with no batch waiting.
ScansFenced ==
  \A p \in Polls : poll[p].at \in {"read", "commit"} =>
    /\ Scope(p) \in Scopes /\ poll[p].version <= cursor[Scope(p)].version
    /\ poll[p].version = cursor[Scope(p)].version => ~Waiting(poll[p].rev, poll[p].gen)

\* What is acknowledged is passed over by later scans.
AckedSeen == \A b \in batch : b.ack => \A m \in b.ids : <<b.gen, m>> \in seenMail

MailInv == MailTyped /\ ScansFenced /\ AckedSeen /\ MailToldOnce

LEMMA MailStarts == WatchInit => MailInv
<1> SUFFICES ASSUME WatchInit PROVE MailInv
  OBVIOUS
<1>1. 1 \in Revs /\ 1 \in Gens
  BY WatchAssumption DEF Revs, Gens
<1>2. watch \in [rev : Revs, bound : Gens, on : BOOLEAN] /\ account \in Gens
  BY <1>1 DEF WatchInit
<1>3. cursor \in [Scopes -> [page : Nat, version : Nat]]
  BY DEF WatchInit
<1>4. poll \in [Polls -> Poll] /\ \A p \in Polls : poll[p].at = "none"
  <2>1. NoPoll \in Poll /\ NoPoll.at = "none"
    BY DEF NoPoll, Poll
  <2> QED BY <2>1 DEF WatchInit
<1> QED BY <1>2, <1>3, <1>4 DEF WatchInit, MailInv, MailTyped, ScansFenced, AckedSeen, MailToldOnce

\* Only one poll moves, to a place where it owes nothing or is fenced.
LEMMA PollMoves ==
  ASSUME MailInv, NEW p \in Polls, NEW new \in Poll, poll' = [poll EXCEPT ![p] = new],
         UNCHANGED <<watch, account, mailbox, batch, seenMail, cursor>>, mailRun \subseteq mailRun',
         new.at \in {"read", "commit"} =>
           /\ <<new.rev, new.gen>> \in Scopes /\ new.version <= cursor[<<new.rev, new.gen>>].version
           /\ new.version = cursor[<<new.rev, new.gen>>].version => ~Waiting(new.rev, new.gen)
  PROVE  MailInv'
<1>1. poll' \in [Polls -> Poll] /\ poll'[p] = new /\ \A q \in Polls \ {p} : poll'[q] = poll[q]
  BY DEF MailInv, MailTyped
<1>2. MailTyped'
  BY <1>1 DEF MailInv, MailTyped
<1>3. ScansFenced'
  BY <1>1 DEF MailInv, ScansFenced, Scope, Waiting
<1>4. AckedSeen' /\ MailToldOnce'
  BY DEF MailInv, AckedSeen, MailToldOnce
<1> QED BY <1>2, <1>3, <1>4 DEF MailInv

\* The owner's changes and new mail disturb no poll.
LEMMA OwnerKeepsMail ==
  ASSUME MailInv, UNCHANGED <<batch, seenMail, cursor, poll>>, mailRun \subseteq mailRun',
         watch' \in [rev : Revs, bound : Gens, on : BOOLEAN], account' \in Gens, mailbox' \subseteq Mail
  PROVE  MailInv'
BY DEF MailInv, MailTyped, ScansFenced, Scope, Waiting, AckedSeen, MailToldOnce

LEMMA OwnerMailKeeps ==
  ASSUME MailInv, EditWatch \/ PauseWatch \/ RelinkAccount \/ DrainAdmitted \/ \E m \in Mail : MailArrives(m)
  PROVE  MailInv'
<1>1. watch.rev \in Revs /\ watch.bound \in Gens /\ watch \in [rev : Revs, bound : Gens, on : BOOLEAN] /\ account \in Gens
      /\ mailbox \subseteq Mail
  BY DEF MailInv, MailTyped
<1>2. CASE EditWatch
  <2>1. watch.rev + 1 \in Revs
    BY <1>1, <1>2, WatchAssumption DEF EditWatch, Revs
  <2>2. watch' \in [rev : Revs, bound : Gens, on : BOOLEAN]
    BY <1>1, <1>2, <2>1 DEF EditWatch
  <2> QED BY <1>1, <1>2, <2>2, OwnerKeepsMail DEF EditWatch
<1>3. CASE PauseWatch
  <2>1. watch' = [watch EXCEPT !.on = FALSE]
    BY <1>3 DEF PauseWatch
  <2>2. watch' \in [rev : Revs, bound : Gens, on : BOOLEAN]
    BY <1>1, <2>1, Zenon
  <2> QED BY <1>1, <1>3, <2>2, OwnerKeepsMail DEF PauseWatch
<1>4. CASE RelinkAccount
  <2>1. account' \in Gens
    BY <1>1, <1>4, WatchAssumption DEF RelinkAccount, Gens
  <2> QED BY <1>1, <1>4, <2>1, OwnerKeepsMail DEF RelinkAccount
<1>5. CASE DrainAdmitted \/ \E m \in Mail : MailArrives(m)
  BY <1>1, <1>5, OwnerKeepsMail DEF DrainAdmitted, MailArrives
<1> QED BY <1>2, <1>3, <1>4, <1>5

LEMMA StartScanKeeps ==
  ASSUME MailInv, NEW p \in Polls, StartScan(p)
  PROVE  MailInv'
<1>1. /\ watch.rev \in Revs /\ watch.rev \in Nat /\ account \in Gens /\ account \in Nat /\ <<watch.rev, account>> \in Scopes
      /\ cursor[<<watch.rev, account>>] \in [page : Nat, version : Nat]
  BY WatchAssumption DEF MailInv, MailTyped, Revs, Gens, Scopes
<1>2. CASE Waiting(watch.rev, account)
  <2>1. PICK b \in batch : poll' = [poll EXCEPT ![p] = [NoPoll EXCEPT !.at = "trigger", !.rev = b.rev, !.gen = b.gen, !.ids = b.ids]]
    BY ZenonT(60), <1>2 DEF StartScan, SetPoll, Waiting
  <2> DEFINE new == [NoPoll EXCEPT !.at = "trigger", !.rev = b.rev, !.gen = b.gen, !.ids = b.ids]
  <2>2. new \in Poll /\ new.at = "trigger"
    BY DEF NoPoll, Poll, MailInv, MailTyped, Batch
  <2>3. poll' = [poll EXCEPT ![p] = new]
    BY <2>1
  <2> HIDE DEF new
  <2> QED BY ZenonT(60), <2>2, <2>3, PollMoves DEF StartScan
<1>3. CASE ~Waiting(watch.rev, account)
  <2> DEFINE at == cursor[<<watch.rev, account>>]
             new == [NoPoll EXCEPT !.at = "read", !.rev = watch.rev, !.gen = account, !.page = at.page, !.version = at.version]
  <2>1. new \in Poll /\ new.rev = watch.rev /\ new.gen = account /\ new.version = at.version
    BY <1>1 DEF NoPoll, Poll
  <2>2. poll' = [poll EXCEPT ![p] = new]
    BY ZenonT(60), <1>3 DEF StartScan, SetPoll, Waiting
  <2>3. at.version \in Nat /\ at.version <= at.version
    BY <1>1
  <2>4. UNCHANGED <<watch, account, mailbox, batch, seenMail, cursor, mailRun>>
    BY ZenonT(60) DEF StartScan
  <2> HIDE DEF new
  <2>5. <<new.rev, new.gen>> \in Scopes /\ new.version <= cursor[<<new.rev, new.gen>>].version /\ ~Waiting(new.rev, new.gen)
    BY <1>1, <1>3, <2>1, <2>3
  <2> QED BY <2>1, <2>2, <2>4, <2>5, PollMoves
<1> QED BY <1>2, <1>3

LEMMA ReadPageKeeps ==
  ASSUME MailInv, NEW p \in Polls, ReadPage(p)
  PROVE  MailInv'
<1>1. /\ poll[p] \in Poll /\ poll[p].at = "read" /\ Scope(p) \in Scopes /\ poll[p].version <= cursor[Scope(p)].version
      /\ poll[p].version = cursor[Scope(p)].version => ~Waiting(poll[p].rev, poll[p].gen)
  BY SMTT(60) DEF ReadPage, MailInv, MailTyped, ScansFenced
<1>2. PICK ids \in SUBSET mailbox, whole \in BOOLEAN : poll' = [poll EXCEPT ![p] = [poll[p] EXCEPT !.at = "commit", !.ids = ids, !.whole = whole]]
  <2>1. PICK ids \in SUBSET mailbox, new \in SUBSET mailbox :
             poll' = [poll EXCEPT ![p] = [poll[p] EXCEPT !.at = "commit", !.ids = ids, !.whole = ids = new]]
    BY ZenonT(60) DEF ReadPage, SetPoll
  <2>2. (ids = new) \in BOOLEAN
    OBVIOUS
  <2> QED BY ZenonT(60), <2>1, <2>2
<1> DEFINE new == [poll[p] EXCEPT !.at = "commit", !.ids = ids, !.whole = whole]
<1>3. ids \in SUBSET Mail
  BY DEF MailInv, MailTyped
<1>4. new \in Poll
  BY <1>1, <1>3, Zenon DEF Poll
<1>5. new.rev = poll[p].rev /\ new.gen = poll[p].gen /\ new.version = poll[p].version
  BY <1>1 DEF Poll
<1>6. poll' = [poll EXCEPT ![p] = new]
  BY <1>2
<1>7. <<new.rev, new.gen>> = Scope(p)
  BY <1>5 DEF Scope
<1> HIDE DEF new
<1> QED BY <1>1, <1>4, <1>5, <1>6, <1>7, PollMoves DEF ReadPage

LEMMA CommitScanKeeps ==
  ASSUME MailInv, NEW p \in Polls, CommitScan(p)
  PROVE  MailInv'
<1> DEFINE old == poll[p]
           sc == Scope(p)
<1>0. NoPoll \in Poll /\ NoPoll.at = "none"
  BY DEF NoPoll, Poll
<1>1. /\ old \in Poll /\ old.at = "commit" /\ sc \in Scopes /\ old.version <= cursor[sc].version
      /\ old.version = cursor[sc].version => ~Waiting(old.rev, old.gen)
      /\ cursor[sc] \in [page : Nat, version : Nat]
  BY DEF CommitScan, MailInv, MailTyped, ScansFenced
<1>2. CASE ~NotRaced(p)
  <2>1. poll' = [poll EXCEPT ![p] = NoPoll]
    BY <1>2 DEF CommitScan, SetPoll
  <2> QED BY <1>0, <1>2, <2>1, PollMoves DEF CommitScan
<1>3. CASE NotRaced(p)
  <2> DEFINE fresh == {m \in old.ids : <<account, m>> \notin seenMail}
             found == [rev |-> old.rev, gen |-> old.gen, ids |-> fresh, ack |-> FALSE]
  <2>1. account = old.gen /\ ~Waiting(old.rev, old.gen) /\ old.version = cursor[sc].version
    BY <1>1, <1>3 DEF NotRaced
  <2>2. PICK at \in Nat : cursor' = [cursor EXCEPT ![sc] = [version |-> cursor[sc].version + 1, page |-> at]]
    <3>1. PICK at \in {old.page, 1, old.page + 1} : cursor' = [cursor EXCEPT ![sc] = [version |-> cursor[sc].version + 1, page |-> at]]
      BY <1>3 DEF CommitScan
    <3>2. {old.page, 1, old.page + 1} \subseteq Nat
      BY <1>1 DEF Poll
    <3>3. at \in Nat
      BY <3>2
    <3> QED BY <3>1, <3>3
  <2>3. /\ cursor' \in [Scopes -> [page : Nat, version : Nat]]
        /\ cursor'[sc].version = cursor[sc].version + 1
        /\ \A other \in Scopes \ {sc} : cursor'[other] = cursor[other]
    BY <1>1, <2>2 DEF MailInv, MailTyped
  <2>4. PICK new \in Poll : /\ poll' = [poll EXCEPT ![p] = new] /\ new.at \in {"none", "trigger"}
                            /\ (fresh = {} /\ batch' = batch) \/ (fresh # {} /\ batch' = batch \cup {found})
    <3> DEFINE went == [old EXCEPT !.at = "trigger", !.ids = fresh]
    <3>1. fresh \in SUBSET Mail
      BY <1>1 DEF Poll
    <3>2. went \in Poll /\ went.at = "trigger"
      BY ZenonT(60), <1>1, <3>1 DEF Poll
    <3>3. \/ fresh = {} /\ poll' = [poll EXCEPT ![p] = NoPoll] /\ batch' = batch
          \/ fresh # {} /\ poll' = [poll EXCEPT ![p] = went] /\ batch' = batch \cup {found}
      BY <1>3 DEF CommitScan, SetPoll
    <3> HIDE DEF went, fresh, found
    <3> QED BY <1>0, <3>2, <3>3
  <2>5. poll' \in [Polls -> Poll] /\ poll'[p] = new /\ \A q \in Polls \ {p} : poll'[q] = poll[q]
    BY <2>4 DEF MailInv, MailTyped
  <2>6. found \in Batch /\ found.rev = old.rev /\ found.gen = old.gen /\ found.ids = fresh /\ ~found.ack
    BY <1>1 DEF Batch, Poll
  <2>7. UNCHANGED <<watch, account, mailbox, seenMail, mailRun>>
    BY DEF CommitScan
  <2>8. \A m \in fresh : <<old.gen, m>> \notin seenMail
    BY <2>1
  <2> HIDE DEF fresh, found
  <2>9. MailTyped'
    BY <2>3, <2>4, <2>5, <2>6, <2>7 DEF MailInv, MailTyped
  <2>10. AckedSeen'
    BY <2>4, <2>6, <2>7 DEF MailInv, AckedSeen
  <2>11. ASSUME NEW b \in batch, b.rev = old.rev, b.gen = old.gen PROVE b.ids \intersect fresh = {}
    <3>1. b.ack
      BY <2>1, <2>11 DEF Waiting
    <3> QED BY <2>8, <2>11, <3>1 DEF MailInv, AckedSeen
  <2>12. MailToldOnce'
    BY <2>4, <2>6, <2>7, <2>11 DEF MailInv, MailToldOnce
  <2>13. ScansFenced'
    <3> DEFINE to(q) == <<poll'[q].rev, poll'[q].gen>>
               waits(q) == \E b \in batch' : b.rev = poll'[q].rev /\ b.gen = poll'[q].gen /\ ~b.ack
    <3> SUFFICES ASSUME NEW q \in Polls, poll'[q].at \in {"read", "commit"}
                 PROVE  /\ to(q) \in Scopes /\ poll'[q].version <= cursor'[to(q)].version
                        /\ poll'[q].version = cursor'[to(q)].version => ~waits(q)
      BY DEF ScansFenced, Scope, Waiting
    <3>1. q # p /\ poll'[q] = poll[q] /\ to(q) = Scope(q) /\ poll[q] \in Poll
      BY <2>4, <2>5 DEF Scope, MailInv, MailTyped
    <3>2. /\ Scope(q) \in Scopes /\ poll[q].version <= cursor[Scope(q)].version /\ poll[q].version \in Nat
          /\ poll[q].version = cursor[Scope(q)].version => ~Waiting(poll[q].rev, poll[q].gen)
      BY <3>1 DEF MailInv, ScansFenced, Poll
    <3>3. CASE Scope(q) = sc
      <4>1. cursor[sc].version \in Nat /\ cursor'[to(q)].version = cursor[sc].version + 1 /\ poll'[q].version <= cursor[sc].version
        BY <1>1, <2>3, <3>1, <3>2, <3>3
      <4> QED BY <3>1, <3>2, <3>3, <4>1
    <3>4. CASE Scope(q) # sc
      <4>1. cursor'[to(q)] = cursor[Scope(q)]
        BY <2>3, <3>1, <3>2, <3>4
      <4>2. ~(old.rev = poll[q].rev /\ old.gen = poll[q].gen)
        BY <3>4 DEF Scope
      <4>3. waits(q) => Waiting(poll[q].rev, poll[q].gen)
        BY <2>4, <2>6, <3>1, <4>2 DEF Waiting
      <4> QED BY <3>1, <3>2, <4>1, <4>3
    <3> QED BY <3>3, <3>4
  <2> QED BY <2>9, <2>10, <2>12, <2>13 DEF MailInv
<1> QED BY <1>2, <1>3

LEMMA TriggerKeeps ==
  ASSUME MailInv, NEW p \in Polls, TriggerMail(p) \/ EndPoll(p)
  PROVE  MailInv'
<1> DEFINE acking == [poll[p] EXCEPT !.at = "ack"]
<1>1. acking \in Poll /\ acking.at = "ack" /\ NoPoll \in Poll /\ NoPoll.at = "none"
  <2>1. poll[p] \in Poll
    BY DEF MailInv, MailTyped
  <2> QED BY <2>1 DEF Poll, NoPoll
<1>2. PICK new \in {acking, NoPoll} : poll' = [poll EXCEPT ![p] = new]
  BY DEF TriggerMail, EndPoll, SetPoll
<1>3. UNCHANGED <<watch, account, mailbox, batch, seenMail, cursor>> /\ mailRun \subseteq mailRun'
  BY DEF TriggerMail, EndPoll
<1> HIDE DEF acking
<1> QED BY <1>1, <1>2, <1>3, PollMoves

LEMMA AckKeeps ==
  ASSUME MailInv, NEW p \in Polls, AckMail(p)
  PROVE  MailInv'
<1>1. poll' = [poll EXCEPT ![p] = NoPoll] /\ UNCHANGED <<watch, account, mailbox, cursor, mailRun>>
  BY DEF AckMail, SetPoll
<1>2. NoPoll \in Poll /\ NoPoll.at = "none"
  BY DEF NoPoll, Poll
<1>3. CASE UNCHANGED <<seenMail, batch>>
  BY <1>1, <1>2, <1>3, PollMoves
<1>4. CASE /\ Defined(poll[p].rev) /\ Ackable(p)
           /\ seenMail' = seenMail \union {<<account, m>> : m \in poll[p].ids}
           /\ batch' = {IF BatchPrint(b) = Fingerprint(p) THEN [b EXCEPT !.ack = TRUE] ELSE b : b \in batch}
  <2> DEFINE f == Fingerprint(p)
             after(b) == IF BatchPrint(b) = f THEN [b EXCEPT !.ack = TRUE] ELSE b
  <2>1. f \in mailRun /\ f.gen = account /\ f.ids = poll[p].ids /\ account = poll[p].gen
    BY <1>4 DEF Ackable, Fingerprint
  <2>2. ASSUME NEW b \in batch
        PROVE  /\ after(b) \in Batch /\ after(b).rev = b.rev /\ after(b).gen = b.gen /\ after(b).ids = b.ids
               /\ after(b).ack => b.ack \/ (b.ids = poll[p].ids /\ b.gen = account)
               /\ b.ack => after(b).ack
    <3>1. b \in Batch
      BY DEF MailInv, MailTyped
    <3>2. CASE BatchPrint(b) = f
      <4>1. b.ids = poll[p].ids /\ b.gen = account
        BY <2>1, <3>2 DEF BatchPrint, Fingerprint
      <4>2. after(b) = [b EXCEPT !.ack = TRUE]
        BY <3>2
      <4>3. after(b) \in Batch
        BY <3>1, <4>2, Zenon DEF Batch
      <4>4. after(b).rev = b.rev /\ after(b).gen = b.gen /\ after(b).ids = b.ids /\ after(b).ack
        BY <3>1, <4>2 DEF Batch
      <4> QED BY <4>1, <4>3, <4>4
    <3>3. CASE BatchPrint(b) # f
      BY <3>1, <3>3
    <3> QED BY <3>2, <3>3
  <2>3. batch' = {after(b) : b \in batch}
    BY <1>4
  <2> HIDE DEF f, after
  <2>4. poll' \in [Polls -> Poll] /\ poll'[p] = NoPoll /\ \A q \in Polls \ {p} : poll'[q] = poll[q]
    BY <1>1, <1>2 DEF MailInv, MailTyped
  <2>5. MailTyped'
    BY <1>1, <2>2, <2>3, <2>4 DEF MailInv, MailTyped
  <2>6. ScansFenced'
    BY <1>1, <1>2, <2>2, <2>3, <2>4 DEF MailInv, ScansFenced, Scope, Waiting
  <2>7. AckedSeen'
    BY <1>4, <2>2, <2>3 DEF MailInv, AckedSeen
  <2>8. MailToldOnce'
    <3>1. ASSUME NEW s \in seenMail' PROVE \E g \in mailRun : g.gen = s[1] /\ s[2] \in g.ids
      <4>1. CASE s \in seenMail
        BY <4>1 DEF MailInv, MailToldOnce
      <4>2. CASE s \notin seenMail
        <5>1. PICK m \in poll[p].ids : s = <<account, m>>
          BY <1>4, <3>1, <4>2
        <5> QED BY <2>1, <5>1
      <4> QED BY <4>1, <4>2
    <3>2. ASSUME NEW b \in batch', NEW c \in batch', b.rev = c.rev, b.gen = c.gen, b.ids \intersect c.ids # {} PROVE b = c
      <4>1. PICK b0 \in batch, c0 \in batch : b = after(b0) /\ c = after(c0)
        BY <2>3
      <4>2. b0 = c0
        BY <2>2, <3>2, <4>1 DEF MailInv, MailToldOnce
      <4> QED BY <4>1, <4>2
    <3> QED BY <1>1, <3>1, <3>2 DEF MailToldOnce
  <2> QED BY <2>5, <2>6, <2>7, <2>8 DEF MailInv
<1> QED BY <1>3, <1>4 DEF AckMail

\* A line no longer reported was told or is in a baseline; so will be what a
\* poll is about to commit.
WebInv ==
  /\ LinesTold
  /\ \A p \in Polls :
       /\ webPoll[p].at \in {"trigger", "ack"} => webPoll[p].fp \subseteq webPoll[p].lines \union toldLines \union baseLines
       /\ webPoll[p].at = "ack" => webPoll[p].lines \subseteq toldLines

WebTyped == webPoll \in [Polls -> [at : {"none", "trigger", "ack"}, lines : SUBSET Lines, fp : SUBSET Lines]]
            /\ page \subseteq Lines
            /\ webState \in [committed : SUBSET Lines, parked : SUBSET Lines, known : BOOLEAN]

LEMMA WebKeeps ==
  ASSUME WebTyped, WebInv, WebNext
  PROVE  WebTyped' /\ WebInv'
<1> DEFINE Web == [at : {"none", "trigger", "ack"}, lines : SUBSET Lines, fp : SUBSET Lines]
<1>0. NoWebPoll \in Web /\ NoWebPoll.at = "none"
  BY DEF NoWebPoll
<1>1. CASE ResetWeb
  BY <1>1 DEF ResetWeb, WebTyped, WebInv, LinesTold
<1>2. CASE \E lines \in SUBSET Lines : PageChanges(lines)
  BY <1>2 DEF PageChanges, WebTyped, WebInv, LinesTold
<1>3. ASSUME NEW p \in Polls, ScanPage(p) PROVE WebTyped' /\ WebInv'
  <2>1. CASE ~webState.known
    <3>1. webState' = [committed |-> page, parked |-> {}, known |-> TRUE] /\ baseLines' = baseLines \union page
          /\ UNCHANGED <<webPoll, page, toldLines>>
      BY <1>3, <2>1 DEF ScanPage
    <3>2. webState' \in [committed : SUBSET Lines, parked : SUBSET Lines, known : BOOLEAN] /\ webState'.committed = page
      BY <3>1 DEF WebTyped
    <3> QED BY <3>1, <3>2 DEF WebTyped, WebInv, LinesTold
  <2>2. CASE webState.known
    <3> DEFINE went == [at |-> "trigger", lines |-> page \ webState.committed, fp |-> page]
    <3>1. PICK new \in {NoWebPoll, went} : webPoll' = [webPoll EXCEPT ![p] = new]
      BY <1>3, <2>2 DEF ScanPage
    <3>2. new \in Web /\ new.at \in {"none", "trigger"} /\ (new.at = "trigger" => new.fp \subseteq new.lines \union webState.committed)
      BY <1>0, <3>1 DEF WebTyped
    <3>3. /\ webState'.committed = webState.committed /\ UNCHANGED <<page, toldLines, baseLines>>
          /\ webState' \in [committed : SUBSET Lines, parked : SUBSET Lines, known : BOOLEAN]
      BY <1>3, <2>2 DEF ScanPage, WebTyped
    <3> HIDE DEF went
    <3>4. webPoll' \in [Polls -> Web] /\ webPoll'[p] = new /\ \A q \in Polls \ {p} : webPoll'[q] = webPoll[q]
      BY <3>1, <3>2 DEF WebTyped
    <3> QED BY <3>2, <3>3, <3>4 DEF WebTyped, WebInv, LinesTold
  <2> QED BY <2>1, <2>2
<1>4. ASSUME NEW p \in Polls, TriggerWeb(p) PROVE WebTyped' /\ WebInv'
  <2> DEFINE acking == [webPoll[p] EXCEPT !.at = "ack"]
  <2>1. webPoll[p] \in Web /\ webPoll[p].at = "trigger"
    BY <1>4 DEF TriggerWeb, WebTyped
  <2>2. acking \in Web /\ acking.at = "ack" /\ acking.fp = webPoll[p].fp /\ acking.lines = webPoll[p].lines
    BY <2>1
  <2>3. PICK new \in {acking, NoWebPoll} :
             /\ webPoll' = [webPoll EXCEPT ![p] = new] /\ toldLines \subseteq toldLines'
             /\ new.at = "ack" => webPoll[p].lines \subseteq toldLines'
    BY <1>0, <1>4, <2>2 DEF TriggerWeb
  <2>4. UNCHANGED <<page, webState, baseLines>>
    BY <1>4 DEF TriggerWeb
  <2> HIDE DEF acking
  <2>5. webPoll' \in [Polls -> Web] /\ webPoll'[p] = new /\ \A q \in Polls \ {p} : webPoll'[q] = webPoll[q]
    BY <1>0, <2>2, <2>3 DEF WebTyped
  <2> QED BY <1>0, <2>1, <2>2, <2>3, <2>4, <2>5 DEF WebTyped, WebInv, LinesTold
<1>5. ASSUME NEW p \in Polls, AckWeb(p) PROVE WebTyped' /\ WebInv'
  <2>1. webPoll' \in [Polls -> Web] /\ webPoll'[p] = NoWebPoll /\ \A q \in Polls \ {p} : webPoll'[q] = webPoll[q]
    BY <1>0, <1>5 DEF AckWeb, WebTyped
  <2>2. UNCHANGED <<page, toldLines, baseLines>>
    BY <1>5 DEF AckWeb
  <2>3. /\ LinesTold'
        /\ webState' \in [committed : SUBSET Lines, parked : SUBSET Lines, known : BOOLEAN]
    <3>1. CASE SamePrint(p)
      <4>1. webState' = [webState EXCEPT !.committed = webState.parked, !.parked = {}]
        BY <1>5, <3>1 DEF AckWeb
      <4>2. webState'.committed = webState.parked /\ webState' \in [committed : SUBSET Lines, parked : SUBSET Lines, known : BOOLEAN]
        BY <4>1 DEF WebTyped
      <4> QED BY <1>5, <2>2, <3>1, <4>2 DEF AckWeb, SamePrint, WebInv, LinesTold
    <3>2. CASE ~SamePrint(p)
      BY <1>5, <2>2, <3>2 DEF AckWeb, WebTyped, WebInv, LinesTold
    <3> QED BY <3>1, <3>2
  <2> QED BY <1>0, <2>1, <2>2, <2>3 DEF WebTyped, WebInv
<1> QED BY <1>1, <1>2, <1>3, <1>4, <1>5 DEF WebNext

\* mail_watch.py, web_watch.py: in every reachable state scans are fenced by the
\* cursor's version and reported lines are accounted for.
THEOREM WatchShape == WatchSpec => [](MailInv /\ WebTyped /\ WebInv)
<1>1. WatchInit => MailInv /\ WebTyped /\ WebInv
  <2> SUFFICES ASSUME WatchInit PROVE WebTyped /\ WebInv
    BY MailStarts
  <2>1. \A p \in Polls : webPoll[p] = NoWebPoll
    BY DEF WatchInit
  <2> QED BY <2>1 DEF WatchInit, WebTyped, WebInv, LinesTold, NoWebPoll
<1>2. ASSUME MailInv, WebTyped, WebInv, [WatchNext]_watchVars PROVE MailInv' /\ WebTyped' /\ WebInv'
  <2>1. CASE MailNext
    <3>1. UNCHANGED webVars
      BY ZenonT(60), <2>1 DEF MailNext, EditWatch, PauseWatch, RelinkAccount, DrainAdmitted, MailArrives, StartScan, ReadPage, CommitScan,
                  TriggerMail, AckMail, EndPoll
    <3>2. MailInv'
      BY <1>2, <2>1, OwnerMailKeeps, StartScanKeeps, ReadPageKeeps, CommitScanKeeps, TriggerKeeps, AckKeeps DEF MailNext
    <3> QED BY <1>2, <3>1, <3>2 DEF webVars, WebTyped, WebInv, LinesTold
  <2>2. CASE WebNext
    <3>1. UNCHANGED mailVars
      BY <2>2 DEF WebNext, ResetWeb, PageChanges, ScanPage, TriggerWeb, AckWeb
    <3>2. MailInv'
      BY <1>2, <3>1 DEF mailVars, MailInv, MailTyped, ScansFenced, Scope, Waiting, AckedSeen, MailToldOnce
    <3> QED BY <1>2, <2>2, <3>2, WebKeeps
  <2>3. CASE UNCHANGED watchVars
    BY <1>2, <2>3 DEF watchVars, MailInv, MailTyped, ScansFenced, Scope, Waiting, AckedSeen, MailToldOnce, WebTyped, WebInv, LinesTold
  <2> QED BY <1>2, <2>1, <2>2, <2>3 DEF WatchNext
<1> QED BY <1>1, <1>2, PTL DEF WatchSpec

\* Whatever polls overlap, fail, meet edits or another account, no watch passes
\* over news before a run that carries it was accepted, and no message of one
\* scope is in two batches.
THEOREM NewsAlwaysTold == WatchSpec => []NewsTold
<1>1. MailInv /\ WebTyped /\ WebInv => NewsTold
  BY DEF MailInv, WebInv, NewsTold
<1> QED BY <1>1, WatchShape, PTL

-----------------------------------------------------------------------------
(* The automation's workflow. *)

Stages == {"none", "pending", "creating", "prepared", "updating", "activating", "deactivating", "delete_ready",
           "deleting", "done", "superseded"}
Flow == [there : BOOLEAN, content : Nat, pub : Nat]
Operation == [action : {"none", "create", "update", "toggle", "delete"}, stage : Stages, flow : Nat, base : Nat,
              error : {"none", "unknown", "missing", "drift"}]
Automation == [version : Versions, content : Nat, applied : 0 .. MaxVersions, desired : BOOLEAN, active : BOOLEAN,
               status : {"pending", "reconciling", "active", "paused", "deleting", "deleted"}, bound : {0, 1}, deleted : BOOLEAN]
Call == [what : {"none", "create", "update", "activate", "deactivate", "delete"}, content : Nat]
Syncing == [at : {"idle", "read", "seen", "wait"}, v : 0 .. MaxVersions, stage : Stages, observe : BOOLEAN, got : Flow]

AutoTyped ==
  /\ auto \in Automation /\ ops \in [Versions -> Operation] /\ flows \in Seq(Flow)
  /\ syncer \in [Syncers -> Syncing] /\ n8nCall \in [Syncers -> Call] /\ late \subseteq Call

\* What a sync() has read of the current version is never ahead of its stage.
SyncsBehind ==
  \A s \in Syncers :
    /\ syncer[s].v <= auto.version /\ (syncer[s].at # "idle" => syncer[s].v > 0)
    /\ syncer[s].v = auto.version =>
         /\ syncer[s].stage # "pending" => Current.stage # "pending"
         /\ syncer[s].stage \notin {"pending", "creating"} => Current.stage \notin {"pending", "creating"}

Creates == {s \in Syncers : n8nCall[s].what = "create"}
LateCreates == {request \in late : request.what = "create"}
Requested == Len(flows) > 0 \/ Creates # {} \/ LateCreates # {}

\* A create has left only if its operation says so or its workflow is bound.
CreateHeld ==
  /\ Current.stage = "creating" => Current.action = "create"
  /\ auto.bound = 1 /\ Current.action = "create" => Current.stage \notin {"pending", "creating"}
  /\ Requested => auto.bound = 1 \/ Current.stage = "creating"

\* Of workflows and creates under way there is at most one.
OneCreate ==
  /\ OneWorkflow /\ (Len(flows) > 0 => Creates = {} /\ LateCreates = {})
  /\ \A s, t \in Creates : s = t
  /\ Creates # {} => LateCreates = {}
  /\ \A x, y \in LateCreates : x = y

AutoInv == AutoTyped /\ SyncsBehind /\ CreateHeld /\ OneCreate

LEMMA AutoStarts == AutoInit => AutoInv
<1> SUFFICES ASSUME AutoInit PROVE AutoInv
  OBVIOUS
<1>1. 1 \in Versions /\ 0 \in 0 .. MaxVersions /\ 1 \in 0 .. MaxVersions
  BY AutomationAssumption DEF Versions
<1>2. auto \in Automation /\ auto.version = 1 /\ auto.bound = 0
  BY <1>1 DEF AutoInit, Automation
<1>3. ops \in [Versions -> Operation] /\ ops[1].stage = "pending" /\ ops[1].action = "create"
  BY <1>1 DEF AutoInit, Operation, NoOp, Stages
<1>4. syncer \in [Syncers -> Syncing] /\ \A s \in Syncers : syncer[s] = IdleSync
  <2>1. IdleSync \in Syncing
    BY <1>1 DEF IdleSync, Syncing, Stages, NoFlow, Flow
  <2> QED BY <2>1 DEF AutoInit
<1>5. n8nCall \in [Syncers -> Call] /\ \A s \in Syncers : n8nCall[s].what = "none"
  BY DEF AutoInit, NoRequest, Call
<1>6. flows \in Seq(Flow) /\ Len(flows) = 0 /\ late = {}
  BY DEF AutoInit
<1>7. AutoTyped
  BY <1>2, <1>3, <1>4, <1>5, <1>6 DEF AutoTyped
<1>8. SyncsBehind
  BY <1>2, <1>4 DEF SyncsBehind, IdleSync
<1>9. CreateHeld /\ OneCreate
  BY <1>2, <1>3, <1>5, <1>6 DEF CreateHeld, OneCreate, OneWorkflow, Requested, Creates, LateCreates, Current
<1> QED BY <1>7, <1>8, <1>9 DEF AutoInv

\* sync() ends: the call forgets what it read and what it waited for.
LEMMA SyncLeaves ==
  ASSUME AutoTyped, NEW s \in Syncers, Leave(s)
  PROVE  syncer' \in [Syncers -> Syncing] /\ syncer'[s] = IdleSync /\ \A t \in Syncers \ {s} : syncer'[t] = syncer[t]
<1>1. IdleSync \in Syncing
  BY AutomationAssumption DEF IdleSync, Syncing, Stages, NoFlow, Flow
<1> QED BY <1>1 DEF Leave, AutoTyped

\* An operation's stage is replaced.
LEMMA StageMoves ==
  ASSUME AutoTyped, NEW v \in Versions, NEW to \in Stages, NEW error \in {"none", "unknown", "missing", "drift"},
         \/ ops' = [ops EXCEPT ![v].stage = to]
         \/ ops' = [ops EXCEPT ![v].stage = to, ![v].error = error]
  PROVE  /\ ops' \in [Versions -> Operation] /\ ops'[v].stage = to /\ ops'[v].action = ops[v].action
         /\ \A w \in Versions \ {v} : ops'[w] = ops[w]
<1> DEFINE one == [ops[v] EXCEPT !.stage = to]
           two == [ops[v] EXCEPT !.stage = to, !.error = error]
<1>1. ops[v] \in Operation
  BY DEF AutoTyped
<1>2. /\ one \in Operation /\ one.stage = to /\ one.action = ops[v].action
      /\ two \in Operation /\ two.stage = to /\ two.action = ops[v].action
  BY <1>1 DEF Operation
<1>3. ops' = [ops EXCEPT ![v] = one] \/ ops' = [ops EXCEPT ![v] = two]
  OBVIOUS
<1> HIDE DEF one, two
<1> QED BY <1>2, <1>3 DEF AutoTyped

\* Nothing of the definition moved on, no request left: nothing can break.
LEMMA SyncQuiet ==
  ASSUME AutoInv, NEW s \in Syncers, UNCHANGED <<flows, late>>,
         auto' \in Automation, auto'.version = auto.version, auto'.bound = auto.bound,
         ops' \in [Versions -> Operation], Current'.action = Current.action, Current'.stage = Current.stage,
         n8nCall' = n8nCall \/ n8nCall' = [n8nCall EXCEPT ![s] = NoRequest], Leave(s)
  PROVE  AutoInv'
<1>1. /\ syncer' \in [Syncers -> Syncing] /\ syncer'[s] = IdleSync /\ \A t \in Syncers \ {s} : syncer'[t] = syncer[t]
  BY SyncLeaves DEF AutoInv
<1>2. n8nCall' \in [Syncers -> Call] /\ Creates' \subseteq Creates
  <2>1. NoRequest \in Call /\ NoRequest.what = "none"
    BY DEF NoRequest, Call
  <2>2. n8nCall' \in [Syncers -> Call] /\ \A t \in Syncers : n8nCall'[t] = n8nCall[t] \/ n8nCall'[t] = NoRequest
    BY <2>1 DEF AutoInv, AutoTyped
  <2> QED BY <2>1, <2>2 DEF Creates
<1>3. LateCreates' = LateCreates /\ auto.version \in Nat /\ auto.version > 0
  BY AutomationAssumption DEF LateCreates, AutoInv, AutoTyped, Automation, Versions
<1>4. AutoTyped'
  BY <1>1, <1>2 DEF AutoInv, AutoTyped
<1>5. SyncsBehind'
  BY <1>1, <1>3 DEF AutoInv, SyncsBehind, IdleSync
<1>6. CreateHeld' /\ OneCreate'
  BY <1>2, <1>3 DEF AutoInv, CreateHeld, OneCreate, OneWorkflow, Requested
<1> QED BY <1>4, <1>5, <1>6 DEF AutoInv

\* The current operation goes on to a stage past its create, which is bound.
LEMMA SyncMoves ==
  ASSUME AutoInv, NEW s \in Syncers, UNCHANGED <<flows, late>>,
         auto' \in Automation, auto'.version = auto.version, auto'.bound \in {auto.bound, 1},
         Current.stage = "creating" => auto'.bound = 1,
         ops' \in [Versions -> Operation], Current'.action = Current.action, Current'.stage \notin {"pending", "creating"},
         syncer' \in [Syncers -> Syncing], \A t \in Syncers \ {s} : syncer'[t] = syncer[t],
         syncer'[s] = IdleSync \/ syncer'[s].v = auto.version,
         n8nCall' \in [Syncers -> Call], Creates' \subseteq Creates
  PROVE  AutoInv'
<1>1. LateCreates' = LateCreates /\ auto.version \in Nat /\ auto.version > 0
  BY AutomationAssumption DEF LateCreates, AutoInv, AutoTyped, Automation, Versions
<1>2. AutoTyped'
  BY DEF AutoInv, AutoTyped
<1>3. SyncsBehind'
  BY <1>1 DEF AutoInv, SyncsBehind, IdleSync
<1>4. CreateHeld' /\ OneCreate'
  BY <1>1 DEF AutoInv, CreateHeld, OneCreate, OneWorkflow, Requested
<1> QED BY <1>2, <1>3, <1>4 DEF AutoInv

\* What an answered or forgotten call leaves of the requests.
LEMMA CallCleared ==
  ASSUME AutoInv, NEW s \in Syncers, NEW request \in Call, request.what # "create",
         n8nCall' = n8nCall \/ n8nCall' = [n8nCall EXCEPT ![s] = request]
  PROVE  n8nCall' \in [Syncers -> Call] /\ Creates' \subseteq Creates
<1>1. n8nCall' \in [Syncers -> Call] /\ \A t \in Syncers : n8nCall'[t] = n8nCall[t] \/ n8nCall'[t] = request
  BY DEF AutoInv, AutoTyped
<1> QED BY <1>1 DEF Creates

LEMMA NothingAsked == NoRequest \in Call /\ NoRequest.what = "none"
BY DEF NoRequest, Call

\* What the current version is: a version, and the one a fenced sync() names.
LEMMA TheVersion ==
  ASSUME AutoInv
  PROVE  auto.version \in Versions /\ auto.version \in Nat /\ Current \in Operation
BY AutomationAssumption DEF AutoInv, AutoTyped, Automation, Versions, Current

LEMMA GiveWayKeeps ==
  ASSUME AutoInv, NEW s \in Syncers, GiveWay(s)
  PROVE  AutoInv'
BY SyncQuiet DEF GiveWay, AutoInv, AutoTyped, Current

LEMMA HeldKeeps ==
  ASSUME AutoInv, NEW s \in Syncers, NEW why \in {"unknown", "missing", "drift"}, Held(s, why)
  PROVE  AutoInv'
<1>1. CASE auto.version = syncer[s].v /\ Op(s).stage # "done"
  <2> DEFINE v == auto.version
             new == [ops[v] EXCEPT !.error = why]
             held == [auto EXCEPT !.status = "reconciling"]
  <2>1. v \in Versions /\ ops[v] \in Operation
    BY TheVersion DEF Current
  <2>2. new \in Operation /\ new.action = ops[v].action /\ new.stage = ops[v].stage
    BY <2>1 DEF Operation
  <2>3. auto' = held /\ ops' = [ops EXCEPT ![v] = new]
    BY <1>1 DEF Held
  <2>4. held \in Automation
    BY Zenon DEF AutoInv, AutoTyped, Automation
  <2>5. held.version = auto.version /\ held.bound = auto.bound
    BY DEF AutoInv, AutoTyped, Automation
  <2>6. UNCHANGED <<flows, late>> /\ Leave(s) /\ n8nCall' = [n8nCall EXCEPT ![s] = NoRequest]
    BY DEF Held
  <2> HIDE DEF new, held, v
  <2>7. ops' \in [Versions -> Operation] /\ ops'[v].action = ops[v].action /\ ops'[v].stage = ops[v].stage
    BY <2>1, <2>2, <2>3 DEF AutoInv, AutoTyped
  <2>8. Current'.action = Current.action /\ Current'.stage = Current.stage
    BY <2>3, <2>5, <2>7 DEF Current, v
  <2> QED BY <2>3, <2>4, <2>5, <2>6, <2>7, <2>8, SyncQuiet
<1>2. CASE UNCHANGED <<ops, auto>>
  BY ZenonT(60), <1>2, SyncQuiet DEF Held, AutoInv, AutoTyped, Current
<1> QED BY <1>1, <1>2 DEF Held

\* A stage moves on, past a create only if there was none.
LEMMA AdvanceKeeps ==
  ASSUME AutoInv, NEW s \in Syncers, NEW to \in {"prepared", "delete_ready"}, Advance(s, to), syncer[s].stage # "creating"
  PROVE  AutoInv'
<1>1. CASE Cas(s, to)
  <2>1. auto.version = syncer[s].v /\ Current.stage = syncer[s].stage
    BY <1>1 DEF Cas, Op, Current
  <2>2. ops' = [ops EXCEPT ![auto.version].stage = to, ![auto.version].error = "none"]
    BY <1>1, <2>1 DEF Advance, Move
  <2>3. ops' \in [Versions -> Operation] /\ ops'[auto.version].stage = to /\ ops'[auto.version].action = ops[auto.version].action
    BY ZenonT(60), <2>2, StageMoves, TheVersion DEF AutoInv, Stages
  <2>4. Leave(s) /\ UNCHANGED <<auto, flows, n8nCall, late>>
    BY DEF Advance
  <2>5. Current'.action = Current.action /\ Current'.stage = to
    BY <2>3, <2>4 DEF Current
  <2>6. Creates' \subseteq Creates
    BY <2>4 DEF Creates
  <2>7. syncer' \in [Syncers -> Syncing] /\ syncer'[s] = IdleSync /\ \A t \in Syncers \ {s} : syncer'[t] = syncer[t]
    BY <2>4, SyncLeaves DEF AutoInv
  <2> QED BY <2>1, <2>3, <2>4, <2>5, <2>6, <2>7, SyncMoves DEF AutoInv, AutoTyped
<1>2. CASE ~Cas(s, to)
  <2>1. Leave(s) /\ UNCHANGED <<auto, ops, flows, n8nCall, late>>
    BY <1>2 DEF Advance, Move
  <2> QED BY <2>1, SyncQuiet DEF AutoInv, AutoTyped, Current
<1> QED BY <1>1, <1>2

\* A request other than a create leaves once its stage is written.
LEMMA SendKeeps ==
  ASSUME AutoInv, NEW s \in Syncers, NEW to \in {"updating", "deleting", "activating", "deactivating"},
         NEW request \in Call, request.what # "create", Send(s, to, request), syncer[s].stage # "creating"
  PROVE  AutoInv'
<1>1. CASE Cas(s, to)
  <2> DEFINE waits == [syncer[s] EXCEPT !.at = "wait", !.stage = to]
  <2>1. auto.version = syncer[s].v /\ Current.stage = syncer[s].stage
    BY <1>1 DEF Cas, Op, Current
  <2>2. ops' = [ops EXCEPT ![auto.version].stage = to, ![auto.version].error = "none"]
    BY <1>1, <2>1 DEF Send, Move
  <2>3. ops' \in [Versions -> Operation] /\ ops'[auto.version].stage = to /\ ops'[auto.version].action = ops[auto.version].action
    BY ZenonT(60), <2>2, StageMoves, TheVersion DEF AutoInv, Stages
  <2>4. UNCHANGED <<auto, flows, late>> /\ n8nCall' = [n8nCall EXCEPT ![s] = request] /\ syncer' = [syncer EXCEPT ![s] = waits]
    BY <1>1 DEF Send
  <2>5. Current'.action = Current.action /\ Current'.stage = to
    BY <2>3, <2>4 DEF Current
  <2>6. n8nCall' \in [Syncers -> Call] /\ Creates' \subseteq Creates
    BY <2>4, CallCleared
  <2>7. waits \in Syncing /\ waits.v = auto.version
    <3>1. syncer[s] \in Syncing
      BY DEF AutoInv, AutoTyped
    <3>2. waits \in Syncing
      BY <3>1, Zenon DEF Syncing, Stages
    <3> QED BY <2>1, <3>1, <3>2 DEF Syncing
  <2> HIDE DEF waits
  <2>8. syncer' \in [Syncers -> Syncing] /\ syncer'[s] = waits /\ \A t \in Syncers \ {s} : syncer'[t] = syncer[t]
    BY <2>4, <2>7 DEF AutoInv, AutoTyped
  <2> QED BY <2>1, <2>3, <2>4, <2>5, <2>6, <2>7, <2>8, SyncMoves DEF AutoInv, AutoTyped
<1>2. CASE ~Cas(s, to)
  <2>1. Leave(s) /\ UNCHANGED <<auto, ops, flows, n8nCall, late>>
    BY <1>2 DEF Send, Move
  <2> QED BY <2>1, SyncQuiet DEF AutoInv, AutoTyped, Current
<1> QED BY <1>1, <1>2

\* The create leaves from a pending operation, before which none had left.
LEMMA CreateKeeps ==
  ASSUME AutoInv, NEW s \in Syncers, NEW request \in Call, request.what = "create", Send(s, "creating", request),
         syncer[s].stage = "pending", Op(s).action = "create"
  PROVE  AutoInv'
<1>1. CASE Cas(s, "creating")
  <2> DEFINE waits == [syncer[s] EXCEPT !.at = "wait", !.stage = "creating"]
             v == auto.version
  <2>1. v = syncer[s].v /\ Current.stage = "pending" /\ Current.action = "create"
    BY <1>1 DEF Cas, Op, Current
  <2>2. ops' = [ops EXCEPT ![v].stage = "creating", ![v].error = "none"]
    BY <1>1, <2>1 DEF Send, Move
  <2>3. ops' \in [Versions -> Operation] /\ ops'[v].stage = "creating" /\ ops'[v].action = ops[v].action
    BY ZenonT(60), <2>2, StageMoves, TheVersion DEF AutoInv, Stages
  <2>4. UNCHANGED <<auto, flows, late>> /\ n8nCall' = [n8nCall EXCEPT ![s] = request] /\ syncer' = [syncer EXCEPT ![s] = waits]
    BY <1>1 DEF Send
  <2>5. Current'.action = "create" /\ Current'.stage = "creating" /\ LateCreates' = LateCreates
    BY <2>1, <2>3, <2>4 DEF Current, LateCreates
  <2>6. ~Requested /\ auto.bound # 1
    BY <2>1 DEF AutoInv, CreateHeld
  <2>7. n8nCall' \in [Syncers -> Call] /\ Creates' = {s}
    <3>1. n8nCall' \in [Syncers -> Call] /\ n8nCall'[s] = request /\ \A t \in Syncers \ {s} : n8nCall'[t] = n8nCall[t]
      BY <2>4 DEF AutoInv, AutoTyped
    <3> QED BY <2>6, <3>1 DEF Requested, Creates
  <2>8. waits \in Syncing /\ waits.v = v /\ waits.stage = "creating" /\ waits.at = "wait"
    <3>1. syncer[s] \in Syncing
      BY DEF AutoInv, AutoTyped
    <3>2. waits \in Syncing
      BY <3>1, Zenon DEF Syncing, Stages
    <3> QED BY <2>1, <3>1, <3>2 DEF Syncing
  <2> HIDE DEF waits
  <2>9. syncer' \in [Syncers -> Syncing] /\ syncer'[s] = waits /\ \A t \in Syncers \ {s} : syncer'[t] = syncer[t]
    BY <2>4, <2>8 DEF AutoInv, AutoTyped
  <2>10. AutoTyped'
    BY <2>3, <2>4, <2>7, <2>9 DEF AutoInv, AutoTyped
  <2>11. v \in Nat /\ v > 0
    BY TheVersion DEF Versions
  <2>12. SyncsBehind'
    BY <2>1, <2>4, <2>5, <2>8, <2>9, <2>11 DEF AutoInv, SyncsBehind
  <2>13. CreateHeld' /\ OneCreate'
    BY <2>4, <2>5, <2>6, <2>7 DEF AutoInv, CreateHeld, OneCreate, OneWorkflow, Requested
  <2> QED BY <2>10, <2>12, <2>13 DEF AutoInv
<1>2. CASE ~Cas(s, "creating")
  <2>1. Leave(s) /\ UNCHANGED <<auto, ops, flows, n8nCall, late>>
    BY <1>2 DEF Send, Move
  <2> QED BY <2>1, SyncQuiet DEF AutoInv, AutoTyped, Current
<1> QED BY <1>1, <1>2

\* An operation that is not in its create is confirmed.
LEMMA DoneKeeps ==
  ASSUME AutoInv, NEW s \in Syncers, NEW active \in BOOLEAN, NEW deleted \in BOOLEAN, Done(s, active, deleted),
         auto.version = syncer[s].v => Current.stage # "creating"
  PROVE  AutoInv'
<1>1. CASE auto.version = syncer[s].v
  <2> DEFINE v == auto.version
  <2>1. ops' = [ops EXCEPT ![v].stage = "done"]
    BY <1>1 DEF Done
  <2>2. ops' \in [Versions -> Operation] /\ ops'[v].stage = "done" /\ ops'[v].action = ops[v].action
    BY ZenonT(60), <2>1, StageMoves, TheVersion DEF AutoInv, Stages
  <2>3. PICK status \in {"deleted", "active", "paused"} :
             auto' = [auto EXCEPT !.applied = v, !.active = active, !.deleted = deleted, !.status = status]
    BY <1>1 DEF Done
  <2>4. auto' \in Automation
    <3>1. v \in 0 .. MaxVersions
      BY TheVersion DEF Versions
    <3> HIDE DEF v
    <3> QED BY <2>3, <3>1, Zenon DEF AutoInv, AutoTyped, Automation
  <2>5. auto'.version = v /\ auto'.bound = auto.bound
    BY <2>3 DEF AutoInv, AutoTyped, Automation
  <2>6. Current'.action = Current.action /\ Current'.stage = "done"
    BY <2>2, <2>5 DEF Current
  <2>7. syncer' \in [Syncers -> Syncing] /\ syncer'[s] = IdleSync /\ \A t \in Syncers \ {s} : syncer'[t] = syncer[t]
    BY SyncLeaves DEF Done, AutoInv
  <2>8. UNCHANGED <<flows, late>> /\ n8nCall' \in [Syncers -> Call] /\ Creates' \subseteq Creates
    BY ZenonT(60), CallCleared, NothingAsked DEF Done
  <2> QED BY <1>1, <2>2, <2>4, <2>5, <2>6, <2>7, <2>8, SyncMoves
<1>2. CASE UNCHANGED <<ops, auto>>
  BY <1>2, SyncQuiet DEF Done, AutoInv, AutoTyped, Current
<1> QED BY <1>1, <1>2 DEF Done

\* The workflow a create made is bound.
LEMMA BindKeeps ==
  ASSUME AutoInv, NEW s \in Syncers, Bind(s)
  PROVE  AutoInv'
<1>1. CASE auto.version = syncer[s].v /\ Op(s).stage = "creating"
  <2> DEFINE v == auto.version
  <2>1. ops' = [ops EXCEPT ![v].stage = "prepared"] /\ auto' = [auto EXCEPT !.bound = 1, !.active = FALSE]
    BY <1>1 DEF Bind
  <2>2. ops' \in [Versions -> Operation] /\ ops'[v].stage = "prepared" /\ ops'[v].action = ops[v].action
    BY ZenonT(60), <2>1, StageMoves, TheVersion DEF AutoInv, Stages
  <2>3. auto' \in Automation
    BY <2>1, Zenon DEF AutoInv, AutoTyped, Automation
  <2>4. auto'.version = v /\ auto'.bound = 1
    BY <2>1 DEF AutoInv, AutoTyped, Automation
  <2>5. Current'.action = Current.action /\ Current'.stage = "prepared"
    BY <2>2, <2>4 DEF Current
  <2>6. syncer' \in [Syncers -> Syncing] /\ syncer'[s] = IdleSync /\ \A t \in Syncers \ {s} : syncer'[t] = syncer[t]
    BY SyncLeaves DEF Bind, AutoInv
  <2>7. UNCHANGED <<flows, late>> /\ n8nCall' \in [Syncers -> Call] /\ Creates' \subseteq Creates
    BY CallCleared, NothingAsked DEF Bind
  <2> QED BY <2>2, <2>3, <2>4, <2>5, <2>6, <2>7, SyncMoves
<1>2. CASE UNCHANGED <<ops, auto>>
  BY <1>2, SyncQuiet DEF Bind, AutoInv, AutoTyped, Current
<1> QED BY <1>1, <1>2 DEF Bind

\* An edit supersedes an operation whose request is not open.
LEMMA EditKeeps ==
  ASSUME AutoInv, NEW kind \in {"change", "toggle", "remove"}, Edit(kind)
  PROVE  AutoInv'
<1> DEFINE v == auto.version
           base == IF Current.stage \in {"prepared", "delete_ready"} THEN Current.flow
                   ELSE IF auto.applied = 0 THEN 0 ELSE ops[auto.applied].flow
           content == auto.content + (IF kind = "change" THEN 1 ELSE 0)
           action == IF kind = "remove" THEN "delete"
                     ELSE IF auto.bound = 0 THEN "create"
                     ELSE IF kind = "change" THEN "update" ELSE "toggle"
           new == [action |-> action, stage |-> "pending", base |-> base, error |-> "none",
                   flow |-> IF action \in {"create", "update"} THEN content ELSE base]
           old == [ops[v] EXCEPT !.stage = IF @ = "done" THEN @ ELSE "superseded"]
<1>1. v \in Versions /\ v \in Nat /\ v + 1 \in Versions /\ v > 0
  BY TheVersion, AutomationAssumption DEF Edit, Versions
<1>2. auto \in Automation /\ ops[v] \in Operation /\ ops \in [Versions -> Operation] /\ Current = ops[v]
  BY <1>1 DEF AutoInv, AutoTyped, Current
<1>3. base \in Nat /\ content \in Nat /\ action \in {"create", "update", "toggle", "delete"}
  <2>1. auto.applied # 0 => auto.applied \in Versions
    BY <1>2, AutomationAssumption DEF Automation, Versions
  <2>2. base \in Nat
    BY <1>2, <2>1 DEF Operation
  <2> QED BY <1>2, <2>2 DEF Automation
<1>4. new \in Operation /\ new.stage = "pending" /\ new.action = action
  <2> HIDE DEF base, content, action
  <2> QED BY <1>3 DEF Operation, Stages
<1>5. old \in Operation
  BY <1>2 DEF Operation, Stages
<1>6. ops' = [ops EXCEPT ![v] = old, ![v + 1] = new]
  BY DEF Edit
<1>7. PICK desired \in BOOLEAN, active \in BOOLEAN, gone \in BOOLEAN, status \in {"deleted", "deleting", "pending"} :
         auto' = [auto EXCEPT !.version = v + 1, !.content = content, !.deleted = gone, !.active = active,
                              !.desired = desired, !.status = status]
  <2> DEFINE gone == kind = "remove" /\ auto.bound = 0
             active == auto.active /\ ~gone
             desired == CASE kind = "remove" -> FALSE [] kind = "toggle" -> ~auto.desired [] OTHER -> auto.desired
             status == IF gone THEN "deleted" ELSE IF kind = "remove" THEN "deleting" ELSE "pending"
  <2>1. gone \in BOOLEAN /\ active \in BOOLEAN /\ status \in {"deleted", "deleting", "pending"}
    OBVIOUS
  <2>2. desired \in BOOLEAN
    BY <1>2, Zenon DEF Automation
  <2>3. auto' = [auto EXCEPT !.version = v + 1, !.content = content, !.deleted = gone, !.active = active,
                              !.desired = desired, !.status = status]
    BY DEF Edit
  <2> HIDE DEF gone, active, desired, status, content, v
  <2> QED BY ZenonT(60), <2>1, <2>2, <2>3
<1> HIDE DEF base, content, old, new
<1>8. auto' \in Automation
  <2> HIDE DEF v
  <2> QED BY <1>1, <1>2, <1>3, <1>7, Zenon DEF Automation
<1>9. auto'.version = v + 1 /\ auto'.bound = auto.bound
  BY <1>2, <1>7 DEF Automation
<1>10. ops' \in [Versions -> Operation] /\ ops'[v + 1] = new
  BY <1>1, <1>2, <1>4, <1>5, <1>6
<1>11. Current'.stage = "pending" /\ Current'.action = action
  BY <1>4, <1>9, <1>10 DEF Current
<1>12. UNCHANGED <<flows, syncer, n8nCall, late>> /\ LateCreates' = LateCreates /\ Creates' = Creates
  BY DEF Edit, LateCreates, Creates
<1>13. auto.bound = 1 => action # "create"
  OBVIOUS
<1>14. Requested => auto.bound = 1
  BY DEF Edit, Editable, AutoInv, CreateHeld
<1> HIDE DEF action
<1>15. AutoTyped'
  BY <1>8, <1>10, <1>12 DEF AutoInv, AutoTyped
<1>16. SyncsBehind'
  <2>1. ASSUME NEW s \in Syncers PROVE syncer[s].v \in Nat /\ syncer[s].v <= v
    BY AutomationAssumption DEF AutoInv, AutoTyped, Syncing, SyncsBehind
  <2> QED BY <1>1, <1>9, <1>12, <2>1 DEF AutoInv, SyncsBehind
<1>17. CreateHeld' /\ OneCreate'
  BY <1>9, <1>11, <1>12, <1>13, <1>14 DEF AutoInv, CreateHeld, OneCreate, OneWorkflow, Requested
<1> QED BY <1>15, <1>16, <1>17 DEF AutoInv

\* sync() reads the operation, then n8n: neither touches anything else.
LEMMA ReadsKeep ==
  ASSUME AutoInv, NEW s \in Syncers, Snapshot(s) \/ Look(s)
  PROVE  AutoInv'
<1>1. PICK new \in Syncing : /\ syncer' = [syncer EXCEPT ![s] = new] /\ new.v > 0 /\ new.v <= auto.version
                             /\ (new.v = syncer[s].v /\ new.stage = syncer[s].stage)
                                \/ (new.v = auto.version /\ new.stage = Current.stage)
  <2>1. CASE Snapshot(s)
    <3>1. PICK observe \in BOOLEAN : syncer' = [syncer EXCEPT ![s] = [at |-> "read", v |-> auto.version, stage |-> Current.stage,
                                                                observe |-> observe, got |-> NoFlow]]
      BY <2>1 DEF Snapshot
    <3> DEFINE new == [at |-> "read", v |-> auto.version, stage |-> Current.stage, observe |-> observe, got |-> NoFlow]
    <3>2. auto.version \in 0 .. MaxVersions /\ Current.stage \in Stages /\ NoFlow \in Flow /\ auto.version > 0 /\ auto.version <= auto.version
      BY TheVersion DEF Versions, Operation, NoFlow, Flow
    <3>3. new \in Syncing /\ new.v = auto.version /\ new.stage = Current.stage
      BY <3>2 DEF Syncing
    <3> HIDE DEF new
    <3> QED BY <3>1, <3>2, <3>3 DEF new
  <2>2. CASE Look(s)
    <3>1. syncer[s] \in Syncing /\ syncer[s].at = "read" /\ NoFlow \in Flow /\ flows \in Seq(Flow)
      BY <2>2 DEF Look, AutoInv, AutoTyped, NoFlow, Flow
    <3>2. syncer[s].v > 0 /\ syncer[s].v <= auto.version
      BY <3>1 DEF AutoInv, SyncsBehind
    <3>3. PICK got \in Flow : \/ syncer' = [syncer EXCEPT ![s].at = "seen", ![s].got = got]
                              \/ syncer' = [syncer EXCEPT ![s].at = "seen"]
      <4>1. ASSUME NEW w PROVE (IF w \in DOMAIN flows THEN flows[w] ELSE NoFlow) \in Flow
        BY <3>1
      <4> QED BY <2>2, <3>1, <4>1 DEF Look
    <3> DEFINE one == [syncer[s] EXCEPT !.at = "seen", !.got = got]
               two == [syncer[s] EXCEPT !.at = "seen"]
    <3>4. one \in Syncing /\ two \in Syncing
      BY <3>1, Zenon DEF Syncing
    <3>5. one.v = syncer[s].v /\ one.stage = syncer[s].stage /\ two.v = syncer[s].v /\ two.stage = syncer[s].stage
      BY <3>1 DEF Syncing
    <3>6. syncer' = [syncer EXCEPT ![s] = one] \/ syncer' = [syncer EXCEPT ![s] = two]
      BY <3>3
    <3> HIDE DEF one, two
    <3> QED BY <3>2, <3>4, <3>5, <3>6
  <2> QED BY <2>1, <2>2
<1>2. syncer' \in [Syncers -> Syncing] /\ syncer'[s] = new /\ \A t \in Syncers \ {s} : syncer'[t] = syncer[t]
  BY <1>1 DEF AutoInv, AutoTyped
<1>3. UNCHANGED <<auto, ops, flows, n8nCall, late>>
  BY DEF Snapshot, Look
<1>4. AutoTyped'
  BY <1>2, <1>3 DEF AutoInv, AutoTyped
<1>5. SyncsBehind'
  BY <1>1, <1>2, <1>3 DEF AutoInv, SyncsBehind, Current
<1>6. CreateHeld' /\ OneCreate'
  BY <1>3 DEF AutoInv, CreateHeld, OneCreate, OneWorkflow, Requested, Creates, LateCreates, Current
<1> QED BY <1>4, <1>5, <1>6 DEF AutoInv

\* A call past its read works on a version's operation.
LEMMA WorksOn ==
  ASSUME AutoInv, NEW s \in Syncers, syncer[s].at # "idle"
  PROVE  Op(s) \in Operation /\ syncer[s].got \in Flow /\ (auto.version = syncer[s].v => Current = Op(s))
BY AutomationAssumption DEF AutoInv, AutoTyped, SyncsBehind, Syncing, Versions, Op, Current

LEMMA FromPendingKeeps ==
  ASSUME AutoInv, NEW s \in Syncers, FromPending(s)
  PROVE  AutoInv'
<1> DEFINE o == Op(s)
<1>1. o \in Operation /\ syncer[s].stage = "pending" /\ syncer[s].stage # "creating" /\ (auto.version = syncer[s].v => Current = o)
  BY WorksOn DEF FromPending
<1>2. [what |-> "create", content |-> o.flow] \in Call /\ [what |-> "update", content |-> o.flow] \in Call
  BY <1>1 DEF Operation, Call
<1>3. CASE GiveWay(s)
  BY <1>3, GiveWayKeeps
<1>4. CASE o.action = "create" /\ Send(s, "creating", [what |-> "create", content |-> o.flow])
  BY <1>1, <1>2, <1>4, CreateKeeps
<1>5. CASE o.action = "delete" /\ Done(s, FALSE, TRUE)
  <2>1. auto.version = syncer[s].v => Current.stage # "creating"
    BY <1>1, <1>5 DEF AutoInv, CreateHeld
  <2> QED BY <1>5, <2>1, DoneKeeps
<1>6. CASE Held(s, "missing") \/ Held(s, "drift")
  BY <1>6, HeldKeeps
<1>7. CASE Send(s, "updating", [what |-> "update", content |-> o.flow])
  BY <1>1, <1>2, <1>7, SendKeeps
<1>8. CASE Advance(s, "prepared")
  BY <1>1, <1>8, AdvanceKeeps
<1> QED BY <1>3, <1>4, <1>5, <1>6, <1>7, <1>8 DEF FromPending

\* A call that saw a later stage never finds the operation in its create.
LEMMA PastCreate ==
  ASSUME AutoInv, NEW s \in Syncers, syncer[s].stage \notin {"pending", "creating"}
  PROVE  auto.version = syncer[s].v => Current.stage # "creating"
BY DEF AutoInv, SyncsBehind

LEMMA FromUncertainKeeps ==
  ASSUME AutoInv, NEW s \in Syncers, FromUncertain(s)
  PROVE  AutoInv'
<1>1. (syncer[s].got.pub # 0) \in BOOLEAN
  OBVIOUS
<1>2. CASE Held(s, "unknown") \/ Held(s, "drift") \/ Held(s, "missing")
  BY <1>2, HeldKeeps
<1>3. CASE Bind(s)
  BY <1>3, BindKeeps
<1>4. CASE /\ syncer[s].stage \in {"deleting", "activating", "deactivating"}
           /\ Done(s, FALSE, TRUE) \/ Done(s, syncer[s].got.pub # 0, FALSE)
  BY <1>1, <1>4, PastCreate, DoneKeeps
<1>5. CASE /\ syncer[s].stage \in {"updating", "activating", "deactivating"}
           /\ Advance(s, "prepared") \/ Advance(s, "delete_ready")
  BY <1>5, AdvanceKeeps
<1> QED BY <1>2, <1>3, <1>4, <1>5 DEF FromUncertain

LEMMA FromPreparedKeeps ==
  ASSUME AutoInv, NEW s \in Syncers, FromPrepared(s)
  PROVE  AutoInv'
<1>1. (syncer[s].got.pub # 0) \in BOOLEAN /\ syncer[s].stage \in {"prepared", "delete_ready"} /\ syncer[s].got \in Flow
  BY WorksOn DEF FromPrepared
<1>2. CASE Held(s, "drift") \/ Held(s, "missing")
  BY <1>2, HeldKeeps
<1>3. CASE GiveWay(s)
  BY <1>3, GiveWayKeeps
<1>4. CASE Done(s, syncer[s].got.pub # 0, FALSE)
  BY <1>1, <1>4, PastCreate, DoneKeeps
<1>5. CASE \/ Send(s, "deleting", [what |-> "delete", content |-> 0])
           \/ Send(s, "activating", [what |-> "activate", content |-> syncer[s].got.content])
           \/ Send(s, "deactivating", [what |-> "deactivate", content |-> 0])
  <2>1. /\ [what |-> "delete", content |-> 0] \in Call /\ [what |-> "deactivate", content |-> 0] \in Call
        /\ [what |-> "activate", content |-> syncer[s].got.content] \in Call
    BY <1>1 DEF Call, Flow
  <2> QED BY <1>1, <1>5, <2>1, SendKeeps
<1> QED BY <1>2, <1>3, <1>4, <1>5 DEF FromPrepared

\* Only a create makes a workflow.
LEMMA AppliedOnce ==
  ASSUME flows \in Seq(Flow), NEW request \in Call
  PROVE  /\ Applied(request) \in Seq(Flow)
         /\ Len(Applied(request)) = IF request.what = "create" THEN Len(flows) + 1 ELSE Len(flows)
<1> DEFINE w == Len(flows)
<1>1. CASE request.what = "create"
  <2> DEFINE made == [there |-> TRUE, content |-> request.content, pub |-> 0]
  <2>1. made \in Flow
    BY DEF Flow, Call
  <2>2. Applied(request) = Append(flows, made)
    BY <1>1 DEF Applied
  <2> HIDE DEF made
  <2> QED BY <1>1, <2>1, <2>2
<1>2. CASE request.what # "create" /\ Applied(request) = flows
  BY <1>2
<1>3. CASE request.what # "create" /\ w # 0 /\ Applied(request) # flows
  <2>1. w \in DOMAIN flows /\ flows[w] \in Flow /\ request.content \in Nat
    BY <1>3 DEF Call
  <2> DEFINE updated == [flows[w] EXCEPT !.content = request.content]
             activated == [flows[w] EXCEPT !.pub = request.content]
             stopped0 == [flows[w] EXCEPT !.pub = 0]
  <2>2. updated \in Flow /\ activated \in Flow /\ stopped0 \in Flow /\ NoFlow \in Flow
    BY <2>1 DEF Flow, NoFlow
  <2>3. PICK new \in {updated, activated, stopped0, NoFlow} : Applied(request) = [flows EXCEPT ![w] = new]
    <3>1. \/ Applied(request) = [flows EXCEPT ![w].content = request.content]
          \/ Applied(request) = [flows EXCEPT ![w].pub = request.content]
          \/ Applied(request) = [flows EXCEPT ![w].pub = 0]
          \/ Applied(request) = [flows EXCEPT ![w] = NoFlow]
      BY <1>3 DEF Applied
    <3>2. \/ Applied(request) = [flows EXCEPT ![w] = updated]
          \/ Applied(request) = [flows EXCEPT ![w] = activated]
          \/ Applied(request) = [flows EXCEPT ![w] = stopped0]
          \/ Applied(request) = [flows EXCEPT ![w] = NoFlow]
      BY <3>1
    <3> HIDE DEF updated, activated, stopped0, w
    <3> QED BY <3>2
  <2> HIDE DEF updated, activated, stopped0
  <2>4. new \in Flow
    BY <2>2, <2>3
  <2> QED BY <1>3, <2>1, <2>3, <2>4
<1>4. request.what # "create" /\ w = 0 => Applied(request) = flows
  BY DEF Applied
<1> QED BY <1>1, <1>2, <1>3, <1>4

\* n8n applies a request, in time or late, or somebody edits there.
LEMMA N8nKeeps ==
  ASSUME AutoInv,
         (\E s \in Syncers : Answered(s)) \/ (\E request \in late : LateApplied(request)) \/ DriftFlow
  PROVE  AutoInv'
<1>0. flows \in Seq(Flow) /\ auto' = auto /\ ops' = ops /\ syncer' = syncer
  BY DEF Answered, LateApplied, DriftFlow, AutoInv, AutoTyped
<1>1. SyncsBehind' /\ (Requested' => Requested) /\ OneCreate' /\ AutoTyped' => AutoInv'
  BY <1>0 DEF AutoInv, SyncsBehind, CreateHeld, Current
<1>2. SyncsBehind'
  BY <1>0 DEF AutoInv, SyncsBehind, Current
<1>3. ASSUME NEW s \in Syncers, Answered(s) PROVE AutoInv'
  <2>1. n8nCall[s] \in Call /\ flows' = Applied(n8nCall[s]) /\ late' = late /\ n8nCall' = [n8nCall EXCEPT ![s] = NoRequest]
    BY <1>3 DEF Answered, AutoInv, AutoTyped
  <2>2. flows' \in Seq(Flow) /\ Len(flows') = IF n8nCall[s].what = "create" THEN Len(flows) + 1 ELSE Len(flows)
    BY <1>0, <2>1, AppliedOnce
  <2>3. n8nCall' \in [Syncers -> Call] /\ n8nCall'[s] = NoRequest /\ \A t \in Syncers \ {s} : n8nCall'[t] = n8nCall[t]
    BY <2>1, NothingAsked DEF AutoInv, AutoTyped
  <2>4. Creates' = Creates \ {s} /\ LateCreates' = LateCreates
    BY <2>1, <2>3, NothingAsked DEF Creates, LateCreates
  <2>5. AutoTyped'
    BY <1>0, <2>1, <2>2, <2>3 DEF AutoInv, AutoTyped
  <2>6. Len(flows) \in Nat
    BY <1>0
  <2>7. CASE n8nCall[s].what = "create"
    <3>1. s \in Creates /\ Len(flows) = 0 /\ LateCreates = {} /\ Creates' = {}
      BY <2>4, <2>6, <2>7 DEF Creates, AutoInv, OneCreate
    <3> QED BY <1>1, <1>2, <2>2, <2>4, <2>5, <2>7, <3>1 DEF OneCreate, OneWorkflow, Requested
  <2>8. CASE n8nCall[s].what # "create"
    <3>1. Creates' = Creates
      BY <2>4, <2>8 DEF Creates
    <3> QED BY <1>1, <1>2, <2>2, <2>4, <2>5, <2>8, <3>1 DEF AutoInv, OneCreate, OneWorkflow, Requested
  <2> QED BY <2>7, <2>8
<1>4. ASSUME NEW request \in late, LateApplied(request) PROVE AutoInv'
  <2>1. request \in Call /\ flows' = Applied(request) /\ late' = late \ {request} /\ n8nCall' = n8nCall
    BY <1>4 DEF LateApplied, AutoInv, AutoTyped
  <2>2. flows' \in Seq(Flow) /\ Len(flows') = IF request.what = "create" THEN Len(flows) + 1 ELSE Len(flows)
    BY <1>0, <2>1, AppliedOnce
  <2>3. Creates' = Creates /\ LateCreates' = LateCreates \ {request}
    BY <2>1 DEF Creates, LateCreates
  <2>4. AutoTyped'
    BY <1>0, <2>1, <2>2 DEF AutoInv, AutoTyped
  <2>5. Len(flows) \in Nat
    BY <1>0
  <2>6. CASE request.what = "create"
    <3>1. request \in LateCreates /\ Len(flows) = 0 /\ Creates = {} /\ LateCreates' = {}
      BY <2>3, <2>5, <2>6 DEF LateCreates, AutoInv, OneCreate
    <3> QED BY <1>1, <1>2, <2>2, <2>3, <2>4, <2>6, <3>1 DEF OneCreate, OneWorkflow, Requested
  <2>7. CASE request.what # "create"
    <3>1. LateCreates' = LateCreates
      BY <2>3, <2>7 DEF LateCreates
    <3> QED BY <1>1, <1>2, <2>2, <2>3, <2>4, <2>7, <3>1 DEF AutoInv, OneCreate, OneWorkflow, Requested
  <2> QED BY <2>6, <2>7
<1>5. CASE DriftFlow
  <2>1. PICK w \in DOMAIN flows : flows' = [flows EXCEPT ![w].content = Foreign] /\ UNCHANGED <<n8nCall, late>>
    BY <1>5 DEF DriftFlow
  <2> DEFINE new == [flows[w] EXCEPT !.content = Foreign]
  <2>2. new \in Flow
    <3>1. flows[w] \in Flow /\ Foreign \in Nat
      BY <1>0, <2>1, AutomationAssumption DEF Foreign
    <3> QED BY <3>1 DEF Flow
  <2>3. flows' = [flows EXCEPT ![w] = new]
    BY <2>1
  <2> HIDE DEF new
  <2>4. flows' \in Seq(Flow) /\ Len(flows') = Len(flows)
    BY <1>0, <2>1, <2>2, <2>3
  <2>5. Creates' = Creates /\ LateCreates' = LateCreates
    BY <2>1 DEF Creates, LateCreates
  <2>6. AutoTyped'
    BY <1>0, <2>1, <2>4 DEF AutoInv, AutoTyped
  <2> QED BY <1>1, <1>2, <2>4, <2>5, <2>6 DEF AutoInv, OneCreate, OneWorkflow, Requested
<1> QED BY <1>3, <1>4, <1>5

\* The answer is recorded, or never comes.
LEMMA AnswerKeeps ==
  ASSUME AutoInv, NEW s \in Syncers, RecordAnswer(s) \/ Unanswered(s) \/ Outstanding(s)
  PROVE  AutoInv'
<1>1. CASE RecordAnswer(s)
  <2>1. CASE Bind(s)
    BY <2>1, BindKeeps
  <2>2. CASE syncer[s].stage = "updating" /\ Advance(s, "prepared")
    BY <2>2, AdvanceKeeps
  <2>3. CASE syncer[s].stage = "deleting" /\ Done(s, FALSE, TRUE)
    BY <2>3, PastCreate, DoneKeeps
  <2>4. CASE GiveWay(s)
    BY <2>4, GiveWayKeeps
  <2> QED BY <1>1, <2>1, <2>2, <2>3, <2>4 DEF RecordAnswer
<1>2. CASE Unanswered(s)
  BY <1>2, HeldKeeps DEF Unanswered
<1>3. CASE Outstanding(s)
  <2> DEFINE request == n8nCall[s]
  <2>1. /\ request \in Call /\ late' = late \union {request} /\ Leave(s) /\ n8nCall' = [n8nCall EXCEPT ![s] = NoRequest]
        /\ UNCHANGED <<auto, ops, flows>>
    BY <1>3 DEF Outstanding, AutoInv, AutoTyped
  <2>2. syncer' \in [Syncers -> Syncing] /\ syncer'[s] = IdleSync /\ \A t \in Syncers \ {s} : syncer'[t] = syncer[t]
    BY <2>1, SyncLeaves DEF AutoInv
  <2>3. n8nCall' \in [Syncers -> Call] /\ n8nCall'[s] = NoRequest /\ \A t \in Syncers \ {s} : n8nCall'[t] = n8nCall[t]
    BY <2>1, NothingAsked DEF AutoInv, AutoTyped
  <2>4. Creates' = Creates \ {s}
    BY <2>3, NothingAsked DEF Creates
  <2>5. LateCreates' = IF s \in Creates THEN LateCreates \union {request} ELSE LateCreates
    BY <2>1 DEF Creates, LateCreates
  <2>6. AutoTyped'
    BY <2>1, <2>2, <2>3 DEF AutoInv, AutoTyped
  <2>7. SyncsBehind'
    <3>1. auto.version \in Nat /\ auto.version > 0
      BY TheVersion DEF Versions
    <3> QED BY <2>1, <2>2, <3>1 DEF AutoInv, SyncsBehind, Current, IdleSync
  <2> HIDE DEF request
  <2>8. CreateHeld' /\ OneCreate'
    <3>1. CASE s \in Creates
      <4>1. Creates' = {} /\ LateCreates' = {request} /\ Len(flows) <= 0 /\ Requested
        BY <2>4, <2>5, <3>1 DEF AutoInv, AutoTyped, OneCreate, OneWorkflow, Requested
      <4> QED BY <2>1, <4>1 DEF AutoInv, AutoTyped, CreateHeld, OneCreate, OneWorkflow, Requested, Current
    <3>2. CASE s \notin Creates
      BY <2>1, <2>4, <2>5, <3>2 DEF AutoInv, CreateHeld, OneCreate, OneWorkflow, Requested, Current
    <3> QED BY <3>1, <3>2
  <2> QED BY <2>6, <2>7, <2>8 DEF AutoInv
<1> QED BY <1>1, <1>2, <1>3

LEMMA AutoGoesOn == AutoInv /\ [AutoNext]_autoVars => AutoInv'
<1> SUFFICES ASSUME AutoInv, [AutoNext]_autoVars PROVE AutoInv'
  OBVIOUS
<1>1. CASE UNCHANGED autoVars
  BY <1>1 DEF autoVars, AutoInv, AutoTyped, SyncsBehind, CreateHeld, OneCreate, OneWorkflow, Requested, Creates, LateCreates, Current
<1>2. CASE AutoNext
  BY <1>2, EditKeeps, ReadsKeep, FromPendingKeeps, FromUncertainKeeps, FromPreparedKeeps, AnswerKeeps, N8nKeeps DEF AutoNext
<1> QED BY <1>1, <1>2

\* automations.py: in every reachable state at most one create was sent, and the
\* definition's stage or binding says so.
THEOREM AutomationShape == AutoSpec => []AutoInv
BY AutoStarts, AutoGoesOn, PTL DEF AutoSpec

\* However answers are lost or late, syncs run side by side and the definition is
\* edited, it never has a second workflow in n8n.
THEOREM OneWorkflowAlways == AutoSpec => []OneWorkflow
<1>1. AutoInv => OneWorkflow
  BY DEF AutoInv, OneCreate
<1> QED BY <1>1, AutomationShape, PTL

-----------------------------------------------------------------------------
(* What the owner writes. *)

InboxTyped ==
  /\ input \in [Updates -> {"none", "saved", "noted"}]
  /\ startedRuns \in [Updates -> {0, 1}]
  /\ handler \in [Handlers -> {IdleHandler} \cup [at : {"start", "note"}, u : Updates]]

\* A call works on an update that is saved; it notes a run, and an update is
\* noted, only when the Coordinator has that run.
InputsTrue ==
  /\ \A u \in Updates :
       /\ startedRuns[u] = 1 => input[u] # "none"
       /\ input[u] = "noted" => startedRuns[u] = 1
  /\ \A h \in Handlers :
       /\ handler[h].at = "start" => input[handler[h].u] # "none"
       /\ handler[h].at = "note" => startedRuns[handler[h].u] = 1

InboxInv == InboxTyped /\ InputsTrue

\* A busy call's update is one of the updates.
LEMMA BusyOnUpdate ==
  ASSUME InboxTyped, NEW h \in Handlers, handler[h].at \in {"start", "note"}
  PROVE  handler[h] \in [at : {"start", "note"}, u : Updates]
BY DEF InboxTyped, IdleHandler

\* accept_text() saves the update or notes the run it finds.
LEMMA TakeInput ==
  ASSUME InboxInv, NEW h \in Handlers, NEW u \in Updates, Take(h, u)
  PROVE  InboxInv' /\ [Work!EffectNext]_(Work!effectVars)
<1>1. CASE startedRuns[u] > 0
  <2>1. startedRuns[u] = 1 /\ input[u] \in {"saved", "noted"}
    BY <1>1 DEF InboxInv, InboxTyped, InputsTrue
  <2>2. input' = [input EXCEPT ![u] = "noted"] /\ UNCHANGED <<handler, startedRuns>>
    BY <1>1 DEF Take
  <2>3. InboxInv'
    BY <2>1, <2>2 DEF InboxInv, InboxTyped, InputsTrue
  <2>4. CASE input[u] = "saved"
    <3>1. Work!Confirm(u)
      BY <2>1, <2>2, <2>4 DEF Work!Confirm, InboxInv, InboxTyped
    <3> QED BY <2>3, <3>1 DEF Work!EffectNext
  <2>5. CASE input[u] = "noted"
    <3>1. input' = input
      BY <2>2, <2>5 DEF InboxInv, InboxTyped
    <3> QED BY <2>2, <2>3, <3>1 DEF Work!effectVars
  <2> QED BY <2>1, <2>4, <2>5
<1>2. CASE ~(startedRuns[u] > 0)
  <2>1. /\ input' = [input EXCEPT ![u] = IF input[u] = "none" THEN "saved" ELSE input[u]]
        /\ handler' = [handler EXCEPT ![h] = [at |-> "start", u |-> u]]
        /\ startedRuns' = startedRuns
    BY <1>2 DEF Take
  <2>2. InboxInv'
    BY <2>1 DEF InboxInv, InboxTyped, InputsTrue
  <2>3. CASE input[u] = "none"
    <3>1. Work!Admit(u)
      BY <2>1, <2>3 DEF Work!Admit, InboxInv, InboxTyped
    <3> QED BY <2>2, <3>1 DEF Work!EffectNext
  <2>4. CASE input[u] # "none"
    <3>1. input' = input
      BY <2>1, <2>4 DEF InboxInv, InboxTyped
    <3> QED BY <2>1, <2>2, <3>1 DEF Work!effectVars
  <2> QED BY <2>3, <2>4
<1> QED BY <1>1, <1>2

\* Every step of the gateway admits, works or confirms one update, or none.
LEMMA InboxStep ==
  ASSUME InboxInv, [InboxNext]_inboxVars
  PROVE  InboxInv' /\ [Work!EffectNext]_(Work!effectVars)
<1>1. CASE \/ OfferLink \/ PairOwner \/ DisconnectBot \/ UNCHANGED inboxVars
  <2>1. UNCHANGED <<input, startedRuns, handler>>
    BY <1>1 DEF OfferLink, PairOwner, DisconnectBot, inboxVars
  <2> QED BY <2>1 DEF InboxInv, InboxTyped, InputsTrue, Work!effectVars
<1>2. CASE GatewayDies
  <2>1. handler' = [h \in Handlers |-> IdleHandler] /\ UNCHANGED <<input, startedRuns>>
    BY <1>2 DEF GatewayDies
  <2> QED BY <2>1 DEF InboxInv, InboxTyped, InputsTrue, IdleHandler, Work!effectVars
<1>3. ASSUME NEW h \in Handlers, StartRun(h)
      PROVE  InboxInv' /\ [Work!EffectNext]_(Work!effectVars)
  <2> DEFINE u == handler[h].u
  <2>1. /\ handler[h].at = "start"
        /\ handler' = [handler EXCEPT ![h].at = "note"]
        /\ startedRuns' = [startedRuns EXCEPT ![u] = 1] /\ input' = input
    BY <1>3 DEF StartRun
  <2>0. handler[h] \in [at : {"start", "note"}, u : Updates]
    BY <2>1, BusyOnUpdate DEF InboxInv
  <2>6. [handler[h] EXCEPT !.at = "note"] = [at |-> "note", u |-> u] /\ u \in Updates
    BY <2>0
  <2>7. handler' = [handler EXCEPT ![h] = [at |-> "note", u |-> u]]
    BY <2>1, <2>6
  <2>8. input[u] # "none"
    BY <2>1 DEF InboxInv, InputsTrue
  <2>2. u \in Updates /\ input[u] # "none" /\ handler' = [handler EXCEPT ![h] = [at |-> "note", u |-> u]]
    BY <2>6, <2>7, <2>8
  <2>9. startedRuns' = [startedRuns EXCEPT ![u] = 1] /\ input' = input
    BY <2>1
  <2> HIDE DEF u
  <2>3. InboxInv'
    BY <2>9, <2>2 DEF InboxInv, InboxTyped, InputsTrue
  <2>4. CASE startedRuns[u] = 1
    <3>1. startedRuns' = startedRuns
      BY <2>2, <2>9, <2>4 DEF InboxInv, InboxTyped
    <3> QED BY <2>2, <2>9, <2>3, <3>1 DEF Work!effectVars
  <2>5. CASE startedRuns[u] = 0
    <3>1. input[u] = "saved"
      BY <2>2, <2>9, <2>5 DEF InboxInv, InboxTyped, InputsTrue
    <3>2. Work!Happen(u)
      BY <2>2, <2>9, <2>5, <3>1 DEF Work!Happen
    <3> QED BY <2>2, <2>9, <2>3, <3>2 DEF Work!EffectNext
  <2> QED BY <2>2, <2>9, <2>4, <2>5 DEF InboxInv, InboxTyped
<1>4. ASSUME NEW h \in Handlers, StartRefused(h)
      PROVE  InboxInv' /\ [Work!EffectNext]_(Work!effectVars)
  <2>1. handler' = [handler EXCEPT ![h] = IdleHandler] /\ UNCHANGED <<input, startedRuns>>
    BY <1>4 DEF StartRefused
  <2> QED BY <2>1 DEF InboxInv, InboxTyped, InputsTrue, IdleHandler, Work!effectVars
<1>5. ASSUME NEW h \in Handlers, NoteRun(h)
      PROVE  InboxInv' /\ [Work!EffectNext]_(Work!effectVars)
  <2>0. handler[h].at = "note" /\ handler[h].u \in Updates
    BY <1>5, BusyOnUpdate DEF NoteRun, InboxInv
  <2>1. PICK u \in Updates :
             /\ u = handler[h].u
             /\ handler' = [handler EXCEPT ![h] = IdleHandler]
             /\ input' = [input EXCEPT ![u] = "noted"] /\ startedRuns' = startedRuns
    BY <1>5, <2>0 DEF NoteRun
  <2>2. startedRuns[u] = 1 /\ input[u] \in {"saved", "noted"}
    BY <2>0, <2>1 DEF InboxInv, InboxTyped, InputsTrue
  <2>3. InboxInv'
    BY <2>1, <2>2 DEF InboxInv, InboxTyped, InputsTrue, IdleHandler
  <2>4. CASE input[u] = "saved"
    <3>0. input' = [input EXCEPT ![u] = "noted"] /\ UNCHANGED startedRuns /\ u \in Updates
      BY <2>1
    <3>1. Work!Confirm(u)
      <4>1. input' \in [Updates -> {"none", "saved", "noted"}] /\ input'[u] = "noted"
            /\ \A v \in Updates \ {u} : input'[v] = input[v]
        BY <3>0 DEF InboxInv, InboxTyped
      <4> QED BY ONLY <4>1, <2>2, <2>4, <3>0 DEF Work!Confirm
    <3>2. Work!EffectNext
      BY <3>1 DEF Work!EffectNext
    <3> QED BY <2>3, <3>2
  <2>5. CASE input[u] = "noted"
    <3>1. input' = input
      BY <2>1, <2>5 DEF InboxInv, InboxTyped
    <3> QED BY <2>1, <2>3, <3>1 DEF Work!effectVars
  <2> QED BY <2>2, <2>4, <2>5
<1> QED BY <1>1, <1>2, <1>3, <1>4, <1>5, TakeInput DEF InboxNext, Receive, DrainInput

\* What is known of the inputs stays known.
THEOREM InboxShape == InboxSpec => []InboxInv
<1>1. InboxInit => InboxInv
  BY DEF InboxInit, InboxInv, InboxTyped, InputsTrue, IdleHandler
<1> QED BY <1>1, InboxStep, PTL DEF InboxSpec

\* accept_text(), drain(): whatever Telegram repeats, the drain takes up again or
\* a death interrupts, an update of the owner is worked by at most one run and
\* noted as worked only when that run exists.
THEOREM InputsWorkedOnce == InboxSpec => InputOnce
<1>1. InboxInit => Work!EffectInit
  BY DEF InboxInit, Work!EffectInit
<1> QED BY <1>1, InboxStep, InboxShape, PTL DEF InboxSpec, InputOnce, Work!EffectSpec
=============================================================================
