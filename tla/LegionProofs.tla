---------------------------- MODULE LegionProofs -----------------------------
(***************************************************************************)
(* Proofs about the workers of a run, for any finite set of workers and any *)
(* instructions: none is missed or given twice, a window that has caught up *)
(* has counted every output, and a result stays what it is.  And about the  *)
(* dialogue of a round, for any participants and any number of steps: a     *)
(* turn that asked is answered once, last and in full.                      *)
(***************************************************************************)
EXTENDS Legion, Dialogue, FiniteSetTheorems, TLAPS

-----------------------------------------------------------------------------
(* Numbers and sequences.                                                  *)

\* Every set of numbers has a least one.
LEMMA LeastNumber ==
  ASSUME NEW T, T \subseteq Nat, T # {} PROVE \E x \in T : \A y \in T : x <= y
<1>1. PICK x \in T : \A y \in T : ~(<<y, x>> \in OpToRel(<, Nat))
  BY ZenonT(60), NatLessThanWellFounded, WFMin
<1>2. \A y \in T : y \in Nat /\ x \in Nat /\ ~(y < x)
  BY <1>1 DEF OpToRel
<1> QED BY <1>2

\* What holds of 0 and goes on from each number to the next holds of all: the
\* numbers it does not hold of would have a least one.
LEMMA SetInduction ==
  ASSUME NEW S, 0 \in S, \A n \in Nat : n \in S => n + 1 \in S PROVE Nat \subseteq S
<1> SUFFICES ASSUME Nat \ S # {} PROVE FALSE
  OBVIOUS
<1>1. PICK x \in Nat \ S : \A y \in Nat \ S : x <= y
  BY LeastNumber
<1>2. x # 0 /\ x - 1 \in Nat /\ x = (x - 1) + 1
  BY <1>1
<1>3. x - 1 \in S
  BY <1>1, <1>2
<1> QED BY <1>1, <1>2, <1>3

\* A bounded set of numbers has a greatest one.
LEMMA GreatestNumber ==
  ASSUME NEW T, NEW n \in Nat, T \subseteq 0 .. n, T # {}
  PROVE  \E x \in T : \A y \in T : y <= x
<1> DEFINE U == {m \in Nat : n - m \in T}
<1>1. U # {}
  <2>1. PICK y \in T : TRUE
    OBVIOUS
  <2>2. n - y \in Nat /\ n - (n - y) = y
    BY <2>1
  <2> QED BY <2>1, <2>2
<1>2. PICK m \in U : \A y \in U : m <= y
  BY <1>1, LeastNumber
<1>3. \A y \in T : y <= n - m
  <2> SUFFICES ASSUME NEW y \in T PROVE y <= n - m
    OBVIOUS
  <2>1. n - y \in Nat /\ n - (n - y) = y
    OBVIOUS
  <2>2. m <= n - y
    BY <1>2, <2>1
  <2> QED BY <1>2, <2>1, <2>2
<1> QED BY <1>2, <1>3

-----------------------------------------------------------------------------
(* The workers of a run, their instructions and the cards of a window.     *)
(* "finished", "text" and the rest of a worker's events are kept in order, *)
(* so a card that has read them up to its `last` has counted exactly the   *)
(* output up to there, and `last` is never behind the cursor.              *)

LogEvent == [w : Workers, phase : {"started", "running", "text", "interrupt", "finished"}]
RowStatus == {"none"} \cup ActiveStates \cup TerminalStates
Card == [status : RowStatus, last : Nat, shown : Nat, partial : BOOLEAN]
Places == {"none", "begun", "dispatch", "head", "packet", "model", "reply", "end", "settle", "fail"}

LegionTyped ==
  /\ legionRow \in [Executions -> [status : RowStatus, cancelled : BOOLEAN]]
  /\ legionJob \in [Executions -> [at : Places, kill : BOOLEAN]]
  /\ steering \in [Messages -> [to : Executions, times : Nat,
                                status : {"none", "queued", "delivering", "delivered"}]]
  /\ packet \in [Executions -> SUBSET Messages]
  /\ roomLog \in Seq(LogEvent)
  /\ window \in [at : {"closed", "rows", "pages", "follow"}, floor : Nat, cursor : Nat, opened : Nat,
                 card : [Workers -> Card]]

\* What is claimed is on its way to the execution that claimed it.
SteeringTrue ==
  /\ DeliveredMeansSeen
  /\ \A e \in Executions : \A i \in packet[e] : steering[i].status = "delivering" /\ steering[i].to = e

\* A card has counted the output up to the last event it read, and read all up to
\* the cursor.
CardCounts(w) ==
  LET card == window.card[w] IN
  /\ card.last <= Len(roomLog)
  /\ \A n \in EventsOf(w) : n <= window.cursor => n <= card.last
  /\ ~card.partial => card.shown = Cardinality({n \in TextsOf(w) : n <= card.last})

CardsTrue ==
  /\ window.at # "closed" => window.floor <= Len(roomLog)
  /\ window.at = "follow" => window.cursor <= Len(roomLog) /\ \A w \in Workers : CardCounts(w)

LegionInv == LegionTyped /\ SteeringTrue /\ CardsTrue

LEMMA ExecutionsAre ==
  /\ Lead \in Executions /\ Lead \notin Workers /\ IsFiniteSet(Workers)
  /\ \A w \in Workers : w \in Executions
BY LegionAssumption DEF Executions

LEMMA RowMoves ==
  ASSUME legionRow \in [Executions -> [status : RowStatus, cancelled : BOOLEAN]],
         NEW e \in Executions, NEW s \in RowStatus, legionRow' = [legionRow EXCEPT ![e].status = s]
  PROVE  /\ legionRow' \in [Executions -> [status : RowStatus, cancelled : BOOLEAN]]
         /\ legionRow'[e].status = s
         /\ \A x \in Executions \ {e} : legionRow'[x] = legionRow[x]
<1>1. [legionRow[e] EXCEPT !.status = s] \in [status : RowStatus, cancelled : BOOLEAN]
      /\ [legionRow[e] EXCEPT !.status = s].status = s
  <2>1. legionRow[e] \in [status : RowStatus, cancelled : BOOLEAN]
    OBVIOUS
  <2> QED BY <2>1, Zenon
<1>2. legionRow' = [legionRow EXCEPT ![e] = [legionRow[e] EXCEPT !.status = s]]
  OBVIOUS
<1> QED BY <1>1, <1>2

LEMMA JobMoves ==
  ASSUME legionJob \in [Executions -> [at : Places, kill : BOOLEAN]],
         NEW e \in Executions, NEW p \in Places, Goes(e, p)
  PROVE  legionJob' \in [Executions -> [at : Places, kill : BOOLEAN]]
<1>1. [legionJob[e] EXCEPT !.at = p] \in [at : Places, kill : BOOLEAN]
  <2>1. legionJob[e] \in [at : Places, kill : BOOLEAN]
    OBVIOUS
  <2> QED BY <2>1, Zenon
<1>2. legionJob' = [legionJob EXCEPT ![e] = [legionJob[e] EXCEPT !.at = p]]
  BY DEF Goes
<1> QED BY <1>1, <1>2

LEMMA JobsKilled ==
  ASSUME legionJob \in [Executions -> [at : Places, kill : BOOLEAN]], NEW S,
         KillTasks(S) \/ legionJob' = [e \in Executions |->
            IF e = Lead THEN NoJob
            ELSE IF e \in S /\ legionJob[e].at # "none" THEN [legionJob[e] EXCEPT !.kill = TRUE] ELSE legionJob[e]]
  PROVE  legionJob' \in [Executions -> [at : Places, kill : BOOLEAN]]
<1>1. NoJob \in [at : Places, kill : BOOLEAN]
  BY DEF NoJob, Places
<1>2. \A e \in Executions : [legionJob[e] EXCEPT !.kill = TRUE] \in [at : Places, kill : BOOLEAN]
  <2> TAKE e \in Executions
  <2>1. legionJob[e] \in [at : Places, kill : BOOLEAN]
    OBVIOUS
  <2> QED BY <2>1, Zenon
<1> QED BY SMTT(60), <1>1, <1>2 DEF KillTasks

\* A longer log leaves every card with what it counted.
LEMMA LogKept ==
  ASSUME LegionInv, UNCHANGED window, roomLog' \in Seq(LogEvent), Len(roomLog) <= Len(roomLog'),
         \A n \in 1 .. Len(roomLog) : roomLog'[n] = roomLog[n]
  PROVE  CardsTrue'
<1>t. /\ roomLog \in Seq(LogEvent) /\ CardsTrue
      /\ window \in [at : {"closed", "rows", "pages", "follow"}, floor : Nat, cursor : Nat, opened : Nat,
                     card : [Workers -> Card]]
  BY DEF LegionInv, LegionTyped
<1>1. DOMAIN roomLog = 1 .. Len(roomLog) /\ DOMAIN roomLog' = 1 .. Len(roomLog')
      /\ Len(roomLog) \in Nat /\ Len(roomLog') \in Nat
  BY <1>t
<1>2. ASSUME window.at = "follow", NEW w \in Workers PROVE CardCounts(w)'
  <2>1. CardCounts(w) /\ window.cursor <= Len(roomLog) /\ window.cursor \in Nat /\ window.card[w] \in Card
    BY <1>t, <1>2 DEF CardsTrue
  <2>2. window.card[w].last \in Nat /\ window.card[w].last <= Len(roomLog)
    BY <2>1 DEF CardCounts, Card
  <2>3. \A n \in EventsOf(w)' : n <= Len(roomLog) => n \in EventsOf(w)
    BY <1>1 DEF EventsOf
  <2>4. {n \in TextsOf(w) : n <= window.card[w].last}' = {n \in TextsOf(w) : n <= window.card[w].last}
    <3>1. \A n \in 1 .. Len(roomLog') : n <= window.card[w].last => n \in 1 .. Len(roomLog)
      BY <1>1, <2>2
    <3>2. \A n \in 1 .. Len(roomLog) : n \in 1 .. Len(roomLog')
      BY <1>1
    <3> QED BY <1>1, <3>1, <3>2 DEF EventsOf, TextsOf
  <2>5. \A n \in EventsOf(w)' : n <= window.cursor => n <= window.card[w].last
    <3> SUFFICES ASSUME NEW n \in EventsOf(w)', n <= window.cursor PROVE n <= window.card[w].last
      OBVIOUS
    <3>1. n \in Nat
      BY <1>1 DEF EventsOf
    <3>2. n <= Len(roomLog)
      BY <1>1, <2>1, <3>1
    <3> QED BY <2>1, <2>3, <3>2 DEF CardCounts
  <2>6. window.card[w].last <= Len(roomLog')
    BY <1>1, <2>2
  <2>7. window'.card[w] = window.card[w] /\ window'.cursor = window.cursor
    OBVIOUS
  <2> QED BY <2>1, <2>4, <2>5, <2>6, <2>7 DEF CardCounts
<1> QED BY <1>t, <1>1, <1>2 DEF CardsTrue

\* Events are only added at the end.
LEMMA EmitAdds ==
  ASSUME LegionInv, UNCHANGED window, NEW s \in Seq(LogEvent), roomLog' = roomLog \o s
  PROVE  CardsTrue' /\ roomLog' \in Seq(LogEvent)
<1>1. roomLog \in Seq(LogEvent)
  BY DEF LegionInv, LegionTyped
<1>2. /\ roomLog' \in Seq(LogEvent) /\ Len(roomLog) <= Len(roomLog')
      /\ \A n \in 1 .. Len(roomLog) : roomLog'[n] = roomLog[n]
  BY <1>1
<1> QED BY <1>2, LogKept

LEMMA EmitKeeps ==
  ASSUME LegionInv, UNCHANGED window,
         NEW w \in Workers, NEW p \in {"started", "running", "text", "interrupt", "finished"}, Emit(w, p)
  PROVE  CardsTrue' /\ roomLog' \in Seq(LogEvent)
<1> DEFINE x == [w |-> w, phase |-> p]
<1>1. x \in LogEvent /\ roomLog \in Seq(LogEvent)
  BY DEF LegionInv, LegionTyped, LogEvent
<1> HIDE DEF x
<1>2. roomLog' = Append(roomLog, x)
  BY DEF Emit, x
<1>3. /\ roomLog' \in Seq(LogEvent) /\ Len(roomLog) <= Len(roomLog')
      /\ \A n \in 1 .. Len(roomLog) : roomLog'[n] = roomLog[n]
  BY <1>1, <1>2
<1> QED BY <1>3, LogKept

\* What drops claimed instructions, and records none, leaves them honest.
LEMMA SteeringKept ==
  ASSUME LegionInv, UNCHANGED steering,
         packet' \in [Executions -> SUBSET Messages], \A e \in Executions : packet'[e] \subseteq packet[e]
  PROVE  SteeringTrue'
BY DEF LegionInv, SteeringTrue, DeliveredMeansSeen

LEMMA PacketDropped ==
  ASSUME packet \in [Executions -> SUBSET Messages], NEW x \in Executions, packet' = [packet EXCEPT ![x] = {}]
  PROVE  packet' \in [Executions -> SUBSET Messages] /\ \A e \in Executions : packet'[e] \subseteq packet[e]
OBVIOUS

\* What leaves the log, the instructions and the window alone.
LEMMA OthersKeep ==
  ASSUME LegionInv, UNCHANGED <<roomLog, window, steering>>,
         legionRow' \in [Executions -> [status : RowStatus, cancelled : BOOLEAN]],
         legionJob' \in [Executions -> [at : Places, kill : BOOLEAN]],
         packet' \in [Executions -> SUBSET Messages], \A e \in Executions : packet'[e] \subseteq packet[e]
  PROVE  LegionInv'
<1>1. roomLog \in Seq(LogEvent)
  BY DEF LegionInv, LegionTyped
<1>2. CardsTrue'
  BY <1>1, LogKept
<1>3. SteeringTrue'
  BY SteeringKept
<1>4. LegionTyped'
  BY DEF LegionInv, LegionTyped
<1> QED BY <1>2, <1>3, <1>4 DEF LegionInv

\* What adds events, and leaves the instructions and the window alone.
LEMMA EmittersKeep ==
  ASSUME LegionInv, UNCHANGED <<window, steering>>, roomLog' \in Seq(LogEvent), CardsTrue',
         legionRow' \in [Executions -> [status : RowStatus, cancelled : BOOLEAN]],
         legionJob' \in [Executions -> [at : Places, kill : BOOLEAN]],
         packet' \in [Executions -> SUBSET Messages], \A e \in Executions : packet'[e] \subseteq packet[e]
  PROVE  LegionInv'
<1>1. SteeringTrue'
  BY SteeringKept
<1>2. LegionTyped'
  BY DEF LegionInv, LegionTyped
<1> QED BY <1>1, <1>2 DEF LegionInv

LEMMA FinishKeeps ==
  ASSUME LegionInv, NEW w \in Workers, NEW s \in TerminalStates, FinishWorker(w, s)
  PROVE  LegionInv'
<1>t. /\ legionRow \in [Executions -> [status : RowStatus, cancelled : BOOLEAN]]
      /\ legionJob \in [Executions -> [at : Places, kill : BOOLEAN]]
      /\ packet \in [Executions -> SUBSET Messages]
      /\ w \in Executions /\ UNCHANGED <<window, steering>>
  BY ExecutionsAre DEF LegionInv, LegionTyped, FinishWorker
<1>1. legionJob' \in [Executions -> [at : Places, kill : BOOLEAN]]
  <2>1. NoJob \in [at : Places, kill : BOOLEAN]
    BY DEF NoJob, Places
  <2> QED BY <1>t, <2>1 DEF FinishWorker
<1>2. packet' \in [Executions -> SUBSET Messages] /\ \A e \in Executions : packet'[e] \subseteq packet[e]
  BY <1>t, PacketDropped DEF FinishWorker
<1>3. CASE legionRow[w].status \in TerminalStates
  BY <1>t, <1>1, <1>2, <1>3, OthersKeep DEF FinishWorker
<1>4. CASE legionRow[w].status \notin TerminalStates
  <2> DEFINE last == IF legionRow[w].cancelled /\ s # "reconciling" THEN "interrupted" ELSE s
  <2>1. last \in RowStatus
    BY DEF RowStatus, TerminalStates
  <2>2. legionRow' = [legionRow EXCEPT ![w].status = last] /\ Emit(w, "finished")
    BY <1>4 DEF FinishWorker
  <2> HIDE DEF last
  <2>3. legionRow' \in [Executions -> [status : RowStatus, cancelled : BOOLEAN]]
    BY <1>t, <2>1, <2>2, RowMoves
  <2>4. CardsTrue' /\ roomLog' \in Seq(LogEvent)
    BY <1>t, <2>2, EmitKeeps
  <2> QED BY <1>t, <1>1, <1>2, <2>3, <2>4, EmittersKeep
<1> QED BY <1>3, <1>4

LEMMA AdmissionKeeps ==
  ASSUME LegionInv, NEW w \in Workers, BeginWorker(w) \/ SpawnWorker(w) \/ DispatchWorker(w)
  PROVE  LegionInv'
<1>t. /\ legionRow \in [Executions -> [status : RowStatus, cancelled : BOOLEAN]]
      /\ legionJob \in [Executions -> [at : Places, kill : BOOLEAN]]
      /\ packet \in [Executions -> SUBSET Messages]
      /\ w \in Executions /\ {"begun", "dispatch", "none", "head"} \subseteq Places
      /\ {"admitted", "running", "interrupted"} \subseteq RowStatus
  BY ExecutionsAre DEF LegionInv, LegionTyped, Places, RowStatus, ActiveStates, TerminalStates
<1>1. CASE BeginWorker(w)
  <2>1. /\ legionRow' = [legionRow EXCEPT ![w].status = "admitted"] /\ Goes(w, "begun") /\ Emit(w, "started")
        /\ UNCHANGED <<window, steering, packet>>
    BY <1>1 DEF BeginWorker
  <2>2. legionRow' \in [Executions -> [status : RowStatus, cancelled : BOOLEAN]]
    BY <1>t, <2>1, RowMoves
  <2>3. legionJob' \in [Executions -> [at : Places, kill : BOOLEAN]]
    BY <1>t, <2>1, JobMoves
  <2>4. CardsTrue' /\ roomLog' \in Seq(LogEvent)
    BY <2>1, EmitKeeps
  <2> QED BY <1>t, <2>1, <2>2, <2>3, <2>4, EmittersKeep
<1>2. CASE SpawnWorker(w)
  <2>1. legionJob' \in [Executions -> [at : Places, kill : BOOLEAN]]
    <3> DEFINE p == IF legionJob[Lead].kill THEN "none" ELSE "dispatch"
    <3>1. p \in Places /\ Goes(w, p)
      BY <1>t, <1>2 DEF SpawnWorker
    <3> QED BY <1>t, <3>1, JobMoves
  <2> QED BY <1>t, <1>2, <2>1, OthersKeep DEF SpawnWorker
<1>3. CASE DispatchWorker(w)
  <2>1. UNCHANGED <<window, steering, packet>>
    BY <1>3 DEF DispatchWorker
  <2>2. CASE legionRow[w].status # "admitted"
    <3>1. legionJob' \in [Executions -> [at : Places, kill : BOOLEAN]]
      BY <1>t, <1>3, <2>2, JobMoves DEF DispatchWorker
    <3> QED BY <1>t, <1>3, <2>1, <2>2, <3>1, OthersKeep DEF DispatchWorker
  <2>3. CASE legionRow[w].status = "admitted" /\ ~RootAdmitted
    <3>1. Goes(w, "none") /\ UNCHANGED roomLog /\ legionRow' = [legionRow EXCEPT ![w].status = "interrupted"]
      BY <1>3, <2>3 DEF DispatchWorker
    <3>2. legionJob' \in [Executions -> [at : Places, kill : BOOLEAN]]
      BY <1>t, <3>1, JobMoves
    <3>3. legionRow' \in [Executions -> [status : RowStatus, cancelled : BOOLEAN]]
      BY <1>t, <3>1, RowMoves
    <3> QED BY <1>t, <2>1, <3>1, <3>2, <3>3, OthersKeep
  <2>4. CASE legionRow[w].status = "admitted" /\ RootAdmitted
    <3>1. Goes(w, "head") /\ Emit(w, "running") /\ legionRow' = [legionRow EXCEPT ![w].status = "running"]
      BY <1>3, <2>4 DEF DispatchWorker
    <3>2. legionJob' \in [Executions -> [at : Places, kill : BOOLEAN]]
      BY <1>t, <3>1, JobMoves
    <3>3. legionRow' \in [Executions -> [status : RowStatus, cancelled : BOOLEAN]]
      BY <1>t, <3>1, RowMoves
    <3>4. CardsTrue' /\ roomLog' \in Seq(LogEvent)
      BY <2>1, <3>1, EmitKeeps
    <3> QED BY <1>t, <2>1, <3>2, <3>3, <3>4, EmittersKeep
  <2> QED BY <2>2, <2>3, <2>4
<1> QED BY <1>1, <1>2, <1>3

\* Instructions that change status, and the packets that follow them.
LEMMA InputsKeep ==
  ASSUME LegionInv, UNCHANGED <<legionRow, roomLog, window>>,
         legionJob' \in [Executions -> [at : Places, kill : BOOLEAN]],
         steering' \in [Messages -> [to : Executions, times : Nat,
                                     status : {"none", "queued", "delivering", "delivered"}]],
         packet' \in [Executions -> SUBSET Messages], SteeringTrue'
  PROVE  LegionInv'
<1>1. roomLog \in Seq(LogEvent)
  BY DEF LegionInv, LegionTyped
<1>2. CardsTrue'
  BY <1>1, LogKept
<1>3. LegionTyped'
  BY DEF LegionInv, LegionTyped
<1> QED BY <1>2, <1>3 DEF LegionInv

\* claim(): what waited for an execution is on its way to it.
LEMMA ClaimedKeeps ==
  ASSUME LegionInv, NEW e \in Executions, UNCHANGED <<legionRow, roomLog, window>>,
         legionJob' \in [Executions -> [at : Places, kill : BOOLEAN]],
         MarkAll(WaitingFor(e), "delivering"), packet' = [packet EXCEPT ![e] = WaitingFor(e)]
  PROVE  LegionInv'
<1>t. /\ steering \in [Messages -> [to : Executions, times : Nat,
                                    status : {"none", "queued", "delivering", "delivered"}]]
      /\ packet \in [Executions -> SUBSET Messages] /\ SteeringTrue
  BY DEF LegionInv, LegionTyped
<1>1. \A i \in Messages :
        /\ [steering[i] EXCEPT !.status = "delivering"] \in
             [to : Executions, times : Nat, status : {"none", "queued", "delivering", "delivered"}]
        /\ [steering[i] EXCEPT !.status = "delivering"].status = "delivering"
        /\ [steering[i] EXCEPT !.status = "delivering"].to = steering[i].to
        /\ [steering[i] EXCEPT !.status = "delivering"].times = steering[i].times
  <2> TAKE i \in Messages
  <2>1. steering[i] \in [to : Executions, times : Nat, status : {"none", "queued", "delivering", "delivered"}]
    BY <1>t
  <2> QED BY <2>1, Zenon
<1>2. /\ steering' \in [Messages -> [to : Executions, times : Nat,
                                     status : {"none", "queued", "delivering", "delivered"}]]
      /\ \A i \in Messages : steering'[i].to = steering[i].to /\ steering'[i].times = steering[i].times
      /\ \A i \in WaitingFor(e) : steering'[i].status = "delivering"
      /\ \A i \in Messages \ WaitingFor(e) : steering'[i] = steering[i]
  BY <1>t, <1>1 DEF MarkAll, WaitingFor
<1>3. /\ packet' \in [Executions -> SUBSET Messages] /\ packet'[e] = WaitingFor(e)
      /\ \A x \in Executions \ {e} : packet'[x] = packet[x]
  BY <1>t DEF WaitingFor
<1>4. SteeringTrue'
  <2>1. DeliveredMeansSeen'
    BY <1>t, <1>2 DEF SteeringTrue, DeliveredMeansSeen, WaitingFor
  <2>2. \A x \in Executions : \A i \in packet'[x] : steering'[i].status = "delivering" /\ steering'[i].to = x
    <3> SUFFICES ASSUME NEW x \in Executions, NEW i \in packet'[x]
                 PROVE  steering'[i].status = "delivering" /\ steering'[i].to = x
      OBVIOUS
    <3>1. CASE x = e
      BY <1>2, <1>3, <3>1 DEF WaitingFor
    <3>2. CASE x # e
      <4>1. i \in packet[x] /\ i \in Messages
        BY <1>t, <1>3, <3>2
      <4>2. i \notin WaitingFor(e)
        BY <1>t, <4>1 DEF SteeringTrue, WaitingFor
      <4> QED BY <1>t, <1>2, <4>1, <4>2 DEF SteeringTrue
    <3> QED BY <3>1, <3>2
  <2> QED BY <2>1, <2>2 DEF SteeringTrue
<1> QED BY <1>2, <1>3, <1>4, InputsKeep

LEMMA BoundaryKeeps ==
  ASSUME LegionInv, NEW e \in Executions, RecordBoundary(e) PROVE LegionInv'
<1> DEFINE Told(i) == [steering[i] EXCEPT !.status = "delivered", !.times = @ + 1]
<1>r. /\ steering' = [i \in Messages |-> IF i \in packet[e] THEN Told(i) ELSE steering[i]]
      /\ packet' = [packet EXCEPT ![e] = {}] /\ Goes(e, "model")
      /\ legionRow' = legionRow /\ roomLog' = roomLog /\ window' = window
  BY Zenon DEF RecordBoundary
<1>t. /\ steering \in [Messages -> [to : Executions, times : Nat,
                                    status : {"none", "queued", "delivering", "delivered"}]]
      /\ legionJob \in [Executions -> [at : Places, kill : BOOLEAN]]
      /\ packet \in [Executions -> SUBSET Messages] /\ SteeringTrue
      /\ "model" \in Places
  BY DEF LegionInv, LegionTyped, Places
<1>1. ASSUME NEW i \in Messages
      PROVE  /\ Told(i) \in [to : Executions, times : Nat, status : {"none", "queued", "delivering", "delivered"}]
             /\ Told(i).status = "delivered" /\ Told(i).to = steering[i].to /\ Told(i).times = steering[i].times + 1
  <2>1. steering[i] \in [to : Executions, times : Nat, status : {"none", "queued", "delivering", "delivered"}]
        /\ steering[i].times + 1 \in Nat
    BY <1>t
  <2> QED BY <2>1, Zenon
<1> HIDE DEF Told
<1>2. /\ steering' \in [Messages -> [to : Executions, times : Nat,
                                     status : {"none", "queued", "delivering", "delivered"}]]
      /\ \A i \in packet[e] : steering'[i].status = "delivered" /\ steering'[i].times = steering[i].times + 1
      /\ \A i \in Messages \ packet[e] : steering'[i] = steering[i]
  <2>1. \A i \in Messages : steering'[i] = IF i \in packet[e] THEN Told(i) ELSE steering[i]
    BY <1>r
  <2>2. packet[e] \subseteq Messages
    BY <1>t
  <2> QED BY <1>r, <1>t, <1>1, <2>1, <2>2
<1>3. /\ packet' \in [Executions -> SUBSET Messages] /\ packet'[e] = {}
      /\ \A x \in Executions \ {e} : packet'[x] = packet[x]
  BY <1>r, <1>t
<1>4. SteeringTrue'
  <2>1. DeliveredMeansSeen'
    <3> SUFFICES ASSUME NEW i \in Messages
                 PROVE  steering'[i].times = IF steering'[i].status = "delivered" THEN 1 ELSE 0
      BY DEF DeliveredMeansSeen
    <3>1. CASE i \in packet[e]
      <4>1. steering[i].times = 0
        BY <1>t, <3>1 DEF SteeringTrue, DeliveredMeansSeen
      <4> QED BY <1>2, <3>1, <4>1
    <3>2. CASE i \notin packet[e]
      BY <1>t, <1>2, <3>2 DEF SteeringTrue, DeliveredMeansSeen
    <3> QED BY <3>1, <3>2
  <2>2. \A x \in Executions : \A i \in packet'[x] : steering'[i].status = "delivering" /\ steering'[i].to = x
    <3> SUFFICES ASSUME NEW x \in Executions, NEW i \in packet'[x]
                 PROVE  steering'[i].status = "delivering" /\ steering'[i].to = x
      OBVIOUS
    <3>1. x # e /\ i \in packet[x] /\ i \in Messages
      BY <1>t, <1>3
    <3>2. i \notin packet[e]
      BY <1>t, <3>1 DEF SteeringTrue
    <3> QED BY <1>t, <1>2, <3>1, <3>2 DEF SteeringTrue
  <2> QED BY <2>1, <2>2 DEF SteeringTrue
<1>5. legionJob' \in [Executions -> [at : Places, kill : BOOLEAN]]
  BY <1>r, <1>t, JobMoves
<1> QED BY <1>r, <1>t, <1>2, <1>3, <1>4, <1>5, InputsKeep

\* message(), steer(): a new instruction waits.
LEMMA SteerKeeps ==
  ASSUME LegionInv, NEW e \in Executions, NEW i \in Messages, Steer(e, i) PROVE LegionInv'
<1>t. /\ steering \in [Messages -> [to : Executions, times : Nat,
                                    status : {"none", "queued", "delivering", "delivered"}]]
      /\ legionJob \in [Executions -> [at : Places, kill : BOOLEAN]]
      /\ packet \in [Executions -> SUBSET Messages] /\ SteeringTrue
      /\ UNCHANGED <<legionRow, legionJob, packet, roomLog, window>>
  BY DEF LegionInv, LegionTyped, Steer
<1> DEFINE queued == [steering[i] EXCEPT !.to = e, !.status = "queued"]
<1>1. /\ queued \in [to : Executions, times : Nat, status : {"none", "queued", "delivering", "delivered"}]
      /\ queued.status = "queued" /\ queued.times = steering[i].times
  <2>1. steering[i] \in [to : Executions, times : Nat, status : {"none", "queued", "delivering", "delivered"}]
    BY <1>t
  <2> QED BY <2>1, Zenon
<1>2. steering' = [steering EXCEPT ![i] = queued] /\ steering[i].status = "none"
  BY DEF Steer
<1> HIDE DEF queued
<1>3. /\ steering' \in [Messages -> [to : Executions, times : Nat,
                                     status : {"none", "queued", "delivering", "delivered"}]]
      /\ steering'[i] = queued /\ \A m \in Messages \ {i} : steering'[m] = steering[m]
  BY <1>t, <1>1, <1>2
<1>4. SteeringTrue'
  <2>1. DeliveredMeansSeen'
    BY <1>t, <1>1, <1>2, <1>3 DEF SteeringTrue, DeliveredMeansSeen
  <2>2. \A x \in Executions : \A m \in packet'[x] : steering'[m].status = "delivering" /\ steering'[m].to = x
    BY <1>t, <1>2, <1>3 DEF SteeringTrue
  <2> QED BY <2>1, <2>2 DEF SteeringTrue
<1> QED BY <1>t, <1>3, <1>4, InputsKeep

\* The loop of an execution.
LEMMA LoopKeeps ==
  ASSUME LegionInv, NEW e \in Executions,
         \/ ClaimInputs(e) \/ Inactive(e) \/ WorkerAnswers(e) \/ NextTurn(e) \/ EndTurn(e)
  PROVE  LegionInv'
<1>t. /\ legionRow \in [Executions -> [status : RowStatus, cancelled : BOOLEAN]]
      /\ legionJob \in [Executions -> [at : Places, kill : BOOLEAN]]
      /\ packet \in [Executions -> SUBSET Messages]
      /\ {"packet", "fail", "reply", "end", "head", "settle"} \subseteq Places
  BY DEF LegionInv, LegionTyped, Places
<1>1. CASE ClaimInputs(e)
  <2>1. legionJob' \in [Executions -> [at : Places, kill : BOOLEAN]]
    BY <1>t, <1>1, JobMoves DEF ClaimInputs
  <2> QED BY <1>1, <2>1, ClaimedKeeps DEF ClaimInputs
<1>2. CASE Inactive(e)
  <2>1. legionJob' \in [Executions -> [at : Places, kill : BOOLEAN]]
    BY <1>t, <1>2, JobMoves DEF Inactive
  <2> QED BY <1>t, <1>2, <2>1, OthersKeep DEF Inactive
<1>3. CASE WorkerAnswers(e)
  <2>1. PICK p \in {"reply", "end", "fail"} : Goes(e, p)
    BY <1>3 DEF WorkerAnswers
  <2>2. legionJob' \in [Executions -> [at : Places, kill : BOOLEAN]]
    <3>1. p \in Places
      BY <1>t
    <3> QED BY <1>t, <2>1, <3>1, JobMoves
  <2> QED BY <1>t, <1>3, <2>2, OthersKeep DEF WorkerAnswers
<1>4. CASE NextTurn(e)
  <2>1. legionJob' \in [Executions -> [at : Places, kill : BOOLEAN]]
    BY <1>t, <1>4, JobMoves DEF NextTurn
  <2> QED BY <1>t, <1>4, <2>1, OthersKeep DEF NextTurn
<1>5. CASE EndTurn(e)
  <2>1. CASE e = Lead /\ WaitingFor(e) # {}
    <3>1. legionJob' \in [Executions -> [at : Places, kill : BOOLEAN]]
      BY <1>t, <1>5, <2>1, JobMoves DEF EndTurn
    <3> QED BY <1>5, <2>1, <3>1, ClaimedKeeps DEF EndTurn
  <2>2. CASE ~(e = Lead /\ WaitingFor(e) # {})
    <3>1. Goes(e, "settle") /\ UNCHANGED <<steering, packet>>
      BY <1>5, <2>2 DEF EndTurn
    <3>2. legionJob' \in [Executions -> [at : Places, kill : BOOLEAN]]
      BY <1>t, <3>1, JobMoves
    <3> QED BY <1>t, <1>5, <3>1, <3>2, OthersKeep DEF EndTurn
  <2> QED BY <2>1, <2>2
<1> QED BY <1>1, <1>2, <1>3, <1>4, <1>5

LEMMA OutputKeeps ==
  ASSUME LegionInv, NEW w \in Workers, PublishOutput(w) PROVE LegionInv'
<1>t. /\ legionRow \in [Executions -> [status : RowStatus, cancelled : BOOLEAN]]
      /\ legionJob \in [Executions -> [at : Places, kill : BOOLEAN]]
      /\ packet \in [Executions -> SUBSET Messages]
      /\ w \in Executions /\ "fail" \in Places
      /\ UNCHANGED <<legionRow, steering, packet, window>>
  BY ExecutionsAre DEF LegionInv, LegionTyped, Places, PublishOutput
<1>1. CASE legionRow[w].status \in TerminalStates \/ legionRow[w].cancelled
  <2>1. legionJob' \in [Executions -> [at : Places, kill : BOOLEAN]]
    BY <1>t, <1>1, JobMoves DEF PublishOutput
  <2> QED BY <1>t, <1>1, <2>1, OthersKeep DEF PublishOutput
<1>2. CASE ~(legionRow[w].status \in TerminalStates \/ legionRow[w].cancelled)
  <2>1. Emit(w, "text") /\ UNCHANGED legionJob
    BY <1>2 DEF PublishOutput
  <2>2. CardsTrue' /\ roomLog' \in Seq(LogEvent)
    BY <1>t, <2>1, EmitKeeps
  <2> QED BY <1>t, <2>1, <2>2, EmittersKeep
<1> QED BY <1>1, <1>2

LEMMA EndsKeep ==
  ASSUME LegionInv, NEW w \in Workers, RunEnds(w) \/ Aborted(w) PROVE LegionInv'
<1>t. /\ legionRow \in [Executions -> [status : RowStatus, cancelled : BOOLEAN]]
      /\ legionJob \in [Executions -> [at : Places, kill : BOOLEAN]]
      /\ packet \in [Executions -> SUBSET Messages]
      /\ NoJob \in [at : Places, kill : BOOLEAN]
      /\ {"succeeded", "failed", "reconciling", "interrupted"} \subseteq TerminalStates
  BY DEF LegionInv, LegionTyped, Places, TerminalStates, NoJob
<1>1. CASE \E s \in TerminalStates : FinishWorker(w, s)
  BY <1>1, FinishKeeps
<1>2. CASE legionJob' = [legionJob EXCEPT ![w] = NoJob] /\ UNCHANGED <<legionRow, rootRun, rootLease, steering, packet, roomLog, window>>
  <2>1. legionJob' \in [Executions -> [at : Places, kill : BOOLEAN]]
    BY <1>t, <1>2
  <2> QED BY <1>t, <1>2, <2>1, OthersKeep
<1> QED BY <1>t, <1>1, <1>2 DEF RunEnds, Aborted

\* The elements of a finite set of events, in some order, are a sequence of events.
LEMMA EventsInOrder ==
  ASSUME NEW S, IsFiniteSet(S), S \subseteq LogEvent
  PROVE  SetToSeq(S) \in Seq(LogEvent) /\ \A n \in DOMAIN SetToSeq(S) : SetToSeq(S)[n] \in S
<1>1. Cardinality(S) \in Nat /\ ExistsBijection(1 .. Cardinality(S), S)
  BY FS_CardinalityType
<1>2. PICK f \in [1 .. Cardinality(S) -> S] : IsInjective(f)
  BY <1>1 DEF ExistsBijection, Bijection, Injection, IsInjective
<1>3. SetToSeq(S) \in [1 .. Cardinality(S) -> S]
  BY <1>2 DEF SetToSeq
<1> QED BY <1>1, <1>3

LEMMA LeadKeeps ==
  ASSUME LegionInv, LeadEnds \/ CancelRoot \/ SettleRoot \/ LoseLease \/ RecoverWorkers
  PROVE  LegionInv'
<1>t. /\ legionRow \in [Executions -> [status : RowStatus, cancelled : BOOLEAN]]
      /\ legionJob \in [Executions -> [at : Places, kill : BOOLEAN]]
      /\ packet \in [Executions -> SUBSET Messages]
      /\ NoJob \in [at : Places, kill : BOOLEAN]
      /\ Lead \in Executions /\ {"succeeded", "failed", "reconciling"} \subseteq RowStatus
  BY ExecutionsAre DEF LegionInv, LegionTyped, Places, RowStatus, TerminalStates, NoJob
<1>1. CASE LeadEnds
  <2> DEFINE s == IF legionJob[Lead].at = "settle" THEN "succeeded" ELSE "failed"
  <2>1. s \in RowStatus
    BY <1>t
  <2>2. /\ legionRow' = [legionRow EXCEPT ![Lead].status = s]
        /\ legionJob' = [legionJob EXCEPT ![Lead] = NoJob] /\ packet' = [packet EXCEPT ![Lead] = {}]
        /\ UNCHANGED <<steering, roomLog, window>>
    BY <1>1 DEF LeadEnds
  <2> HIDE DEF s
  <2>3. legionRow' \in [Executions -> [status : RowStatus, cancelled : BOOLEAN]]
    BY <1>t, <2>1, <2>2, RowMoves
  <2>4. packet' \in [Executions -> SUBSET Messages] /\ \A e \in Executions : packet'[e] \subseteq packet[e]
    BY <1>t, <2>2, PacketDropped
  <2>5. legionJob' \in [Executions -> [at : Places, kill : BOOLEAN]]
    BY <1>t, <2>2
  <2> QED BY <2>2, <2>3, <2>4, <2>5, OthersKeep
<1>2. CASE CancelRoot
  <2>1. legionJob' \in [Executions -> [at : Places, kill : BOOLEAN]]
    BY <1>t, <1>2, JobsKilled DEF CancelRoot
  <2> QED BY <1>t, <1>2, <2>1, OthersKeep DEF CancelRoot
<1>3. CASE SettleRoot
  BY <1>t, <1>3, OthersKeep DEF SettleRoot
<1>4. CASE LoseLease
  <2>1. UNCHANGED <<legionRow, steering, roomLog, window>>
    BY <1>4 DEF LoseLease
  <2>2. legionJob' \in [Executions -> [at : Places, kill : BOOLEAN]]
    BY <1>t, <1>4 DEF LoseLease
  <2>3. packet' = packet \/ packet' = [e \in Executions |-> {}]
    BY <1>4 DEF LoseLease
  <2>4. packet' \in [Executions -> SUBSET Messages] /\ \A e \in Executions : packet'[e] \subseteq packet[e]
    BY <1>t, <2>3
  <2> QED BY <1>t, <2>1, <2>2, <2>4, OthersKeep
<1>5. CASE RecoverWorkers
  <2>1. \A e \in Executions : [legionRow[e] EXCEPT !.status = "reconciling"] \in [status : RowStatus, cancelled : BOOLEAN]
    <3> TAKE e \in Executions
    <3>1. legionRow[e] \in [status : RowStatus, cancelled : BOOLEAN] /\ "reconciling" \in RowStatus
      BY <1>t
    <3> QED BY <3>1, Zenon
  <2>2. legionRow' \in [Executions -> [status : RowStatus, cancelled : BOOLEAN]]
    BY <1>t, <1>5, <2>1 DEF RecoverWorkers
  <2> QED BY <1>t, <1>5, <2>2, OthersKeep DEF RecoverWorkers
<1> QED BY <1>1, <1>2, <1>3, <1>4, <1>5

LEMMA InterruptKeeps ==
  ASSUME LegionInv, NEW w \in Workers, Interrupt(w) PROVE LegionInv'
<1>t. /\ legionRow \in [Executions -> [status : RowStatus, cancelled : BOOLEAN]]
      /\ legionJob \in [Executions -> [at : Places, kill : BOOLEAN]]
      /\ packet \in [Executions -> SUBSET Messages] /\ roomLog \in Seq(LogEvent)
      /\ w \in Executions /\ "interrupted" \in RowStatus
      /\ UNCHANGED <<steering, packet, window>>
  BY ExecutionsAre DEF LegionInv, LegionTyped, RowStatus, TerminalStates, Interrupt
<1> DEFINE told == IF legionRow[w].cancelled THEN <<>> ELSE <<[w |-> w, phase |-> "interrupt"]>>
           over == IF legionRow[w].status = "admitted" THEN <<[w |-> w, phase |-> "finished"]>> ELSE <<>>
           row == [legionRow[w] EXCEPT !.cancelled = TRUE,
                     !.status = IF @ = "admitted" THEN "interrupted" ELSE @]
<1>1. legionRow' = [legionRow EXCEPT ![w] = row] /\ roomLog' = roomLog \o told \o over
      /\ KillTasks({w} \ {v \in Workers : legionJob[v].at = "begun"})
  BY Zenon DEF Interrupt
<1>2. row \in [status : RowStatus, cancelled : BOOLEAN]
  <2>1. legionRow[w] \in [status : RowStatus, cancelled : BOOLEAN]
    BY <1>t
  <2> QED BY <1>t, <2>1, Zenon
<1>3. told \in Seq(LogEvent) /\ over \in Seq(LogEvent)
  <2>1. [w |-> w, phase |-> "interrupt"] \in LogEvent /\ [w |-> w, phase |-> "finished"] \in LogEvent
    BY DEF LogEvent
  <2> QED BY <2>1
<1> HIDE DEF told, over, row
<1>4. legionRow' \in [Executions -> [status : RowStatus, cancelled : BOOLEAN]]
  BY <1>t, <1>1, <1>2
<1>5. legionJob' \in [Executions -> [at : Places, kill : BOOLEAN]]
  BY <1>t, <1>1, JobsKilled
<1>6. roomLog' = roomLog \o (told \o over) /\ told \o over \in Seq(LogEvent)
  BY SMTT(60), <1>t, <1>1, <1>3
<1>7. CardsTrue' /\ roomLog' \in Seq(LogEvent)
  BY <1>t, <1>6, EmitAdds
<1> QED BY <1>t, <1>4, <1>5, <1>7, EmittersKeep

LEMMA StopKeeps ==
  ASSUME LegionInv, StopRun PROVE LegionInv'
<1> DEFINE ended == {[w |-> w, phase |-> "finished"] : w \in {v \in Workers : legionRow[v].status = "admitted"}}
           Row(e) == IF e = Lead THEN [legionRow[e] EXCEPT !.status = "interrupted"]
                     ELSE IF e \in LiveWorkers
                     THEN [status |-> IF legionRow[e].status = "admitted" THEN "interrupted" ELSE legionRow[e].status,
                           cancelled |-> TRUE]
                     ELSE legionRow[e]
<1>t. /\ legionRow \in [Executions -> [status : RowStatus, cancelled : BOOLEAN]]
      /\ legionJob \in [Executions -> [at : Places, kill : BOOLEAN]]
      /\ packet \in [Executions -> SUBSET Messages] /\ roomLog \in Seq(LogEvent)
      /\ Lead \in Executions /\ "interrupted" \in RowStatus /\ IsFiniteSet(Workers)
  BY ExecutionsAre DEF LegionInv, LegionTyped, RowStatus, TerminalStates
<1>u. /\ UNCHANGED <<steering, window>> /\ packet' = [packet EXCEPT ![Lead] = {}]
      /\ legionJob' = [e \in Executions |->
           IF e = Lead THEN NoJob
           ELSE IF e \in LiveWorkers /\ legionJob[e].at # "none" THEN [legionJob[e] EXCEPT !.kill = TRUE] ELSE legionJob[e]]
      /\ legionRow' = [e \in Executions |-> Row(e)]
      /\ roomLog' = roomLog \o SetToSeq(ended)
  BY Zenon DEF StopRun
<1>1. \A e \in Executions : Row(e) \in [status : RowStatus, cancelled : BOOLEAN]
  <2> TAKE e \in Executions
  <2>1. legionRow[e] \in [status : RowStatus, cancelled : BOOLEAN]
    BY <1>t
  <2>2. [legionRow[e] EXCEPT !.status = "interrupted"] \in [status : RowStatus, cancelled : BOOLEAN]
    BY <1>t, <2>1, Zenon
  <2>3. [status |-> IF legionRow[e].status = "admitted" THEN "interrupted" ELSE legionRow[e].status,
         cancelled |-> TRUE] \in [status : RowStatus, cancelled : BOOLEAN]
    BY <1>t, <2>1
  <2> QED BY <2>1, <2>2, <2>3
<1>2. IsFiniteSet(ended) /\ ended \subseteq LogEvent
  <2>1. IsFiniteSet({v \in Workers : legionRow[v].status = "admitted"})
    BY <1>t, FS_Subset
  <2> DEFINE S == {v \in Workers : legionRow[v].status = "admitted"}
             f == [v \in S |-> [w |-> v, phase |-> "finished"]]
  <2>2. f \in Surjection(S, ended)
    BY DEF Surjection
  <2> HIDE DEF f
  <2>3. IsFiniteSet(ended)
    BY <2>1, <2>2, FS_Surjection
  <2> QED BY <2>3 DEF LogEvent
<1> HIDE DEF ended, Row
<1>3. legionRow' \in [Executions -> [status : RowStatus, cancelled : BOOLEAN]]
  BY <1>u, <1>1
<1>4. legionJob' \in [Executions -> [at : Places, kill : BOOLEAN]]
  BY <1>t, <1>u, JobsKilled
<1>5. packet' \in [Executions -> SUBSET Messages] /\ \A e \in Executions : packet'[e] \subseteq packet[e]
  BY <1>t, <1>u, PacketDropped
<1>6. SetToSeq(ended) \in Seq(LogEvent)
  BY <1>2, EventsInOrder
<1>7. CardsTrue' /\ roomLog' \in Seq(LogEvent)
  BY <1>u, <1>6, EmitAdds
<1> QED BY <1>u, <1>3, <1>4, <1>5, <1>7, EmittersKeep

-----------------------------------------------------------------------------
(* The window.                                                             *)

\* The last of a worker's events.
LEMMA LastEvent ==
  ASSUME NEW n \in Nat, NEW S, S \subseteq 1 .. n
  PROVE  /\ LastOf(S) \in 0 .. n /\ \A k \in S : k <= LastOf(S)
<1>1. CASE S = {}
  BY <1>1 DEF LastOf
<1>2. CASE S # {}
  <2>0. S \subseteq 0 .. n
    OBVIOUS
  <2>1. PICK x \in S : \A y \in S : y <= x
    BY <1>2, <2>0, GreatestNumber
  <2>2. LastOf(S) \in S /\ \A k \in S : k <= LastOf(S)
    BY <1>2, <2>1 DEF LastOf
  <2>3. LastOf(S) \in 0 .. n
    BY <2>0, <2>2
  <2> QED BY <2>2, <2>3
<1> QED BY <1>1, <1>2

\* A step of the window alone.
LEMMA WindowKeeps ==
  ASSUME LegionInv, UNCHANGED <<legionRow, legionJob, steering, packet, roomLog>>, CardsTrue',
         window' \in [at : {"closed", "rows", "pages", "follow"}, floor : Nat, cursor : Nat, opened : Nat,
                     card : [Workers -> Card]]
  PROVE  LegionInv'
<1>1. LegionTyped'
  BY DEF LegionInv, LegionTyped
<1>2. SteeringTrue'
  BY DEF LegionInv, SteeringTrue, DeliveredMeansSeen
<1> QED BY <1>1, <1>2 DEF LegionInv

\* The events of a worker are finitely many.
LEMMA CountsAreNumbers ==
  ASSUME roomLog \in Seq(LogEvent), NEW S, S \subseteq 1 .. Len(roomLog)
  PROVE  IsFiniteSet(S) /\ Cardinality(S) \in Nat
<1>1. Len(roomLog) \in Nat
  OBVIOUS
<1>2. IsFiniteSet(1 .. Len(roomLog))
  BY <1>1, FS_Interval
<1>3. IsFiniteSet(S)
  BY <1>2, FS_Subset
<1> QED BY <1>3, FS_CardinalityType

\* session_snapshot() opens the window, list() reads the rows.
LEMMA OpeningKeeps ==
  ASSUME LegionInv, OpenWindow \/ ReadRows PROVE LegionInv'
<1>t. /\ roomLog \in Seq(LogEvent) /\ Len(roomLog) \in Nat
      /\ window \in [at : {"closed", "rows", "pages", "follow"}, floor : Nat, cursor : Nat, opened : Nat,
                     card : [Workers -> Card]]
      /\ legionRow \in [Executions -> [status : RowStatus, cancelled : BOOLEAN]]
      /\ CardsTrue /\ UNCHANGED <<legionRow, legionJob, steering, packet, roomLog>>
  BY DEF LegionInv, LegionTyped, OpenWindow, ReadRows
<1>c. NoCard \in Card
  BY DEF NoCard, Card, RowStatus
<1>1. CASE OpenWindow
  <2>1. window' = [at |-> "rows", floor |-> Len(roomLog), cursor |-> 0, opened |-> window.opened + 1,
                   card |-> [w \in Workers |-> NoCard]]
    BY <1>1 DEF OpenWindow, NoView
  <2>2. window' \in [at : {"closed", "rows", "pages", "follow"}, floor : Nat, cursor : Nat, opened : Nat,
                     card : [Workers -> Card]]
    BY <1>t, <1>c, <2>1
  <2>3. CardsTrue'
    BY <1>t, <2>1 DEF CardsTrue
  <2> QED BY <1>t, <2>2, <2>3, WindowKeeps
<1>2. CASE ReadRows
  <2> DEFINE rows == [w \in Workers |-> [NoCard EXCEPT !.status = legionRow[w].status]]
  <2>1. window' = [window EXCEPT !.at = "pages", !.card = rows] /\ window.at = "rows"
    BY <1>2 DEF ReadRows
  <2>2. rows \in [Workers -> Card]
    <3> SUFFICES ASSUME NEW w \in Workers PROVE [NoCard EXCEPT !.status = legionRow[w].status] \in Card
      OBVIOUS
    <3>1. legionRow[w].status \in RowStatus
      BY <1>t, ExecutionsAre
    <3> QED BY <1>c, <3>1, Zenon DEF Card
  <2> HIDE DEF rows
  <2>3. window' \in [at : {"closed", "rows", "pages", "follow"}, floor : Nat, cursor : Nat, opened : Nat,
                     card : [Workers -> Card]]
    BY <1>t, <2>1, <2>2
  <2>4. CardsTrue'
    BY <1>t, <2>1 DEF CardsTrue
  <2> QED BY <1>t, <2>3, <2>4, WindowKeeps
<1> QED BY <1>1, <1>2

\* history_cards(): a card that is not partial has counted all the output there is.
LEMMA PagesKeep ==
  ASSUME LegionInv, ReadPages PROVE LegionInv'
<1>t. /\ roomLog \in Seq(LogEvent) /\ Len(roomLog) \in Nat /\ DOMAIN roomLog = 1 .. Len(roomLog)
      /\ window \in [at : {"closed", "rows", "pages", "follow"}, floor : Nat, cursor : Nat, opened : Nat,
                     card : [Workers -> Card]]
      /\ CardsTrue /\ window.at = "pages" /\ UNCHANGED <<legionRow, legionJob, steering, packet, roomLog>>
  BY DEF LegionInv, LegionTyped, ReadPages
<1> DEFINE Read(w) == [window.card[w] EXCEPT
              !.last = LastOf(EventsOf(w)),
              !.shown = Cardinality(TextsOf(w) \intersect FirstPage(w)),
              !.partial = FirstPage(w) # EventsOf(w)]
<1>1. window' = [window EXCEPT !.at = "follow", !.cursor = window.floor, !.card = [w \in Workers |-> Read(w)]]
  BY Zenon DEF ReadPages
<1>2. \A w \in Workers :
        /\ Read(w).last = LastOf(EventsOf(w))
        /\ Read(w).shown = Cardinality(TextsOf(w) \intersect FirstPage(w))
        /\ Read(w).partial = (FirstPage(w) # EventsOf(w))
  <2> SUFFICES ASSUME NEW w \in Workers
               PROVE  /\ Read(w).last = LastOf(EventsOf(w))
                      /\ Read(w).shown = Cardinality(TextsOf(w) \intersect FirstPage(w))
                      /\ Read(w).partial = (FirstPage(w) # EventsOf(w))
    OBVIOUS
  <2>1. window.card[w] \in Card
    BY <1>t
  <2> QED BY <2>1, Zenon DEF Card
<1> HIDE DEF Read
<1>3. /\ window'.at = "follow" /\ window'.cursor = window.floor /\ window'.floor = window.floor
      /\ \A w \in Workers : window'.card[w] = Read(w)
  BY <1>t, <1>1
<1>4. window.floor <= Len(roomLog)
  BY <1>t DEF CardsTrue
<1>5. ASSUME NEW w \in Workers PROVE CardCounts(w)'
  <2>1. EventsOf(w) \subseteq 1 .. Len(roomLog)
    BY <1>t DEF EventsOf
  <2>2. LastOf(EventsOf(w)) \in 0 .. Len(roomLog) /\ \A n \in EventsOf(w) : n <= LastOf(EventsOf(w))
    BY <1>t, <2>1, LastEvent
  <2>3. TextsOf(w)' = TextsOf(w) /\ EventsOf(w)' = EventsOf(w)
    BY <1>t DEF TextsOf, EventsOf
  <2>4. FirstPage(w) = EventsOf(w) => TextsOf(w) \intersect FirstPage(w) = {n \in TextsOf(w) : n <= LastOf(EventsOf(w))}
    BY <2>2 DEF TextsOf
  <2>5. window'.card[w].last = LastOf(EventsOf(w))
    BY <1>2, <1>3
  <2>6. ~window'.card[w].partial =>
          window'.card[w].shown = Cardinality({n \in TextsOf(w) : n <= window'.card[w].last})
    BY <1>2, <1>3, <2>4, <2>5
  <2> QED BY <1>t, <2>2, <2>3, <2>5, <2>6 DEF CardCounts
<1>6. CardsTrue'
  BY <1>t, <1>3, <1>4, <1>5 DEF CardsTrue
<1>7. [w \in Workers |-> Read(w)] \in [Workers -> Card]
  <2> SUFFICES ASSUME NEW w \in Workers PROVE Read(w) \in Card
    OBVIOUS
  <2>1. EventsOf(w) \subseteq 1 .. Len(roomLog) /\ TextsOf(w) \intersect FirstPage(w) \subseteq 1 .. Len(roomLog)
    BY <1>t DEF EventsOf, TextsOf
  <2>2. LastOf(EventsOf(w)) \in Nat
    BY <1>t, <2>1, LastEvent
  <2>3. Cardinality(TextsOf(w) \intersect FirstPage(w)) \in Nat
    BY <1>t, <2>1, CountsAreNumbers
  <2>4. (FirstPage(w) # EventsOf(w)) \in BOOLEAN
    OBVIOUS
  <2>5. window.card[w] \in Card
    BY <1>t
  <2> QED BY <2>2, <2>3, <2>4, <2>5, Zenon DEF Read, Card
<1>8. window' \in [at : {"closed", "rows", "pages", "follow"}, floor : Nat, cursor : Nat, opened : Nat,
                     card : [Workers -> Card]]
  <2> DEFINE cards == [w \in Workers |-> Read(w)]
  <2>1. cards \in [Workers -> Card] /\ window' = [window EXCEPT !.at = "follow", !.cursor = window.floor, !.card = cards]
    BY <1>1, <1>7
  <2> HIDE DEF cards
  <2> QED BY <1>t, <2>1
<1> QED BY <1>t, <1>6, <1>8, WindowKeeps

\* subscribe_session(): the event is counted by its worker's card, or was before.
LEMMA FollowKeeps ==
  ASSUME LegionInv, FollowEvents PROVE LegionInv'
<1>t. /\ roomLog \in Seq(LogEvent) /\ Len(roomLog) \in Nat /\ DOMAIN roomLog = 1 .. Len(roomLog)
      /\ window \in [at : {"closed", "rows", "pages", "follow"}, floor : Nat, cursor : Nat, opened : Nat,
                     card : [Workers -> Card]]
      /\ CardsTrue /\ window.at = "follow" /\ window.cursor < Len(roomLog)
      /\ UNCHANGED <<legionRow, legionJob, steering, packet, roomLog>>
      /\ legionRow \in [Executions -> [status : RowStatus, cancelled : BOOLEAN]]
  BY DEF LegionInv, LegionTyped, FollowEvents
<1>0. window' = [window EXCEPT !.cursor = window.cursor + 1,
                   !.card[roomLog[window.cursor + 1].w] = Folded(@, window.cursor + 1)]
  BY Zenon DEF FollowEvents
<1>p. PICK n \in Nat : n = window.cursor + 1
  BY <1>t
<1>q. n \in 1 .. Len(roomLog) /\ roomLog[n] \in LogEvent
  BY <1>t, <1>p
<1>r. PICK w \in Workers : w = roomLog[n].w
  BY <1>q DEF LogEvent
<1>s. PICK card \in Card : card = window.card[w]
  BY <1>t
<1>n. PICK next : next = Folded(card, n)
  OBVIOUS
<1>1. window' = [window EXCEPT !.cursor = n, !.card = [window.card EXCEPT ![w] = next]]
  BY <1>0, <1>p, <1>r, <1>s, <1>n
<1>2. CardCounts(w) /\ card.last \in Nat /\ card.shown \in Nat /\ card.last <= Len(roomLog)
  BY <1>t, <1>s DEF CardsTrue, CardCounts, Card
<1>3. /\ next \in Card /\ next.last \in Nat /\ next.partial = card.partial
      /\ next.last = IF n <= card.last THEN card.last ELSE n
      /\ next.shown = IF n > card.last /\ roomLog[n].phase = "text" THEN card.shown + 1 ELSE card.shown
  <2>1. CASE n <= card.last
    BY <1>n, <1>2, <2>1 DEF Folded
  <2>2. CASE ~(n <= card.last)
    <3> DEFINE shown == IF roomLog[n].phase = "text" THEN card.shown + 1 ELSE card.shown
               status == CASE roomLog[n].phase = "finished" -> legionRow[roomLog[n].w].status
                           [] roomLog[n].phase \in {"started", "running"} -> "running"
                           [] OTHER -> card.status
    <3>1. next = [card EXCEPT !.last = n, !.shown = shown, !.status = status]
      BY <1>n, <2>2 DEF Folded
    <3>2. shown \in Nat
      BY <1>2
    <3>3. status \in RowStatus
      <4>1. legionRow[w].status \in RowStatus /\ card.status \in RowStatus /\ "running" \in RowStatus
        BY <1>t, ExecutionsAre DEF Card, RowStatus, ActiveStates
      <4> QED BY <1>r, <4>1
    <3> HIDE DEF status
    <3>4. next \in Card
      BY <3>1, <3>2, <3>3, <1>q, Zenon DEF Card
    <3>5. next.last = n /\ next.shown = shown /\ next.partial = card.partial
      BY <3>1 DEF Card
    <3> QED BY <1>2, <2>2, <3>2, <3>4, <3>5
  <2> QED BY <2>1, <2>2
<1>4. /\ window'.at = "follow" /\ window'.floor = window.floor /\ window'.cursor = n
      /\ window'.card[w] = next /\ \A x \in Workers \ {w} : window'.card[x] = window.card[x]
  BY <1>t, <1>1
<1>5. window' \in [at : {"closed", "rows", "pages", "follow"}, floor : Nat, cursor : Nat, opened : Nat,
                     card : [Workers -> Card]]
  BY <1>t, <1>1, <1>3
<1>6. \A x \in Workers : EventsOf(x)' = EventsOf(x) /\ TextsOf(x)' = TextsOf(x)
  BY <1>t DEF EventsOf, TextsOf
<1>7. \A x \in Workers : \A k \in EventsOf(x) : k <= n => (k = n /\ x = w) \/ k <= window.cursor
  <2> SUFFICES ASSUME NEW x \in Workers, NEW k \in EventsOf(x), k <= n PROVE (k = n /\ x = w) \/ k <= window.cursor
    OBVIOUS
  <2>1. k \in Nat /\ roomLog[k].w = x
    BY <1>t DEF EventsOf
  <2> QED BY <1>t, <1>p, <1>r, <2>1
<1>8. CardCounts(w)'
  <2>1. next.last <= Len(roomLog) /\ \A k \in EventsOf(w) : k <= n => k <= next.last
    <3> SUFFICES ASSUME NEW k \in EventsOf(w), k <= n PROVE k <= next.last
      BY <1>2, <1>3, <1>q
    <3>1. k \in Nat /\ (k <= window.cursor => k <= card.last)
      BY <1>t, <1>2, <1>s DEF EventsOf, CardCounts
    <3> QED BY <1>2, <1>3, <3>1
  <2>2. ASSUME ~next.partial PROVE next.shown = Cardinality({k \in TextsOf(w) : k <= next.last})
    <3> DEFINE Old == {k \in TextsOf(w) : k <= card.last}
               New == {k \in TextsOf(w) : k <= next.last}
    <3>1. card.shown = Cardinality(Old)
      BY <1>2, <1>3, <1>s, <2>2 DEF CardCounts
    <3>2. CASE n <= card.last
      <4>1. next.last = card.last /\ next.shown = card.shown
        BY <1>2, <1>3, <3>2
      <4> QED BY <3>1, <4>1
    <3>3. CASE ~(n <= card.last)
      <4>1. next.last = n
        BY <1>3, <3>3
      <4>2. n \notin Old
        BY <3>3
      <4>3. \A k \in TextsOf(w) : k <= n <=> k = n \/ k <= card.last
        <5> SUFFICES ASSUME NEW k \in TextsOf(w) PROVE k <= n <=> k = n \/ k <= card.last
          OBVIOUS
        <5>1. k \in EventsOf(w) /\ k \in Nat
          BY <1>t DEF TextsOf, EventsOf
        <5>2. k <= window.cursor => k <= card.last
          BY <1>2, <1>s, <5>1 DEF CardCounts
        <5> QED BY <1>2, <1>7, <3>3, <5>1, <5>2
      <4>4. n \in TextsOf(w) <=> roomLog[n].phase = "text"
        BY <1>t, <1>q, <1>r DEF TextsOf, EventsOf
      <4>5. CASE roomLog[n].phase = "text"
        <5>1. New = Old \cup {n}
          BY <4>1, <4>3, <4>4, <4>5
        <5>2. IsFiniteSet(Old)
          BY <1>t, CountsAreNumbers DEF TextsOf, EventsOf
        <5> HIDE DEF Old, New
        <5>3. Cardinality(New) = Cardinality(Old) + 1
          BY <4>2, <5>1, <5>2, FS_AddElement
        <5>4. next.shown = card.shown + 1
          BY <1>2, <1>3, <3>3, <4>5
        <5>5. next.shown = Cardinality(New)
          BY <3>1, <5>3, <5>4
        <5> QED BY <5>5 DEF New
      <4>6. CASE roomLog[n].phase # "text"
        <5>1. New = Old
          BY <4>1, <4>3, <4>4, <4>6
        <5>2. next.shown = card.shown
          BY <1>3, <4>6
        <5> QED BY <3>1, <5>1, <5>2
      <4> QED BY <4>5, <4>6
    <3> QED BY <3>2, <3>3
  <2> QED BY <1>t, <1>4, <1>6, <2>1, <2>2 DEF CardCounts
<1>9. ASSUME NEW x \in Workers \ {w} PROVE CardCounts(x)'
  <2>1. CardCounts(x)
    BY <1>t DEF CardsTrue
  <2>2. \A k \in EventsOf(x) : k <= n => k <= window.cursor
    BY <1>7
  <2>3. \A k \in EventsOf(x) : k <= n => k <= window.card[x].last
    BY <2>1, <2>2 DEF CardCounts
  <2> QED BY <1>t, <1>4, <1>6, <2>1, <2>3 DEF CardCounts
<1>10. CardsTrue'
  <2>1. window'.floor <= Len(roomLog') /\ window'.cursor <= Len(roomLog')
    BY <1>t, <1>4, <1>q DEF CardsTrue
  <2>2. \A x \in Workers : CardCounts(x)'
    BY <1>8, <1>9
  <2> QED BY <1>4, <2>1, <2>2 DEF CardsTrue
<1> QED BY <1>t, <1>5, <1>10, WindowKeeps

-----------------------------------------------------------------------------
(* Every step keeps the workers' state sound.                              *)

LEMMA LegionStarts ==
  ASSUME LegionInit PROVE LegionInv
<1>1. legionRow \in [Executions -> [status : RowStatus, cancelled : BOOLEAN]]
  BY DEF LegionInit, RowStatus, ActiveStates
<1>2. legionJob \in [Executions -> [at : Places, kill : BOOLEAN]]
  BY DEF LegionInit, NoJob, Places
<1>3. /\ steering = [i \in Messages |-> Unsent] /\ packet = [e \in Executions |-> {}]
      /\ roomLog = <<>> /\ window = NoView
  BY DEF LegionInit
<1>4. Unsent \in [to : Executions, times : Nat, status : {"none", "queued", "delivering", "delivered"}]
      /\ Unsent.status = "none" /\ Unsent.times = 0
  BY ExecutionsAre DEF Unsent
<1>5. NoView \in [at : {"closed", "rows", "pages", "follow"}, floor : Nat, cursor : Nat, opened : Nat,
                  card : [Workers -> Card]] /\ NoView.at = "closed"
  BY DEF NoView, NoCard, Card, RowStatus
<1>6. LegionTyped
  BY <1>1, <1>2, <1>3, <1>4, <1>5 DEF LegionTyped
<1>7. SteeringTrue
  BY <1>3, <1>4 DEF SteeringTrue, DeliveredMeansSeen
<1>8. CardsTrue
  BY <1>3, <1>5 DEF CardsTrue
<1> QED BY <1>6, <1>7, <1>8 DEF LegionInv

LEMMA LegionGoesOn ==
  ASSUME LegionInv, [LegionNext]_legionVars PROVE LegionInv'
<1>0. CASE UNCHANGED legionVars
  <2>1. UNCHANGED <<legionRow, legionJob, steering, packet, roomLog, window>>
    BY <1>0 DEF legionVars
  <2>2. /\ legionRow' \in [Executions -> [status : RowStatus, cancelled : BOOLEAN]]
        /\ legionJob' \in [Executions -> [at : Places, kill : BOOLEAN]]
        /\ packet' \in [Executions -> SUBSET Messages] /\ \A e \in Executions : packet'[e] \subseteq packet[e]
    BY <2>1 DEF LegionInv, LegionTyped
  <2> QED BY <2>1, <2>2, OthersKeep
<1>1. CASE LeadEnds \/ CancelRoot \/ SettleRoot \/ LoseLease \/ RecoverWorkers
  BY <1>1, LeadKeeps
<1>2. CASE StopRun
  BY <1>2, StopKeeps
<1>3. CASE OpenWindow \/ ReadRows
  BY <1>3, OpeningKeeps
<1>4. CASE ReadPages
  BY <1>4, PagesKeep
<1>5. CASE FollowEvents
  BY <1>5, FollowKeeps
<1>6. ASSUME NEW w \in Workers, BeginWorker(w) \/ SpawnWorker(w) \/ DispatchWorker(w) PROVE LegionInv'
  BY <1>6, AdmissionKeeps
<1>7. ASSUME NEW w \in Workers, PublishOutput(w) PROVE LegionInv'
  BY <1>7, OutputKeeps
<1>8. ASSUME NEW w \in Workers, RunEnds(w) \/ Aborted(w) PROVE LegionInv'
  BY <1>8, EndsKeep
<1>9. ASSUME NEW w \in Workers, Interrupt(w) PROVE LegionInv'
  BY <1>9, InterruptKeeps
<1>10. ASSUME NEW e \in Executions,
              ClaimInputs(e) \/ Inactive(e) \/ WorkerAnswers(e) \/ NextTurn(e) \/ EndTurn(e)
       PROVE LegionInv'
  BY <1>10, LoopKeeps
<1>11. ASSUME NEW e \in Executions, RecordBoundary(e) PROVE LegionInv'
  BY <1>11, BoundaryKeeps
<1>12. ASSUME NEW e \in Executions, NEW i \in Messages, Steer(e, i) PROVE LegionInv'
  BY <1>12, SteerKeeps
<1>13. CASE LegionIdle
  BY <1>0, <1>13 DEF LegionIdle
<1> QED BY <1>0, <1>1, <1>2, <1>3, <1>4, <1>5, <1>6, <1>7, <1>8, <1>9, <1>10, <1>11, <1>12, <1>13 DEF LegionNext

\* The workers' rows, tasks, instructions and events stay well formed, what is
\* delivered was recorded once, and every card has counted what it has read.
THEOREM LegionShape == LegionSpec => []LegionInv
<1>1. LegionInit => LegionInv
  BY LegionStarts
<1>2. LegionInv /\ [LegionNext]_legionVars => LegionInv'
  BY LegionGoesOn
<1> QED BY <1>1, <1>2, PTL DEF LegionSpec

\* An instruction is delivered exactly when it is in a model call, once, and a
\* window that has caught up with the room shows every output of a worker once
\* or says that it is partial, whatever runs, stops or is lost meanwhile.
THEOREM NothingEverMissed == LegionSpec => []NothingMissed
<1>1. ASSUME LegionInv PROVE NothingMissed
  <2>1. DeliveredMeansSeen
    BY <1>1 DEF LegionInv, SteeringTrue
  <2>2. CardsComplete
    <3> SUFFICES ASSUME window.at = "follow", window.cursor = Len(roomLog), NEW w \in Workers, ~window.card[w].partial
                 PROVE  window.card[w].shown = Cardinality(TextsOf(w))
      BY DEF CardsComplete
    <3>1. roomLog \in Seq(LogEvent) /\ CardCounts(w)
      BY <1>1 DEF LegionInv, LegionTyped, CardsTrue
    <3>2. \A n \in TextsOf(w) : n \in EventsOf(w) /\ n <= Len(roomLog)
      BY <3>1 DEF TextsOf, EventsOf
    <3>3. {n \in TextsOf(w) : n <= window.card[w].last} = TextsOf(w)
      BY <3>1, <3>2 DEF CardCounts
    <3> QED BY <3>1, <3>3 DEF CardCounts
  <2> QED BY <2>1, <2>2 DEF NothingMissed
<1> QED BY <1>1, LegionShape, PTL

-----------------------------------------------------------------------------
(* A terminal result stays.                                                *)

FinalOf(w) ==
  legionRow[w].status \in TerminalStates =>
    /\ legionRow'[w].status = legionRow[w].status
    /\ {n \in DOMAIN roomLog' : roomLog'[n].w = w} = EventsOf(w)

LEMMA JoinsAssociate ==
  ASSUME NEW E, NEW a \in Seq(E), NEW b \in Seq(E), NEW c \in Seq(E)
  PROVE  b \o c \in Seq(E) /\ a \o b \o c = a \o (b \o c)
<1> DEFINE l == a \o b \o c
           r == a \o (b \o c)
<1>1. /\ a \o b \in Seq(E) /\ b \o c \in Seq(E) /\ l \in Seq(E) /\ r \in Seq(E)
      /\ Len(a) \in Nat /\ Len(b) \in Nat /\ Len(c) \in Nat
  OBVIOUS
<1>2. Len(l) = Len(a) + Len(b) + Len(c) /\ Len(r) = Len(a) + (Len(b) + Len(c))
  BY <1>1
<1>3. ASSUME NEW n \in 1 .. Len(l) PROVE l[n] = r[n]
  <2>1. CASE n <= Len(a)
    BY <1>1, <1>2, <2>1
  <2>2. CASE n > Len(a) /\ n <= Len(a) + Len(b)
    BY <1>1, <1>2, <2>2
  <2>3. CASE n > Len(a) + Len(b)
    BY <1>1, <1>2, <2>3
  <2> QED BY SMTT(60), <1>1, <1>2, <2>1, <2>2, <2>3
<1>4. Len(l) = Len(r)
  BY <1>1, <1>2
<1> HIDE DEF l, r
<1>5. l = r
  BY <1>1, <1>3, <1>4
<1> QED BY <1>1, <1>5 DEF l, r

\* Events of others are no events of this worker.
LEMMA EventsKept ==
  ASSUME roomLog \in Seq(LogEvent), NEW s \in Seq(LogEvent), roomLog' = roomLog \o s, NEW w,
         \A n \in DOMAIN s : s[n].w # w
  PROVE  {n \in DOMAIN roomLog' : roomLog'[n].w = w} = EventsOf(w)
<1>1. /\ DOMAIN roomLog = 1 .. Len(roomLog) /\ Len(roomLog) \in Nat /\ Len(s) \in Nat /\ DOMAIN s = 1 .. Len(s)
      /\ DOMAIN roomLog' = 1 .. (Len(roomLog) + Len(s))
      /\ \A n \in 1 .. Len(roomLog) : roomLog'[n] = roomLog[n]
      /\ \A n \in 1 .. (Len(roomLog) + Len(s)) : n > Len(roomLog) => roomLog'[n] = s[n - Len(roomLog)]
  OBVIOUS
<1>2. ASSUME NEW n \in DOMAIN roomLog', roomLog'[n].w = w PROVE n \in EventsOf(w)
  <2>1. CASE n > Len(roomLog)
    <3>1. n - Len(roomLog) \in DOMAIN s
      BY <1>1, <2>1
    <3> QED BY <1>1, <1>2, <2>1, <3>1
  <2>2. CASE ~(n > Len(roomLog))
    BY <1>1, <1>2, <2>2 DEF EventsOf
  <2> QED BY <2>1, <2>2
<1>3. ASSUME NEW n \in EventsOf(w) PROVE n \in DOMAIN roomLog' /\ roomLog'[n].w = w
  BY <1>1, <1>3 DEF EventsOf
<1> QED BY <1>2, <1>3

LEMMA EventOfAnother ==
  ASSUME roomLog \in Seq(LogEvent), NEW x \in Workers, NEW w, x # w,
         NEW p \in {"started", "running", "text", "interrupt", "finished"}, Emit(x, p)
  PROVE  {n \in DOMAIN roomLog' : roomLog'[n].w = w} = EventsOf(w)
<1> DEFINE e == [w |-> x, phase |-> p]
<1>1. e \in LogEvent /\ e.w = x
  BY DEF LogEvent
<1>2. roomLog' = Append(roomLog, e)
  BY DEF Emit
<1> HIDE DEF e
<1>3. <<e>> \in Seq(LogEvent) /\ roomLog' = roomLog \o <<e>> /\ \A n \in DOMAIN <<e>> : <<e>>[n].w # w
  BY <1>1, <1>2
<1> QED BY <1>3, EventsKept

\* A step that changes no row and adds no event.
LEMMA QuietIsFinal ==
  ASSUME UNCHANGED <<legionRow, roomLog>>, NEW w \in Workers PROVE FinalOf(w)
BY DEF FinalOf, EventsOf

\* A step that changes the row of x, which had not ended, and reports it.
LEMMA ReportIsFinal ==
  ASSUME LegionInv, NEW x \in Workers, NEW w \in Workers, legionRow[x].status \notin TerminalStates,
         legionRow' = legionRow \/ \E s \in RowStatus : legionRow' = [legionRow EXCEPT ![x].status = s],
         UNCHANGED roomLog \/ \E p \in {"started", "running", "text", "interrupt", "finished"} : Emit(x, p)
  PROVE  FinalOf(w)
<1>t. /\ legionRow \in [Executions -> [status : RowStatus, cancelled : BOOLEAN]]
      /\ roomLog \in Seq(LogEvent) /\ x \in Executions /\ w \in Executions
  BY ExecutionsAre DEF LegionInv, LegionTyped
<1> SUFFICES ASSUME legionRow[w].status \in TerminalStates
             PROVE  /\ legionRow'[w].status = legionRow[w].status
                    /\ {n \in DOMAIN roomLog' : roomLog'[n].w = w} = EventsOf(w)
  BY DEF FinalOf
<1>1. x # w
  OBVIOUS
<1>2. legionRow'[w] = legionRow[w]
  BY <1>t, <1>1, RowMoves
<1>3. {n \in DOMAIN roomLog' : roomLog'[n].w = w} = EventsOf(w)
  <2>1. CASE UNCHANGED roomLog
    BY <2>1 DEF EventsOf
  <2>2. CASE \E p \in {"started", "running", "text", "interrupt", "finished"} : Emit(x, p)
    BY <1>t, <1>1, <2>2, EventOfAnother
  <2> QED BY <2>1, <2>2
<1> QED BY <1>2, <1>3

\* finish(): a second result changes nothing.
LEMMA FinishIsFinal ==
  ASSUME LegionInv, NEW x \in Workers, NEW w \in Workers, NEW s \in TerminalStates, FinishWorker(x, s)
  PROVE  FinalOf(w)
<1>1. CASE legionRow[x].status \in TerminalStates
  BY <1>1, QuietIsFinal DEF FinishWorker
<1>2. CASE legionRow[x].status \notin TerminalStates
  <2> DEFINE last == IF legionRow[x].cancelled /\ s # "reconciling" THEN "interrupted" ELSE s
  <2>1. legionRow' = [legionRow EXCEPT ![x].status = last] /\ Emit(x, "finished")
    BY <1>2 DEF FinishWorker
  <2>2. last \in RowStatus
    BY DEF RowStatus, TerminalStates
  <2> QED BY <1>2, <2>1, <2>2, ReportIsFinal
<1> QED BY <1>1, <1>2

LEMMA StopIsFinal ==
  ASSUME LegionInv, NEW w \in Workers, StopRun PROVE FinalOf(w)
<1> DEFINE going == {v \in Workers : legionRow[v].status = "admitted"}
           ended == {[w |-> v, phase |-> "finished"] : v \in going}
<1>t. roomLog \in Seq(LogEvent) /\ w \in Executions /\ w # Lead
  BY ExecutionsAre DEF LegionInv, LegionTyped
<1>1. roomLog' = roomLog \o SetToSeq(ended)
  BY Zenon DEF StopRun
<1>2. ASSUME legionRow[w].status \in TerminalStates PROVE legionRow'[w].status = legionRow[w].status
  <2>1. w \notin LiveWorkers
    BY <1>2 DEF LiveWorkers, TerminalStates, ActiveStates
  <2>2. legionRow'[w] = legionRow[w]
    BY <1>t, <2>1 DEF StopRun
  <2> QED BY <2>2
<1>3. IsFiniteSet(ended) /\ ended \subseteq LogEvent
  <2>1. IsFiniteSet(going)
    BY ExecutionsAre, FS_Subset
  <2> DEFINE f == [v \in going |-> [w |-> v, phase |-> "finished"]]
  <2>2. f \in Surjection(going, ended)
    BY DEF Surjection
  <2> HIDE DEF f
  <2>3. IsFiniteSet(ended)
    BY <2>1, <2>2, FS_Surjection
  <2> QED BY <2>3 DEF LogEvent
<1>4. ASSUME legionRow[w].status \in TerminalStates, NEW e \in ended PROVE e.w # w
  <2>1. PICK v \in going : e = [w |-> v, phase |-> "finished"]
    OBVIOUS
  <2>2. v # w
    BY <1>4 DEF TerminalStates
  <2> QED BY <2>1, <2>2
<1> HIDE DEF ended
<1>5. SetToSeq(ended) \in Seq(LogEvent) /\ \A n \in DOMAIN SetToSeq(ended) : SetToSeq(ended)[n] \in ended
  BY <1>3, EventsInOrder
<1> QED BY <1>t, <1>1, <1>2, <1>4, <1>5, EventsKept DEF FinalOf

LEMMA InterruptIsFinal ==
  ASSUME LegionInv, NEW x \in Workers, NEW w \in Workers, Interrupt(x) PROVE FinalOf(w)
<1>t. /\ legionRow \in [Executions -> [status : RowStatus, cancelled : BOOLEAN]]
      /\ roomLog \in Seq(LogEvent) /\ w \in Executions /\ x \in Executions
  BY ExecutionsAre DEF LegionInv, LegionTyped
<1> SUFFICES ASSUME legionRow[w].status \in TerminalStates
             PROVE  /\ legionRow'[w].status = legionRow[w].status
                    /\ {n \in DOMAIN roomLog' : roomLog'[n].w = w} = EventsOf(w)
  BY DEF FinalOf
<1>1. x # w
  BY DEF Interrupt, ActiveStates, TerminalStates
<1>2. legionRow'[w] = legionRow[w]
  BY <1>t, <1>1 DEF Interrupt
<1> DEFINE told == IF legionRow[x].cancelled THEN <<>> ELSE <<[w |-> x, phase |-> "interrupt"]>>
           over == IF legionRow[x].status = "admitted" THEN <<[w |-> x, phase |-> "finished"]>> ELSE <<>>
<1>3. roomLog' = roomLog \o told \o over
  BY Zenon DEF Interrupt
<1>4. told \in Seq(LogEvent) /\ over \in Seq(LogEvent)
  <2>1. [w |-> x, phase |-> "interrupt"] \in LogEvent /\ [w |-> x, phase |-> "finished"] \in LogEvent
    BY DEF LogEvent
  <2> QED BY <2>1
<1>7. (\A n \in DOMAIN told : told[n].w = x) /\ (\A n \in DOMAIN over : over[n].w = x)
  OBVIOUS
<1> HIDE DEF told, over
<1>5. told \o over \in Seq(LogEvent) /\ roomLog' = roomLog \o (told \o over)
  <2>1. roomLog \in Seq(LogEvent)
    BY <1>t
  <2> QED BY SMTT(60), <1>3, <1>4, <2>1, JoinsAssociate
<1>6. \A n \in DOMAIN (told \o over) : (told \o over)[n].w # w
  BY <1>1, <1>4, <1>7
<1> QED BY <1>t, <1>2, <1>5, <1>6, EventsKept

\* A worker's terminal result is final, and no output is published after it,
\* whoever else still runs, stops or recovers the worker.
THEOREM ResultsStay == LegionSpec => ResultFinal
<1>1. ASSUME LegionInv, LegionNext, NEW w \in Workers PROVE FinalOf(w)
  <2>t. \A x \in Executions : legionRow[x] \in [status : RowStatus, cancelled : BOOLEAN]
    BY <1>1 DEF LegionInv, LegionTyped
  <2>1. ASSUME \/ CancelRoot \/ SettleRoot \/ LoseLease \/ OpenWindow \/ ReadRows \/ ReadPages \/ FollowEvents
               \/ LegionIdle
               \/ \E e \in Executions :
                    \/ ClaimInputs(e) \/ Inactive(e) \/ RecordBoundary(e) \/ WorkerAnswers(e) \/ NextTurn(e)
                    \/ EndTurn(e) \/ \E i \in Messages : Steer(e, i)
               \/ \E x \in Workers : SpawnWorker(x)
        PROVE  FinalOf(w)
    <3>1. UNCHANGED <<legionRow, roomLog>>
      <4>1. CASE CancelRoot \/ SettleRoot \/ LoseLease \/ OpenWindow \/ ReadRows \/ ReadPages \/ FollowEvents
        BY <4>1, Zenon DEF CancelRoot, SettleRoot, LoseLease, OpenWindow, ReadRows, ReadPages, FollowEvents
      <4>2. CASE LegionIdle \/ \E x \in Workers : SpawnWorker(x)
        BY <4>2, Zenon DEF LegionIdle, legionVars, SpawnWorker
      <4>3. ASSUME NEW e \in Executions,
                   \/ ClaimInputs(e) \/ Inactive(e) \/ RecordBoundary(e) \/ WorkerAnswers(e) \/ NextTurn(e)
                   \/ EndTurn(e) \/ \E i \in Messages : Steer(e, i)
            PROVE  UNCHANGED <<legionRow, roomLog>>
        BY <4>3, Zenon DEF ClaimInputs, Inactive, RecordBoundary, WorkerAnswers, NextTurn, EndTurn, Steer
      <4> QED BY <2>1, <4>1, <4>2, <4>3, Zenon
    <3> QED BY <3>1, QuietIsFinal
  <2>2. CASE StopRun
    BY <1>1, <2>2, StopIsFinal
  <2>3. CASE LeadEnds
    <3>1. legionRow'[w] = legionRow[w] /\ UNCHANGED roomLog
      BY <1>1, <2>3, ExecutionsAre DEF LeadEnds, LegionInv, LegionTyped
    <3> QED BY <3>1 DEF FinalOf, EventsOf
  <2>4. CASE RecoverWorkers
    <3>1. legionRow[w].status \in TerminalStates => w \notin LiveWorkers
      BY DEF LiveWorkers, ActiveStates, TerminalStates
    <3>2. legionRow[w].status \in TerminalStates => legionRow'[w] = legionRow[w]
      BY <2>4, <3>1, ExecutionsAre DEF RecoverWorkers
    <3> QED BY <2>4, <3>2 DEF FinalOf, EventsOf, RecoverWorkers
  <2>5. ASSUME NEW x \in Workers, BeginWorker(x) \/ PublishOutput(x) PROVE FinalOf(w)
    <3>1. CASE UNCHANGED <<legionRow, roomLog>>
      BY <3>1, QuietIsFinal
    <3>2. CASE BeginWorker(x)
      <4>1. legionRow[x].status \notin TerminalStates /\ "admitted" \in RowStatus
            /\ legionRow' = [legionRow EXCEPT ![x].status = "admitted"] /\ Emit(x, "started")
        BY <3>2 DEF BeginWorker, TerminalStates, RowStatus, ActiveStates
      <4> QED BY <1>1, <4>1, ReportIsFinal
    <3>3. CASE PublishOutput(x) /\ ~UNCHANGED <<legionRow, roomLog>>
      <4>1. legionRow[x].status \notin TerminalStates /\ legionRow' = legionRow /\ Emit(x, "text")
        BY <3>3 DEF PublishOutput
      <4> QED BY <1>1, <4>1, ReportIsFinal
    <3> QED BY <2>5, <3>1, <3>2, <3>3
  <2>6. ASSUME NEW x \in Workers, DispatchWorker(x) PROVE FinalOf(w)
    <3>1. CASE legionRow[x].status # "admitted"
      BY <2>6, <3>1, QuietIsFinal DEF DispatchWorker
    <3>2. CASE legionRow[x].status = "admitted"
      <4>1. legionRow[x].status \notin TerminalStates /\ {"interrupted", "running"} \subseteq RowStatus
        BY <3>2 DEF TerminalStates, RowStatus, ActiveStates
      <4>2. \E s \in RowStatus : legionRow' = [legionRow EXCEPT ![x].status = s]
        BY <2>6, <3>2, <4>1 DEF DispatchWorker
      <4>3. UNCHANGED roomLog \/ Emit(x, "running")
        BY <2>6, <3>2 DEF DispatchWorker
      <4> QED BY <1>1, <4>1, <4>2, <4>3, ReportIsFinal
    <3> QED BY <3>1, <3>2
  <2>7. ASSUME NEW x \in Workers, RunEnds(x) \/ Aborted(x) PROVE FinalOf(w)
    <3>1. UNCHANGED <<legionRow, roomLog>> \/ \E s \in TerminalStates : FinishWorker(x, s)
      BY <2>7 DEF RunEnds, Aborted, TerminalStates
    <3> QED BY <1>1, <3>1, FinishIsFinal, QuietIsFinal
  <2>8. ASSUME NEW x \in Workers, Interrupt(x) PROVE FinalOf(w)
    BY <1>1, <2>8, InterruptIsFinal
  <2> QED BY <1>1, <2>1, <2>2, <2>3, <2>4, <2>5, <2>6, <2>7, <2>8 DEF LegionNext
<1>2. ASSUME LegionInv, [LegionNext]_legionVars
      PROVE  [\A w \in Workers : legionRow[w].status \in TerminalStates =>
                /\ legionRow'[w].status = legionRow[w].status
                /\ {n \in DOMAIN roomLog' : roomLog'[n].w = w} = EventsOf(w)]_legionVars
  BY <1>1, <1>2 DEF FinalOf
<1> QED BY <1>2, LegionShape, PTL DEF LegionSpec, ResultFinal

-----------------------------------------------------------------------------
(* The dialogue of a round: what is asked, and what comes back. *)

\* Every step was asked under an earlier one, or by the owner.
Tree(s) ==
  /\ Len(s) \in Nat /\ DOMAIN s = 1 .. Len(s)
  /\ \A i \in 1 .. Len(s) : s[i].parent \in 0 .. (i - 1)

Upward(u, s, k) == \A i \in 0 .. k : u[i] = IF i = 0 THEN {} ELSE {i} \cup u[s[i].parent]

LEMMA UpwardGoesOn ==
  ASSUME NEW s, NEW k \in Nat, s[k + 1].parent \in 0 .. k, \A i \in 1 .. k : s[i].parent \in 0 .. (i - 1),
         NEW u, Upward(u, s, k)
  PROVE  \E v : Upward(v, s, k + 1)
<1> DEFINE v == [i \in 0 .. (k + 1) |-> IF i = k + 1 THEN {i} \cup u[s[i].parent] ELSE u[i]]
<1>1. \A i \in 0 .. (k + 1) : i = k + 1 \/ (i \in 0 .. k /\ i # k + 1)
  OBVIOUS
<1>2. k + 1 # 0 /\ k + 1 \in 0 .. (k + 1) /\ \A i \in 0 .. k : i \in 0 .. (k + 1) /\ i # k + 1
  OBVIOUS
<1>3. \A i \in 0 .. k : i # 0 => s[i].parent \in 0 .. k
  <2> SUFFICES ASSUME NEW i \in 0 .. k, i # 0 PROVE s[i].parent \in 0 .. k
    OBVIOUS
  <2>1. i \in 1 .. k
    OBVIOUS
  <2>2. s[i].parent \in 0 .. (i - 1)
    BY Zenon, <2>1
  <2> QED BY <2>2
<1>4. \A i \in 0 .. k : v[i] = u[i]
  BY Zenon, <1>2
<1>5. v[k + 1] = {k + 1} \cup u[s[k + 1].parent]
  BY Zenon, <1>2
<1> HIDE DEF v
<1>6. v[k + 1] = {k + 1} \cup v[s[k + 1].parent]
  BY Zenon, <1>4, <1>5
<1>7. ASSUME NEW i \in 0 .. k PROVE v[i] = IF i = 0 THEN {} ELSE {i} \cup v[s[i].parent]
  <2>1. u[i] = IF i = 0 THEN {} ELSE {i} \cup u[s[i].parent]
    BY Zenon DEF Upward
  <2>2. i # 0 => v[s[i].parent] = u[s[i].parent]
    BY Zenon, <1>3, <1>4
  <2> QED BY Zenon, <1>4, <2>1, <2>2
<1>8. ASSUME NEW i \in 0 .. (k + 1) PROVE v[i] = IF i = 0 THEN {} ELSE {i} \cup v[s[i].parent]
  <2>1. CASE i = k + 1
    BY Zenon, <1>2, <1>6, <2>1
  <2>2. CASE i # k + 1
    BY Zenon, <1>1, <1>7, <2>2
  <2> QED BY Zenon, <2>1, <2>2
<1>9. Upward(v, s, k + 1)
  BY Zenon, <1>8 DEF Upward
<1> QED BY Zenon, <1>9

\* The lineage of a step, from its parent's.
LEMMA LineageUp ==
  ASSUME NEW s, Tree(s)
  PROVE  /\ Lineage(s, 0) = {}
         /\ \A j \in 1 .. Len(s) : Lineage(s, j) = {j} \cup Lineage(s, s[j].parent)
<1> DEFINE n == Len(s)
           S == {k \in Nat : k <= n => \E u : Upward(u, s, k)}
<1>0. n \in Nat /\ \A i \in 1 .. n : s[i].parent \in 0 .. (i - 1)
  BY Zenon DEF Tree
<1> HIDE DEF n
<1>1. 0 \in S
  <2> DEFINE u == [i \in {0} |-> {}]
  <2>1. u[0] = {} /\ \A i \in 0 .. 0 : i = 0
    OBVIOUS
  <2> HIDE DEF u
  <2>2. Upward(u, s, 0)
    BY Zenon, <2>1 DEF Upward
  <2> QED BY Zenon, <2>2
<1>2. ASSUME NEW k \in Nat, k \in S PROVE k + 1 \in S
  <2> SUFFICES ASSUME k + 1 <= n PROVE \E u : Upward(u, s, k + 1)
    BY <1>0
  <2>1. PICK u : Upward(u, s, k)
    BY <1>0, <1>2
  <2>2. s[k + 1].parent \in 0 .. k /\ \A i \in 1 .. k : i \in 1 .. n
    <3>1. k + 1 \in 1 .. n /\ (k + 1) - 1 = k /\ \A i \in 1 .. k : i \in 1 .. n
      BY <1>0
    <3> QED BY <1>0, <3>1
  <2> QED BY Zenon, <1>0, <2>1, <2>2, UpwardGoesOn
<1>3. \E u : Upward(u, s, n)
  <2>1. n \in S
    BY Zenon, <1>0, <1>1, <1>2, SetInduction
  <2> QED BY <1>0, <2>1
<1>4. PICK u : Upward(u, s, n)
  BY Zenon, <1>3
<1> DEFINE w == [i \in 0 .. n |-> u[i]]
           up == CHOOSE x : x = [i \in 0 .. n |-> IF i = 0 THEN {} ELSE {i} \cup x[s[i].parent]]
<1>p. \A i \in 0 .. n : i # 0 => s[i].parent \in 0 .. n
  <2> SUFFICES ASSUME NEW i \in 0 .. n, i # 0 PROVE s[i].parent \in 0 .. n
    OBVIOUS
  <2>1. i \in 1 .. n
    BY <1>0
  <2>2. s[i].parent \in 0 .. (i - 1)
    BY Zenon, <1>0, <2>1
  <2> QED BY <1>0, <2>2
<1>5. w = [i \in 0 .. n |-> IF i = 0 THEN {} ELSE {i} \cup w[s[i].parent]]
  <2>1. ASSUME NEW i \in 0 .. n PROVE u[i] = IF i = 0 THEN {} ELSE {i} \cup w[s[i].parent]
    <3>2. i # 0 => w[s[i].parent] = u[s[i].parent]
      BY Zenon, <1>p
    <3> QED BY Zenon, <1>4, <3>2 DEF Upward
  <2> QED BY Zenon, <2>1
<1>6. up = [i \in 0 .. n |-> IF i = 0 THEN {} ELSE {i} \cup up[s[i].parent]]
  <2> HIDE DEF w
  <2> QED BY Zenon, <1>5
<1>7. \A j : Lineage(s, j) = up[j]
  BY Zenon DEF Lineage, n
<1> HIDE DEF up
<1>8. 0 \in 0 .. n /\ \A j \in 1 .. n : j \in 0 .. n /\ j # 0
  BY <1>0
<1>9. up[0] = {} /\ \A j \in 1 .. n : up[j] = {j} \cup up[s[j].parent]
  BY Zenon, <1>6, <1>8
<1> QED BY Zenon, <1>7, <1>9 DEF n

LEMMA GreatestStep ==
  ASSUME NEW n \in Nat, NEW T \in SUBSET (1 .. n), T # {} PROVE \E x \in T : \A y \in T : y =< x
<1> DEFINE R == {n - y : y \in T}
<1>1. R \in SUBSET Nat /\ R # {}
  <2>1. PICK y \in T : TRUE
    OBVIOUS
  <2>2. \A z \in T : n - z \in Nat
    OBVIOUS
  <2> QED BY Zenon, <2>1, <2>2
<1>2. PICK r \in R : \A q \in R : r =< q
  BY Zenon, <1>1, LeastNumber
<1>3. PICK x \in T : r = n - x
  OBVIOUS
<1>4. \A y \in T : n - x =< n - y /\ y \in 1 .. n /\ x \in 1 .. n
  BY <1>2, <1>3
<1>5. \A y \in T : y =< x
  BY <1>4
<1> QED BY Zenon, <1>5

\* What holds at the end, and of each step that it holds after, holds of the first.
LEMMA StepsDown ==
  ASSUME NEW n \in Nat, NEW S, n + 1 \in S, \A k \in 1 .. n : k + 1 \in S => k \in S
  PROVE  1 \in S
<1> SUFFICES ASSUME 1 \notin S PROVE FALSE
  OBVIOUS
<1> DEFINE T == {k \in 1 .. n : k \notin S}
<1>1. T \in SUBSET (1 .. n) /\ T # {}
  <2>1. 1 \in 1 .. n
    <3>1. n # 0
      OBVIOUS
    <3> QED BY <3>1
  <2> QED BY <2>1
<1>2. PICK x \in T : \A y \in T : y =< x
  BY Zenon, <1>1, GreatestStep
<1>3. x \in 1 .. n /\ x \notin S /\ x + 1 \notin S
  OBVIOUS
<1>4. x # n
  BY <1>3
<1>5. x + 1 \in T
  BY <1>3, <1>4
<1> QED BY <1>2, <1>3, <1>5

LEMMA TreeUp ==
  ASSUME NEW s, Tree(s), NEW S, 0 \in S, \A j \in 1 .. Len(s) : s[j].parent \in S => j \in S
  PROVE  \A j \in 0 .. Len(s) : j \in S
<1> DEFINE n == Len(s)
           T == {j \in 0 .. n : j \notin S}
<1>0. n \in Nat /\ \A i \in 1 .. n : s[i].parent \in 0 .. (i - 1)
  BY Zenon DEF Tree
<1> HIDE DEF n
<1> SUFFICES ASSUME T # {} PROVE FALSE
  BY DEF n
<1>1. T \in SUBSET Nat
  BY <1>0
<1>2. PICK x \in T : \A y \in T : x =< y
  BY Zenon, <1>1, LeastNumber
<1>3. x \in 1 .. n
  BY <1>0
<1>4. s[x].parent \notin S
  BY Zenon, <1>3 DEF n
<1>5. s[x].parent \in 0 .. (x - 1)
  BY Zenon, <1>0, <1>3
<1>6. s[x].parent \in T
  BY <1>0, <1>3, <1>4, <1>5
<1>7. x =< s[x].parent
  BY Zenon, <1>2, <1>6
<1> QED BY <1>3, <1>5, <1>7

LEMMA TreeDown ==
  ASSUME NEW s, Tree(s), NEW S, \A j \in 1 .. Len(s) : (\A c \in Children(s, j) : c \in S) => j \in S
  PROVE  \A j \in 1 .. Len(s) : j \in S
<1> DEFINE n == Len(s)
           T == {j \in 1 .. n : j \notin S}
<1>0. n \in Nat /\ DOMAIN s = 1 .. n /\ \A i \in 1 .. n : s[i].parent \in 0 .. (i - 1)
  BY Zenon DEF Tree
<1>c. \A j : \A c \in Children(s, j) : c \in 1 .. n /\ s[c].parent = j
  BY Zenon, <1>0 DEF Children
<1> HIDE DEF n
<1> SUFFICES ASSUME T # {} PROVE FALSE
  BY DEF n
<1>1. T \in SUBSET (1 .. n)
  OBVIOUS
<1>2. PICK x \in T : \A y \in T : y =< x
  BY Zenon, <1>0, <1>1, GreatestStep
<1>3. PICK c \in Children(s, x) : c \notin S
  BY Zenon DEF n
<1>4. c \in 1 .. n /\ x \in 0 .. (c - 1)
  <2>1. c \in 1 .. n /\ s[c].parent = x
    BY Zenon, <1>3, <1>c
  <2>2. s[c].parent \in 0 .. (c - 1)
    BY Zenon, <1>0, <2>1
  <2> QED BY Zenon, <2>1, <2>2
<1>5. c =< x
  BY <1>2, <1>3, <1>4
<1> QED BY <1>4, <1>5

LEMMA InLineage ==
  ASSUME NEW s, Tree(s), NEW j \in 1 .. Len(s)
  PROVE  /\ j \in Lineage(s, j)
         /\ \A d : d \in Lineage(s, j) <=> d = j \/ d \in Lineage(s, s[j].parent)
  BY LineageUp

\* An ancestor's ancestors are ancestors.
LEMMA LineageClosed ==
  ASSUME NEW s, Tree(s), NEW c, NEW d, d \in Lineage(s, c)
  PROVE  \A j \in 0 .. Len(s) : c \in Lineage(s, j) => d \in Lineage(s, j)
<1> DEFINE S == {j \in 0 .. Len(s) : c \in Lineage(s, j) => d \in Lineage(s, j)}
<1>1. 0 \in S
  <2>1. 0 \in 0 .. Len(s)
    BY DEF Tree
  <2> QED BY <2>1, LineageUp
<1>2. ASSUME NEW j \in 1 .. Len(s), s[j].parent \in S PROVE j \in S
  <2>1. j \in 0 .. Len(s)
    BY DEF Tree
  <2>2. c \in Lineage(s, j) => d \in Lineage(s, j)
    BY Zenon, <1>2, InLineage
  <2> QED BY <2>1, <2>2
<1> HIDE DEF S
<1>3. \A j \in 0 .. Len(s) : j \in S
  BY Zenon, <1>1, <1>2, TreeUp
<1> QED BY Zenon, <1>3 DEF S

\* Whoever was asked under a step was asked by it, or under somebody it asked.
LEMMA LineageWithin ==
  ASSUME NEW s, Tree(s)
  PROVE  \A j \in 0 .. Len(s) : Lineage(s, j) \subseteq 1 .. j
<1> DEFINE S == {j \in 0 .. Len(s) : Lineage(s, j) \subseteq 1 .. j}
<1>0. Len(s) \in Nat
  BY DEF Tree
<1>1. 0 \in S
  BY <1>0, LineageUp
<1>2. ASSUME NEW j \in 1 .. Len(s), s[j].parent \in S PROVE j \in S
  <2>1. j \in 0 .. Len(s) /\ s[j].parent \in 0 .. (j - 1)
    BY DEF Tree
  <2>2. Lineage(s, s[j].parent) \subseteq 1 .. s[j].parent
    BY Zenon, <1>2
  <2>3. \A d \in Lineage(s, j) : d \in 1 .. j
    <3> SUFFICES ASSUME NEW d \in Lineage(s, j) PROVE d \in 1 .. j
      OBVIOUS
    <3>1. d = j \/ d \in Lineage(s, s[j].parent)
      BY Zenon, InLineage
    <3>2. d = j \/ d \in 1 .. s[j].parent
      BY Zenon, <2>2, <3>1
    <3> QED BY <1>0, <2>1, <3>2
  <2> QED BY <2>1, <2>3
<1> HIDE DEF S
<1>3. \A j \in 0 .. Len(s) : j \in S
  BY Zenon, <1>1, <1>2, TreeUp
<1> QED BY Zenon, <1>3 DEF S

-----------------------------------------------------------------------------
\* settled(), read from a step's colleagues down.
OverFrom(u, s, j) == s[j].status \in Final /\ \A c \in Children(s, j) : u[c]
Downward(u, s, k) == \A j \in k .. Len(s) : u[j] = OverFrom(u, s, j)

LEMMA ChildrenBelow ==
  ASSUME NEW s, Tree(s), NEW j \in 1 .. Len(s)
  PROVE  \A c \in Children(s, j) : c \in (j + 1) .. Len(s) /\ c \in 1 .. Len(s) /\ s[c].parent = j
<1> SUFFICES ASSUME NEW c \in Children(s, j)
             PROVE  c \in (j + 1) .. Len(s) /\ c \in 1 .. Len(s) /\ s[c].parent = j
  OBVIOUS
<1>1. c \in 1 .. Len(s) /\ s[c].parent = j
  BY Zenon DEF Tree, Children
<1>2. j \in 0 .. (c - 1) /\ Len(s) \in Nat
  BY Zenon, <1>1 DEF Tree
<1> QED BY <1>1, <1>2

LEMMA SettledStep ==
  ASSUME NEW s, Tree(s)
  PROVE  \A j \in 1 .. Len(s) : Settled(s, j) <=> s[j].status \in Final
                                                    /\ \A c \in Children(s, j) : Settled(s, c)
<1> DEFINE n == Len(s)
           S == {k \in 1 .. (n + 1) : \E u : Downward(u, s, k)}
<1>0. n \in Nat /\ DOMAIN s = 1 .. n
  BY Zenon DEF Tree
<1>c. \A j \in 1 .. n : \A c \in Children(s, j) : c \in (j + 1) .. n /\ c \in 1 .. n
  BY Zenon, ChildrenBelow
<1>1. n + 1 \in S
  <2>1. n + 1 \in 1 .. (n + 1) /\ \A j \in (n + 1) .. n : FALSE
    BY <1>0
  <2>2. Downward(s, s, n + 1)
    BY Zenon, <2>1 DEF Downward
  <2> QED BY Zenon, <2>1, <2>2
<1>2. ASSUME NEW k \in 1 .. n, k + 1 \in S PROVE k \in S
  <2>1. PICK u : Downward(u, s, k + 1)
    BY Zenon, <1>2
  <2> DEFINE v == [j \in k .. n |-> IF j = k THEN OverFrom(u, s, j) ELSE u[j]]
  <2>2. k \in k .. n /\ k \in 1 .. (n + 1) /\ \A j \in (k + 1) .. n : j \in k .. n /\ j # k /\ j \in 1 .. n
    BY <1>0
  <2>3. \A j \in k .. n : j = k \/ j \in (k + 1) .. n
    BY <1>0
  <2>m. \A j \in (k + 1) .. n : \A c \in (j + 1) .. n : c \in (k + 1) .. n
    BY <1>0
  <2>4. \A j \in (k + 1) .. n : v[j] = u[j]
    BY Zenon, <2>2
  <2>5. v[k] = OverFrom(u, s, k)
    BY Zenon, <2>2
  <2> HIDE DEF v, S
  <2>6. OverFrom(u, s, k) = OverFrom(v, s, k)
    <3>1. \A c \in Children(s, k) : v[c] = u[c]
      BY Zenon, <1>c, <2>4
    <3> QED BY Zenon, <3>1 DEF OverFrom
  <2>7. ASSUME NEW j \in (k + 1) .. n PROVE v[j] = OverFrom(v, s, j)
    <3>1. \A c \in Children(s, j) : v[c] = u[c]
      BY Zenon, <1>c, <2>2, <2>4, <2>m
    <3>2. OverFrom(u, s, j) = OverFrom(v, s, j)
      BY Zenon, <3>1 DEF OverFrom
    <3> QED BY Zenon, <2>1, <2>4, <3>2 DEF Downward
  <2>8. Downward(v, s, k)
    BY Zenon, <2>3, <2>5, <2>6, <2>7 DEF Downward
  <2> QED BY Zenon, <2>2, <2>8 DEF S
<1>3. \E u : Downward(u, s, 1)
  <2> HIDE DEF S
  <2>1. 1 \in S
    BY Zenon, <1>0, <1>1, <1>2, StepsDown
  <2> QED BY Zenon, <2>1 DEF S
<1>4. PICK u : Downward(u, s, 1)
  BY Zenon, <1>3
<1> DEFINE w == [j \in DOMAIN s |-> u[j]]
           done == CHOOSE x : x = [j \in DOMAIN s |-> s[j].status \in Final /\ \A c \in Children(s, j) : x[c]]
<1>5. w = [j \in DOMAIN s |-> s[j].status \in Final /\ \A c \in Children(s, j) : w[c]]
  <2>1. ASSUME NEW j \in DOMAIN s PROVE u[j] = (s[j].status \in Final /\ \A c \in Children(s, j) : w[c])
    <3>1. \A c \in Children(s, j) : w[c] = u[c]
      BY Zenon, <1>0, <1>c
    <3>2. u[j] = (s[j].status \in Final /\ \A c \in Children(s, j) : u[c])
      BY Zenon, <1>0, <1>4 DEF Downward, OverFrom
    <3> QED BY Zenon, <3>1, <3>2
  <2> QED BY Zenon, <2>1
<1>6. done = [j \in DOMAIN s |-> s[j].status \in Final /\ \A c \in Children(s, j) : done[c]]
  <2> HIDE DEF w
  <2> QED BY Zenon, <1>5
<1>7. \A j : Settled(s, j) = done[j]
  BY Zenon DEF Settled
<1> HIDE DEF done
<1>8. \A j \in 1 .. n : done[j] = (s[j].status \in Final /\ \A c \in Children(s, j) : done[c])
  BY Zenon, <1>0, <1>6
<1> QED BY Zenon, <1>7, <1>8

\* What settled() says of a step: nothing asked under it is open.
LEMMA SettledIsOver ==
  ASSUME NEW s, Tree(s), NEW q \in 1 .. Len(s), Settled(s, q) PROVE Over(s, q)
<1> DEFINE S == {j \in 0 .. Len(s) : j = 0 \/ (q \in Lineage(s, j) => Settled(s, j))}
<1>0. Len(s) \in Nat /\ DOMAIN s = 1 .. Len(s) /\ \A j \in 1 .. Len(s) : j \in 0 .. Len(s) /\ j # 0
  BY DEF Tree
<1>1. 0 \in S
  BY <1>0
<1>2. ASSUME NEW j \in 1 .. Len(s), s[j].parent \in S PROVE j \in S
  <2> SUFFICES ASSUME q \in Lineage(s, j), q # j PROVE Settled(s, j)
    BY Zenon, <1>0
  <2>1. q \in Lineage(s, s[j].parent)
    BY Zenon, InLineage
  <2>2. s[j].parent # 0
    BY Zenon, <2>1, LineageUp
  <2>3. Settled(s, s[j].parent) /\ s[j].parent \in 0 .. Len(s)
    BY Zenon, <1>2, <2>1, <2>2
  <2>4. s[j].parent \in 1 .. Len(s) /\ j \in Children(s, s[j].parent)
    BY <1>0, <2>2, <2>3 DEF Children
  <2> QED BY Zenon, <2>3, <2>4, SettledStep
<1> HIDE DEF S
<1>3. \A j \in 0 .. Len(s) : j \in S
  BY Zenon, <1>1, <1>2, TreeUp
<1>4. ASSUME NEW j \in DOMAIN s, q \in Lineage(s, j) PROVE s[j].status \in Final
  <2>1. j \in 1 .. Len(s) /\ Settled(s, j)
    BY Zenon, <1>0, <1>3, <1>4 DEF S
  <2> QED BY Zenon, <2>1, SettledStep
<1> QED BY Zenon, <1>4 DEF Over

-----------------------------------------------------------------------------
\* The follow-ups to step j that were spoken.
Followups(s, j) == {c \in Children(s, j) : s[c].ret /\ s[c].status = "succeeded"}
LastFrom(u, s, j) == IF Followups(s, j) = {} THEN j ELSE u[CHOOSE c \in Followups(s, j) : TRUE]
LastDown(u, s, k) == \A j \in k .. Len(s) : u[j] = LastFrom(u, s, j)

Agree(u, v, s, j) == \A c \in Children(s, j) : v[c] = u[c]

LEMMA LastSame ==
  ASSUME NEW u, NEW v, NEW s, NEW j, Agree(u, v, s, j)
  PROVE  LastFrom(u, s, j) = LastFrom(v, s, j)
<1>1. CASE Followups(s, j) = {}
  BY Zenon, <1>1 DEF LastFrom
<1>2. CASE Followups(s, j) # {}
  <2>1. (CHOOSE c \in Followups(s, j) : TRUE) \in Followups(s, j)
    BY Zenon, <1>2
  <2>2. (CHOOSE c \in Followups(s, j) : TRUE) \in Children(s, j)
    BY Zenon, <2>1 DEF Followups
  <2>3. u[CHOOSE c \in Followups(s, j) : TRUE] = v[CHOOSE c \in Followups(s, j) : TRUE]
    BY Zenon, <2>2 DEF Agree
  <2> QED BY Zenon, <1>2, <2>3 DEF LastFrom
<1> QED BY Zenon, <1>1, <1>2

LEMMA AnswerStep ==
  ASSUME NEW s, Tree(s)
  PROVE  \A j \in 1 .. Len(s) :
           \/ Followups(s, j) = {} /\ Answer(s, j) = j
           \/ \E c \in Followups(s, j) : Answer(s, j) = Answer(s, c)
<1> DEFINE n == Len(s)
           S == {k \in 1 .. (n + 1) : \E u : LastDown(u, s, k)}
<1>0. n \in Nat /\ DOMAIN s = 1 .. n
  BY Zenon DEF Tree
<1>c. \A j \in 1 .. n : \A c \in Children(s, j) : c \in (j + 1) .. n /\ c \in 1 .. n
  BY Zenon, ChildrenBelow
<1>1. n + 1 \in S
  <2>1. n + 1 \in 1 .. (n + 1) /\ \A j \in (n + 1) .. n : FALSE
    BY <1>0
  <2>2. LastDown(s, s, n + 1)
    BY Zenon, <2>1 DEF LastDown
  <2> QED BY Zenon, <2>1, <2>2
<1>2. ASSUME NEW k \in 1 .. n, k + 1 \in S PROVE k \in S
  <2>1. PICK u : LastDown(u, s, k + 1)
    BY Zenon, <1>2
  <2> DEFINE v == [j \in k .. n |-> IF j = k THEN LastFrom(u, s, j) ELSE u[j]]
  <2>2. k \in k .. n /\ k \in 1 .. (n + 1) /\ \A j \in (k + 1) .. n : j \in k .. n /\ j # k /\ j \in 1 .. n
    BY <1>0
  <2>3. \A j \in k .. n : j = k \/ j \in (k + 1) .. n
    BY <1>0
  <2>m. \A j \in (k + 1) .. n : \A c \in (j + 1) .. n : c \in (k + 1) .. n
    BY <1>0
  <2>4. \A j \in (k + 1) .. n : v[j] = u[j]
    BY Zenon, <2>2
  <2>5. v[k] = LastFrom(u, s, k)
    BY Zenon, <2>2
  <2> HIDE DEF v, S
  <2>6. LastFrom(u, s, k) = LastFrom(v, s, k)
    <3>1. Agree(u, v, s, k)
      BY Zenon, <1>c, <2>4 DEF Agree
    <3> QED BY ONLY <3>1, LastSame
  <2>7. ASSUME NEW j \in (k + 1) .. n PROVE v[j] = LastFrom(v, s, j)
    <3>1. Agree(u, v, s, j)
      BY Zenon, <1>c, <2>2, <2>4, <2>m DEF Agree
    <3>2. LastFrom(u, s, j) = LastFrom(v, s, j)
      BY ONLY <3>1, LastSame
    <3> QED BY Zenon, <2>1, <2>4, <3>2 DEF LastDown
  <2>8. LastDown(v, s, k)
    BY Zenon, <2>3, <2>5, <2>6, <2>7 DEF LastDown
  <2> QED BY Zenon, <2>2, <2>8 DEF S
<1>3. \E u : LastDown(u, s, 1)
  <2> HIDE DEF S
  <2>1. 1 \in S
    BY Zenon, <1>0, <1>1, <1>2, StepsDown
  <2> QED BY Zenon, <2>1 DEF S
<1>4. PICK u : LastDown(u, s, 1)
  BY Zenon, <1>3
<1> DEFINE w == [j \in DOMAIN s |-> u[j]]
           last == CHOOSE x : x = [j \in DOMAIN s |-> LastFrom(x, s, j)]
<1>5. w = [j \in DOMAIN s |-> LastFrom(w, s, j)]
  <2>1. ASSUME NEW j \in DOMAIN s PROVE u[j] = LastFrom(w, s, j)
    <3>1. Agree(u, w, s, j)
      BY Zenon, <1>0, <1>c DEF Agree
    <3> HIDE DEF w
    <3>2. LastFrom(u, s, j) = LastFrom(w, s, j)
      BY ONLY <3>1, LastSame
    <3>3. u[j] = LastFrom(u, s, j)
      BY Zenon, <1>0, <1>4 DEF LastDown
    <3> QED BY Zenon, <3>2, <3>3
  <2> QED BY Zenon, <2>1
<1>6. last = [j \in DOMAIN s |-> LastFrom(last, s, j)]
  <2> HIDE DEF w
  <2> QED BY Zenon, <1>5
<1>7. \A j : Answer(s, j) = last[j]
  BY Zenon DEF Answer, LastFrom, Followups
<1> HIDE DEF last
<1>8. \A j \in 1 .. n : last[j] = LastFrom(last, s, j)
  BY Zenon, <1>0, <1>6
<1> SUFFICES ASSUME NEW j \in 1 .. n, Followups(s, j) # {}
             PROVE  \E c \in Followups(s, j) : Answer(s, j) = Answer(s, c)
  BY Zenon, <1>7, <1>8 DEF LastFrom
<1>9. (CHOOSE c \in Followups(s, j) : TRUE) \in Followups(s, j)
  BY Zenon
<1>10. last[j] = last[CHOOSE c \in Followups(s, j) : TRUE]
  BY Zenon, <1>8 DEF LastFrom
<1> QED BY Zenon, <1>7, <1>9, <1>10

\* Nothing under step j is open, and j was answered by no later follow-up.
Complete(s, j) == Over(s, j) /\ Followups(s, j) = {}

\* What answer() finds: an answer given under the question, that nothing follows.
LEMMA AnswerIsLast ==
  ASSUME NEW s, Tree(s)
  PROVE  \A j \in 1 .. Len(s) : /\ Answer(s, j) \in 1 .. Len(s)
                                /\ j \in Lineage(s, Answer(s, j))
                                /\ Followups(s, Answer(s, j)) = {}
<1> DEFINE Fine(j, x) == x \in 1 .. Len(s) /\ j \in Lineage(s, x) /\ Followups(s, x) = {}
           S == {j \in 1 .. Len(s) : Fine(j, Answer(s, j))}
<1>1. ASSUME NEW j \in 1 .. Len(s), \A c \in Children(s, j) : c \in S PROVE j \in S
  <2>1. CASE Followups(s, j) = {} /\ Answer(s, j) = j
    <3>1. j \in Lineage(s, j)
      BY Zenon, InLineage
    <3> QED BY Zenon, <2>1, <3>1
  <2>2. ASSUME NEW c \in Followups(s, j), Answer(s, j) = Answer(s, c) PROVE j \in S
    <3>1. c \in Children(s, j) /\ c \in 1 .. Len(s) /\ s[c].parent = j
      <4>1. c \in Children(s, j)
        BY Zenon DEF Followups
      <4> QED BY ONLY <4>1, ChildrenBelow, Tree(s), j \in 1 .. Len(s)
    <3>2. Fine(c, Answer(s, c))
      BY Zenon, <1>1, <3>1
    <3>3. j \in Lineage(s, c)
      BY Zenon, <3>1, InLineage
    <3>4. Answer(s, c) \in 0 .. Len(s)
      BY <3>2
    <3>5. j \in Lineage(s, Answer(s, c))
      BY Zenon, <3>2, <3>3, <3>4, LineageClosed
    <3> QED BY Zenon, <2>2, <3>2, <3>5
  <2> QED BY Zenon, <2>1, <2>2, AnswerStep
<1> HIDE DEF S
<1>2. \A j \in 1 .. Len(s) : j \in S
  BY Zenon, <1>1, TreeDown
<1> QED BY Zenon, <1>2 DEF S

LEMMA AnswerIsComplete ==
  ASSUME NEW s, Tree(s), NEW q \in 1 .. Len(s), Settled(s, q)
  PROVE  Answer(s, q) \in 1 .. Len(s) /\ Complete(s, Answer(s, q))
<1>1. Answer(s, q) \in 1 .. Len(s) /\ q \in Lineage(s, Answer(s, q)) /\ Followups(s, Answer(s, q)) = {}
  BY Zenon, AnswerIsLast
<1>2. Over(s, q) /\ \A j \in DOMAIN s : j \in 0 .. Len(s)
  <2>1. \A j \in 1 .. Len(s) : j \in 0 .. Len(s)
    OBVIOUS
  <2> QED BY Zenon, <2>1, SettledIsOver DEF Tree
<1>3. Over(s, Answer(s, q))
  BY Zenon, <1>1, <1>2, LineageClosed DEF Over
<1> QED BY Zenon, <1>1, <1>3 DEF Complete

-----------------------------------------------------------------------------
\* t is s with steps taken further: what was asked stays asked, what is over
\* stays as it ended, and only a step that is not over has asked anything new.
SameStep(x, y) == /\ y.parent = x.parent /\ y.mode = x.mode /\ y.ret = x.ret /\ y.agent = x.agent
                  /\ x.status \in Final => y.status = x.status
Grown(s, t) ==
  /\ Len(s) =< Len(t)
  /\ \A i \in 1 .. Len(s) : SameStep(s[i], t[i])
  /\ \A j \in (Len(s) + 1) .. Len(t) : t[j].parent \in 1 .. Len(s) /\ s[t[j].parent].status \notin Final

LEMMA GrownLineage ==
  ASSUME NEW s, NEW t, Tree(s), Tree(t), Grown(s, t)
  PROVE  \A j \in 0 .. Len(s) : Lineage(t, j) = Lineage(s, j)
<1> DEFINE S == {j \in 0 .. Len(s) : Lineage(t, j) = Lineage(s, j)}
<1>0. \A j \in 1 .. Len(s) : j \in 0 .. Len(s) /\ j \in 1 .. Len(t)
  <2>1. Len(s) \in Nat /\ Len(t) \in Nat /\ Len(s) =< Len(t)
    BY Zenon DEF Tree, Grown
  <2> QED BY <2>1
<1>1. 0 \in S
  <2>1. 0 \in 0 .. Len(s)
    BY DEF Tree
  <2> QED BY <2>1, LineageUp
<1>2. ASSUME NEW j \in 1 .. Len(s), s[j].parent \in S PROVE j \in S
  <2>1. t[j].parent = s[j].parent
    BY Zenon DEF Grown, SameStep
  <2>2. Lineage(t, j) = {j} \cup Lineage(t, t[j].parent)
    BY Zenon, <1>0, LineageUp
  <2>3. Lineage(s, j) = {j} \cup Lineage(s, s[j].parent)
    BY Zenon, LineageUp
  <2>4. Lineage(t, s[j].parent) = Lineage(s, s[j].parent)
    BY Zenon, <1>2
  <2>5. Lineage(t, j) = Lineage(s, j)
    BY Zenon, <2>1, <2>2, <2>3, <2>4
  <2> QED BY Zenon, <1>0, <2>5
<1> HIDE DEF S
<1>3. \A j \in 0 .. Len(s) : j \in S
  BY Zenon, <1>1, <1>2, TreeUp
<1> QED BY Zenon, <1>3 DEF S

\* What is over stays over.
LEMMA GrownOver ==
  ASSUME NEW s, NEW t, Tree(s), Tree(t), Grown(s, t), NEW q \in 1 .. Len(s), Over(s, q)
  PROVE  Over(t, q)
<1>0. Len(s) \in Nat /\ Len(t) \in Nat /\ DOMAIN s = 1 .. Len(s) /\ DOMAIN t = 1 .. Len(t)
  BY Zenon DEF Tree
<1> SUFFICES ASSUME NEW j \in 1 .. Len(t), q \in Lineage(t, j) PROVE t[j].status \in Final
  BY Zenon, <1>0 DEF Over
<1>1. CASE j \in 1 .. Len(s)
  <2>1. q \in Lineage(s, j)
    <3>1. j \in 0 .. Len(s)
      BY <1>1
    <3> QED BY Zenon, <3>1, GrownLineage
  <2>2. s[j].status \in Final
    BY Zenon, <1>0, <1>1, <2>1 DEF Over
  <2> QED BY Zenon, <1>1, <2>2 DEF Grown, SameStep
<1>2. CASE j \in (Len(s) + 1) .. Len(t)
  <2>1. q # j
    BY <1>0, <1>2
  <2>2. t[j].parent \in 1 .. Len(s) /\ s[t[j].parent].status \notin Final
    BY Zenon, <1>2 DEF Grown
  <2>3. q \in Lineage(t, t[j].parent)
    BY Zenon, <2>1, InLineage
  <2>4. q \in Lineage(s, t[j].parent)
    <3>1. t[j].parent \in 0 .. Len(s)
      BY <1>0, <2>2
    <3> QED BY Zenon, <2>3, <3>1, GrownLineage
  <2> QED BY Zenon, <1>0, <2>2, <2>4 DEF Over
<1>3. j \in 1 .. Len(s) \/ j \in (Len(s) + 1) .. Len(t)
  BY <1>0
<1> QED BY Zenon, <1>1, <1>2, <1>3

\* A step that is over is asked nothing new.
LEMMA GrownChildren ==
  ASSUME NEW s, NEW t, Tree(s), Tree(t), Grown(s, t), NEW j \in 1 .. Len(s), s[j].status \in Final
  PROVE  Children(t, j) = Children(s, j) /\ Children(s, j) \subseteq 1 .. Len(s)
<1>0. Len(s) \in Nat /\ Len(t) \in Nat /\ DOMAIN s = 1 .. Len(s) /\ DOMAIN t = 1 .. Len(t) /\ Len(s) =< Len(t)
  BY Zenon DEF Tree, Grown
<1>1. ASSUME NEW c \in 1 .. Len(t), t[c].parent = j PROVE c \in 1 .. Len(s)
  <2>1. c \in 1 .. Len(s) \/ c \in (Len(s) + 1) .. Len(t)
    BY <1>0
  <2> QED BY Zenon, <1>1, <2>1 DEF Grown
<1>2. \A c \in 1 .. Len(s) : c \in 1 .. Len(t) /\ t[c].parent = s[c].parent
  <2>1. \A c \in 1 .. Len(s) : c \in 1 .. Len(t)
    BY <1>0
  <2> QED BY Zenon, <2>1 DEF Grown, SameStep
<1>3. \A c \in Children(t, j) : c \in Children(s, j)
  BY Zenon, <1>0, <1>1, <1>2 DEF Children
<1>4. \A c \in Children(s, j) : c \in Children(t, j) /\ c \in 1 .. Len(s)
  BY Zenon, <1>0, <1>2 DEF Children
<1> QED BY Zenon, <1>3, <1>4

\* The caller has spoken, and nothing it asked besides step i is open.
OnTime(s, i) == /\ s[s[i].parent].status = "succeeded"
                /\ \A q \in Children(s, s[i].parent) \ {i} : Over(s, q)

LEMMA GrownOnTime ==
  ASSUME NEW s, NEW t, Tree(s), Tree(t), Grown(s, t),
         NEW i \in 1 .. Len(s), s[i].parent # 0, OnTime(s, i)
  PROVE  OnTime(t, i)
<1> DEFINE p == s[i].parent
<1>1. p \in 1 .. Len(s)
  <2>1. Len(s) \in Nat /\ s[i].parent \in 0 .. (i - 1)
    BY Zenon DEF Tree
  <2> QED BY <2>1
<1>2. s[p].status = "succeeded" /\ s[p].status \in Final /\ t[i].parent = p
  BY Zenon DEF OnTime, Grown, SameStep, Final
<1>3. t[p].status = "succeeded"
  BY Zenon, <1>1, <1>2 DEF Grown, SameStep
<1>4. Children(t, p) = Children(s, p) /\ Children(s, p) \subseteq 1 .. Len(s)
  BY Zenon, <1>1, <1>2, GrownChildren
<1>5. ASSUME NEW q \in Children(t, p) \ {i} PROVE Over(t, q)
  <2>1. Over(s, q) /\ q \in 1 .. Len(s)
    BY Zenon, <1>4 DEF OnTime
  <2> QED BY Zenon, <2>1, GrownOver
<1> QED BY Zenon, <1>2, <1>3, <1>5 DEF OnTime

LEMMA GrownComplete ==
  ASSUME NEW s, NEW t, Tree(s), Tree(t), Grown(s, t), NEW j \in 1 .. Len(s), Complete(s, j)
  PROVE  Complete(t, j)
<1>1. Over(t, j)
  BY Zenon, GrownOver DEF Complete
<1>2. \A c \in 1 .. Len(s) : j \in Lineage(s, c) => s[c].status \in Final
  BY Zenon DEF Complete, Over, Tree
<1>3. s[j].status \in Final
  BY Zenon, <1>2, InLineage
<1>4. Children(t, j) = Children(s, j)
  BY Zenon, <1>3, GrownChildren
<1>5. ASSUME NEW c \in Followups(t, j) PROVE c \in Followups(s, j)
  <2>1. c \in Children(s, j) /\ t[c].ret /\ t[c].status = "succeeded"
    BY Zenon, <1>4 DEF Followups
  <2>2. c \in 1 .. Len(s) /\ s[c].parent = j
    BY ONLY <2>1, ChildrenBelow, Tree(s), j \in 1 .. Len(s)
  <2>3. j \in Lineage(s, c)
    BY Zenon, <2>2, InLineage
  <2>4. s[c].status = t[c].status /\ s[c].ret = t[c].ret
    BY Zenon, <1>2, <2>2, <2>3 DEF Grown, SameStep
  <2>5. s[c].ret /\ s[c].status = "succeeded"
    BY Zenon, <2>1, <2>4
  <2> QED BY Zenon, <2>1, <2>5 DEF Followups
<1> QED BY Zenon, <1>1, <1>5 DEF Complete

-----------------------------------------------------------------------------
(* release_replies(): the rows as the pass has them at step i, the earlier
   steps' changes made and the later ones' not. *)
Mix(s, u, i) == [j \in DOMAIN s |-> IF j < i THEN u[j] ELSE s[j]]
PassAt(s, u, i) == IF s[i].status # "waiting_reply" THEN s[i] ELSE ReleaseOne(Mix(s, u, i), i)
AfterUp(u, s, k) == \A i \in 1 .. k : u[i] = PassAt(s, u, i)
SameBelow(u, v, s, i) == \A j \in DOMAIN s : j < i => u[j] = v[j]

LEMMA OneSame ==
  ASSUME NEW s, NEW u, NEW v, NEW i, SameBelow(u, v, s, i)
  PROVE  PassAt(s, u, i) = PassAt(s, v, i)
<1>1. ASSUME NEW j \in DOMAIN s
      PROVE  (IF j < i THEN u[j] ELSE s[j]) = (IF j < i THEN v[j] ELSE s[j])
  BY Zenon DEF SameBelow
<1>2. Mix(s, u, i) = Mix(s, v, i)
  BY Zenon, <1>1 DEF Mix
<1> QED BY Zenon, <1>2 DEF PassAt

LEMMA ReleasedStep ==
  ASSUME NEW s, Tree(s)
  PROVE  /\ DOMAIN Released(s) = DOMAIN s
         /\ \A i \in 1 .. Len(s) : Released(s)[i] = PassAt(s, Released(s), i)
<1> DEFINE n == Len(s)
           S == {k \in Nat : k <= n => \E u : AfterUp(u, s, k)}
<1>0. n \in Nat /\ DOMAIN s = 1 .. n
  BY Zenon DEF Tree
<1> HIDE DEF n
<1>1. 0 \in S
  <2>1. \A i \in 1 .. 0 : FALSE
    OBVIOUS
  <2>2. AfterUp(s, s, 0)
    BY Zenon, <2>1 DEF AfterUp
  <2> QED BY Zenon, <2>2
<1>2. ASSUME NEW k \in Nat, k \in S PROVE k + 1 \in S
  <2> SUFFICES ASSUME k + 1 <= n PROVE \E u : AfterUp(u, s, k + 1)
    BY <1>0
  <2>1. PICK u : AfterUp(u, s, k)
    BY <1>0, <1>2
  <2> DEFINE v == [i \in 1 .. (k + 1) |-> IF i = k + 1 THEN PassAt(s, u, i) ELSE u[i]]
  <2>2. k + 1 \in 1 .. (k + 1) /\ \A i \in 1 .. k : i \in 1 .. (k + 1) /\ i # k + 1
    OBVIOUS
  <2>3. \A i \in 1 .. (k + 1) : i = k + 1 \/ i \in 1 .. k
    OBVIOUS
  <2>4. \A i \in 1 .. n : \A j \in 1 .. (k + 1) : i < j => i \in 1 .. k
    OBVIOUS
  <2>5. \A i \in 1 .. k : v[i] = u[i]
    BY Zenon, <2>2
  <2>6. v[k + 1] = PassAt(s, u, k + 1)
    BY Zenon, <2>2
  <2> HIDE DEF v
  <2>7. \A i \in 1 .. (k + 1) : SameBelow(u, v, s, i)
    BY Zenon, <1>0, <2>4, <2>5 DEF SameBelow
  <2>8. \A i \in 1 .. (k + 1) : PassAt(s, u, i) = PassAt(s, v, i)
    <3> SUFFICES ASSUME NEW i \in 1 .. (k + 1) PROVE PassAt(s, u, i) = PassAt(s, v, i)
      OBVIOUS
    <3>1. SameBelow(u, v, s, i)
      BY Zenon, <2>7
    <3> QED BY ONLY <3>1, OneSame
  <2>9. AfterUp(v, s, k + 1)
    <3> SUFFICES ASSUME NEW i \in 1 .. (k + 1) PROVE v[i] = PassAt(s, v, i)
      BY Zenon DEF AfterUp
    <3>1. v[i] = PassAt(s, u, i)
      <4>1. CASE i = k + 1
        BY Zenon, <2>6, <4>1
      <4>2. CASE i \in 1 .. k
        BY Zenon, <2>1, <2>5, <4>2 DEF AfterUp
      <4> QED BY Zenon, <2>3, <4>1, <4>2
    <3> QED BY Zenon, <2>8, <3>1
  <2> QED BY Zenon, <2>9
<1>3. \E u : AfterUp(u, s, n)
  <2>1. n \in S
    BY Zenon, <1>0, <1>1, <1>2, SetInduction
  <2> QED BY <1>0, <2>1
<1>4. PICK u : AfterUp(u, s, n)
  BY Zenon, <1>3
<1> DEFINE w == [i \in DOMAIN s |-> u[i]]
           after == CHOOSE x : x = [i \in DOMAIN s |->
                      IF s[i].status # "waiting_reply" THEN s[i]
                      ELSE ReleaseOne([j \in DOMAIN s |-> IF j < i THEN x[j] ELSE s[j]], i)]
           r == [i \in DOMAIN s |-> after[i]]
<1>5. w = [i \in DOMAIN s |->
             IF s[i].status # "waiting_reply" THEN s[i]
             ELSE ReleaseOne([j \in DOMAIN s |-> IF j < i THEN w[j] ELSE s[j]], i)]
  <2>1. ASSUME NEW i \in DOMAIN s
        PROVE  u[i] = IF s[i].status # "waiting_reply" THEN s[i]
                      ELSE ReleaseOne([j \in DOMAIN s |-> IF j < i THEN w[j] ELSE s[j]], i)
    <3>1. SameBelow(u, w, s, i)
      BY Zenon DEF SameBelow
    <3> HIDE DEF w
    <3>2. PassAt(s, u, i) = PassAt(s, w, i)
      BY ONLY <3>1, OneSame
    <3>3. u[i] = PassAt(s, w, i)
      BY Zenon, <1>0, <1>4, <3>2 DEF AfterUp
    <3> QED BY Zenon, <3>3 DEF PassAt, Mix
  <2> QED BY Zenon, <2>1
<1>6. after = [i \in DOMAIN s |->
                IF s[i].status # "waiting_reply" THEN s[i]
                ELSE ReleaseOne([j \in DOMAIN s |-> IF j < i THEN after[j] ELSE s[j]], i)]
  <2> HIDE DEF w
  <2> QED BY Zenon, <1>5
<1>7. Released(s) = r
  BY Zenon DEF Released
<1> HIDE DEF after
<1>8. DOMAIN r = DOMAIN s /\ \A i \in DOMAIN s : r[i] = after[i]
  BY Zenon
<1> HIDE DEF r
<1>9. ASSUME NEW i \in DOMAIN s PROVE r[i] = PassAt(s, r, i)
  <2>1. SameBelow(after, r, s, i)
    BY Zenon, <1>8 DEF SameBelow
  <2>2. PassAt(s, after, i) = PassAt(s, r, i)
    BY ONLY <2>1, OneSame
  <2>3. after[i] = PassAt(s, after, i)
    BY Zenon, <1>6 DEF PassAt, Mix
  <2> QED BY Zenon, <1>8, <2>2, <2>3
<1> QED BY Zenon, <1>0, <1>7, <1>8, <1>9 DEF n

-----------------------------------------------------------------------------
\* The rows of a round: a response turn is asked for by a step.
Rows(s) ==
  /\ s \in Seq(StepType) /\ Len(s) \in 1 .. Cap
  /\ \A i \in 1 .. Len(s) : s[i].parent \in 0 .. (i - 1) /\ (s[i].ret => s[i].parent # 0)

LEMMA RowsTree ==
  ASSUME NEW s, Rows(s)
  PROVE  /\ Tree(s) /\ Len(s) \in Nat /\ Len(s) =< Cap /\ Cap \in Nat /\ DOMAIN s = 1 .. Len(s)
         /\ \A i \in 1 .. Len(s) : s[i] \in StepType
<1>1. Cap \in Nat
  BY DialogueAssumption
<1>2. s \in Seq(StepType) /\ Len(s) \in 1 .. Cap
  BY Zenon DEF Rows
<1>3. Len(s) \in Nat /\ Len(s) =< Cap /\ DOMAIN s = 1 .. Len(s) /\ \A i \in 1 .. Len(s) : s[i] \in StepType
  BY ONLY <1>1, <1>2
<1>4. \A i \in 1 .. Len(s) : s[i].parent \in 0 .. (i - 1)
  BY Zenon DEF Rows
<1> QED BY Zenon, <1>1, <1>3, <1>4 DEF Tree

\* Rows given one by one are rows.
LEMMA RowByRow ==
  ASSUME NEW s, Rows(s), NEW t, t \in [1 .. Len(s) -> StepType],
         \A i \in 1 .. Len(s) : SameStep(s[i], t[i])
  PROVE  Rows(t) /\ Len(t) = Len(s) /\ Grown(s, t)
<1>1. Len(s) \in 1 .. Cap /\ Len(s) \in Nat
  BY Zenon, RowsTree DEF Rows
<1>2. t \in Seq(StepType) /\ Len(t) = Len(s)
  BY ONLY <1>1, t \in [1 .. Len(s) -> StepType]
<1>3. \A i \in 1 .. Len(s) : t[i].parent \in 0 .. (i - 1) /\ (t[i].ret => t[i].parent # 0)
  BY Zenon DEF Rows, SameStep
<1>4. Len(s) =< Len(t) /\ \A i \in (Len(s) + 1) .. Len(t) : FALSE
  BY ONLY <1>1, <1>2
<1> QED BY Zenon, <1>1, <1>2, <1>3, <1>4 DEF Rows, Grown

LEMMA ReleasedOne ==
  ASSUME NEW m, Rows(m), NEW i \in 1 .. Len(m), m[i].status = "waiting_reply"
  PROVE  /\ ReleaseOne(m, i) \in StepType /\ SameStep(m[i], ReleaseOne(m, i))
         /\ ReleaseOne(m, i).status = "queued" => OnTime(m, i)
         /\ ReleaseOne(m, i).status \in {"queued", "cancelled", "waiting_reply"}
         /\ \/ ReleaseOne(m, i).packet = m[i].packet
            \/ \A j \in ReleaseOne(m, i).packet : j \in 1 .. Len(m) /\ Complete(m, j)
<1> DEFINE caller == m[m[i].parent]
           requests == Children(m, m[i].parent) \ {i}
           ready == caller.status = "succeeded" /\ \A q \in requests : Settled(m, q)
           answers == {Answer(m, q) : q \in requests}
           x == ReleaseOne(m, i)
<1>0. Tree(m) /\ Len(m) \in Nat /\ Len(m) =< Cap /\ Cap \in Nat /\ m[i] \in StepType /\ requests \subseteq 1 .. Len(m)
  BY Zenon, RowsTree DEF Children
<1>1. ASSUME ready PROVE OnTime(m, i) /\ \A j \in answers : j \in 1 .. Len(m) /\ Complete(m, j)
  <2>1. \A q \in requests : Over(m, q)
    BY Zenon, <1>0, <1>1, SettledIsOver
  <2>2. \A q \in requests : Answer(m, q) \in 1 .. Len(m) /\ Complete(m, Answer(m, q))
    BY Zenon, <1>0, <1>1, AnswerIsComplete
  <2> QED BY Zenon, <1>1, <2>1, <2>2 DEF OnTime
<1>2. x = IF caller.status = "cancelled" THEN [m[i] EXCEPT !.status = "cancelled"]
          ELSE IF ready THEN [m[i] EXCEPT !.status = "queued", !.packet = answers] ELSE m[i]
  BY Zenon DEF ReleaseOne
<1>3. ready => answers \in SUBSET (1 .. Cap)
  <2> HIDE DEF answers
  <2> SUFFICES ASSUME ready, NEW j \in answers PROVE j \in 1 .. Cap
    OBVIOUS
  <2>1. j \in 1 .. Len(m)
    BY Zenon, <1>1
  <2> QED BY ONLY <1>0, <2>1
<1> HIDE DEF x, answers, ready, caller
<1>4. CASE x = m[i]
  <2>1. x \in StepType
    BY Zenon, <1>0, <1>4
  <2>2. x.status = "waiting_reply"
    BY Zenon, <1>4
  <2>3. x.status # "queued" /\ x.status \in {"queued", "cancelled", "waiting_reply"}
    BY ONLY <2>2
  <2> QED BY Zenon, <1>4, <2>1, <2>3 DEF SameStep, x
<1>5. CASE x = [m[i] EXCEPT !.status = "cancelled"]
  <2>1. /\ x \in StepType /\ x.parent = m[i].parent /\ x.mode = m[i].mode /\ x.ret = m[i].ret
        /\ x.agent = m[i].agent /\ x.status = "cancelled" /\ x.packet = m[i].packet
    BY ONLY <1>0, <1>5 DEF StepType, StepStatuses, Final
  <2>2. m[i].status \notin Final /\ x.status # "queued"
    BY <2>1 DEF Final
  <2> QED BY Zenon, <2>1, <2>2 DEF SameStep, x
<1>6. CASE ready /\ x = [m[i] EXCEPT !.status = "queued", !.packet = answers]
  <2>1. /\ x \in StepType /\ x.parent = m[i].parent /\ x.mode = m[i].mode /\ x.ret = m[i].ret
        /\ x.agent = m[i].agent /\ x.status = "queued" /\ x.packet = answers
    BY ONLY <1>0, <1>3, <1>6 DEF StepType, StepStatuses, Final
  <2>2. m[i].status \notin Final
    BY DEF Final
  <2> QED BY Zenon, <1>1, <1>6, <2>1, <2>2 DEF SameStep, x
<1> QED BY Zenon, <1>2, <1>4, <1>5, <1>6

LEMMA MixRows ==
  ASSUME NEW s, Rows(s), NEW r, NEW i \in 1 .. Len(s),
         \A j \in 1 .. Len(s) : j < i => r[j] \in StepType /\ SameStep(s[j], r[j])
  PROVE  /\ Rows(Mix(s, r, i)) /\ Len(Mix(s, r, i)) = Len(s) /\ Mix(s, r, i)[i] = s[i]
<1>0. DOMAIN s = 1 .. Len(s) /\ \A j \in 1 .. Len(s) : s[j] \in StepType
  BY Zenon, RowsTree
<1>1. ~(i < i)
  OBVIOUS
<1>2. ASSUME NEW j \in 1 .. Len(s)
      PROVE  Mix(s, r, i)[j] \in StepType /\ SameStep(s[j], Mix(s, r, i)[j])
  <2>1. Mix(s, r, i)[j] = IF j < i THEN r[j] ELSE s[j]
    BY Zenon, <1>0 DEF Mix
  <2>2. SameStep(s[j], s[j])
    BY Zenon DEF SameStep
  <2> QED BY Zenon, <1>0, <2>1, <2>2
<1>3. Mix(s, r, i)[i] = s[i]
  BY Zenon, <1>0, <1>1 DEF Mix
<1>4. DOMAIN Mix(s, r, i) = 1 .. Len(s) /\ Mix(s, r, i) = [j \in 1 .. Len(s) |-> Mix(s, r, i)[j]]
  BY Zenon, <1>0 DEF Mix
<1>5. Mix(s, r, i) \in [1 .. Len(s) -> StepType]
  BY ONLY <1>2, <1>4
<1> QED BY Zenon, <1>2, <1>3, <1>5, RowByRow

LEMMA ReleasedRows ==
  ASSUME NEW s, Rows(s)
  PROVE  Rows(Released(s)) /\ Len(Released(s)) = Len(s) /\ Grown(s, Released(s))
<1> DEFINE r == Released(s)
           Fine(j) == r[j] \in StepType /\ SameStep(s[j], r[j])
           S == {k \in Nat : \A j \in 1 .. Len(s) : j =< k => Fine(j)}
<1>0. Len(s) \in Nat /\ Tree(s) /\ DOMAIN s = 1 .. Len(s) /\ \A j \in 1 .. Len(s) : s[j] \in StepType
  BY Zenon, RowsTree
<1>r. DOMAIN r = 1 .. Len(s) /\ \A i \in 1 .. Len(s) : r[i] = PassAt(s, r, i)
  BY Zenon, <1>0, ReleasedStep
<1> HIDE DEF r
<1>1. 0 \in S
  <2>1. \A j \in 1 .. Len(s) : ~(j =< 0)
    BY <1>0
  <2> QED BY Zenon, <2>1
<1>2. ASSUME NEW k \in Nat, k \in S PROVE k + 1 \in S
  <2> SUFFICES ASSUME NEW j \in 1 .. Len(s), j = k + 1 PROVE Fine(j)
    <3>1. k + 1 \in Nat /\ \A j \in 1 .. Len(s) : j =< k + 1 => j =< k \/ j = k + 1
      BY <1>0
    <3> QED BY Zenon, <1>2, <3>1
  <2>1. \A i \in 1 .. Len(s) : i < j => i =< k
    OBVIOUS
  <2>2. \A i \in 1 .. Len(s) : i < j => Fine(i)
    BY Zenon, <1>2, <2>1
  <2>3. Rows(Mix(s, r, j)) /\ Len(Mix(s, r, j)) = Len(s) /\ Mix(s, r, j)[j] = s[j]
    BY Zenon, <2>2, MixRows
  <2>4. CASE s[j].status = "waiting_reply"
    <3>1. r[j] = ReleaseOne(Mix(s, r, j), j)
      BY Zenon, <1>r, <2>4 DEF PassAt
    <3>2. j \in 1 .. Len(Mix(s, r, j)) /\ Mix(s, r, j)[j].status = "waiting_reply"
      BY Zenon, <2>3, <2>4
    <3>3. r[j] \in StepType /\ SameStep(Mix(s, r, j)[j], r[j])
      BY Zenon, <2>3, <3>1, <3>2, ReleasedOne
    <3> QED BY Zenon, <2>3, <3>3
  <2>5. CASE s[j].status # "waiting_reply"
    <3>1. r[j] = s[j]
      BY Zenon, <1>r, <2>5 DEF PassAt
    <3> QED BY Zenon, <1>0, <3>1 DEF SameStep
  <2> QED BY Zenon, <2>4, <2>5
<1>3. Len(s) \in S
  <2> HIDE DEF S
  <2>1. Nat \subseteq S
    BY Zenon, <1>1, <1>2, SetInduction
  <2> QED BY Zenon, <1>0, <2>1
<1>4. \A j \in 1 .. Len(s) : Fine(j)
  <2>1. \A j \in 1 .. Len(s) : j =< Len(s)
    BY <1>0
  <2> QED BY Zenon, <1>3, <2>1
<1>5. r \in [1 .. Len(s) -> StepType]
  <2>1. r = [j \in 1 .. Len(s) |-> r[j]]
    BY Zenon, <1>r, ReleasedStep DEF Released, r
  <2> QED BY ONLY <1>4, <2>1
<1> QED BY Zenon, <1>4, <1>5, RowByRow DEF r

\* What the pass frees it frees in time, and gives answers that stand.
LEMMA ReleasedFaithful ==
  ASSUME NEW s, Rows(s), NEW i \in 1 .. Len(s)
  PROVE  \/ Released(s)[i] = s[i]
         \/ /\ s[i].status = "waiting_reply"
            /\ Released(s)[i].status \in {"queued", "cancelled", "waiting_reply"}
            /\ Released(s)[i].ret /\ Released(s)[i].status = "queued" => OnTime(Released(s), i)
            /\ \/ Released(s)[i].packet = s[i].packet
               \/ \A j \in Released(s)[i].packet : j \in 1 .. Len(s) /\ Complete(Released(s), j)
<1> DEFINE r == Released(s)
           m == Mix(s, r, i)
<1>0. Len(s) \in Nat /\ Tree(s) /\ DOMAIN s = 1 .. Len(s)
  BY Zenon, RowsTree
<1>1. Rows(r) /\ Len(r) = Len(s) /\ Grown(s, r) /\ DOMAIN r = 1 .. Len(s)
  BY Zenon, <1>0, ReleasedRows, ReleasedStep
<1>2. \A j \in 1 .. Len(s) : r[j] \in StepType /\ SameStep(s[j], r[j])
  BY Zenon, <1>1, RowsTree DEF Grown
<1>3. r[i] = PassAt(s, r, i)
  BY Zenon, <1>0, ReleasedStep
<1> SUFFICES ASSUME s[i].status = "waiting_reply"
             PROVE  /\ r[i].status \in {"queued", "cancelled", "waiting_reply"}
                    /\ r[i].ret /\ r[i].status = "queued" => OnTime(r, i)
                    /\ \/ r[i].packet = s[i].packet
                       \/ \A j \in r[i].packet : j \in 1 .. Len(s) /\ Complete(r, j)
  BY Zenon, <1>3 DEF PassAt
<1> HIDE DEF r
<1>4. Rows(m) /\ Len(m) = Len(s) /\ m[i] = s[i]
  BY Zenon, <1>2, MixRows
<1>5. Grown(m, r)
  <2>1. ASSUME NEW j \in 1 .. Len(s) PROVE SameStep(m[j], r[j])
    <3>1. m[j] = IF j < i THEN r[j] ELSE s[j]
      BY Zenon, <1>0 DEF Mix
    <3>2. SameStep(r[j], r[j])
      BY Zenon DEF SameStep
    <3> QED BY Zenon, <1>2, <3>1, <3>2
  <2>2. Len(m) =< Len(r) /\ \A j \in (Len(m) + 1) .. Len(r) : FALSE
    <3> HIDE DEF m
    <3> QED BY ONLY <1>0, <1>1, <1>4
  <2> HIDE DEF m
  <2> QED BY Zenon, <1>4, <2>1, <2>2 DEF Grown
<1>6. r[i] = ReleaseOne(m, i)
  BY Zenon, <1>3 DEF PassAt
<1> HIDE DEF m
<1>7. i \in 1 .. Len(m) /\ m[i].status = "waiting_reply" /\ m[i].parent = r[i].parent /\ m[i].packet = s[i].packet
  BY Zenon, <1>2, <1>4 DEF SameStep
<1>8. /\ r[i].status = "queued" => OnTime(m, i)
      /\ r[i].status \in {"queued", "cancelled", "waiting_reply"}
      /\ r[i].packet = m[i].packet \/ \A j \in r[i].packet : j \in 1 .. Len(m) /\ Complete(m, j)
  BY Zenon, <1>4, <1>6, <1>7, ReleasedOne
<1>9. Tree(m) /\ Tree(r)
  BY Zenon, <1>1, <1>4, RowsTree
<1>10. ASSUME r[i].ret, r[i].status = "queued" PROVE OnTime(r, i)
  <2>1. m[i].parent # 0
    BY Zenon, <1>1, <1>7, <1>10 DEF Rows
  <2> QED BY Zenon, <1>5, <1>7, <1>8, <1>9, <1>10, <2>1, GrownOnTime
<1>11. \A j \in 1 .. Len(m) : Complete(m, j) => Complete(r, j)
  BY Zenon, <1>5, <1>9, GrownComplete
<1> QED BY Zenon, <1>4, <1>7, <1>8, <1>10, <1>11

-----------------------------------------------------------------------------
(* The promises of a round, said of its rows. *)
Live == {"queued", "running", "cancel_requested", "succeeded"}

Faithful(s) ==
  \A i \in 1 .. Len(s) : /\ s[i].ret /\ s[i].status \in Live => OnTime(s, i)
                         /\ \A j \in s[i].packet : j \in 1 .. Len(s) /\ Complete(s, j)

KeptRow(s, t, i) ==
  /\ t[i].ret /\ t[i].status \in Live => s[i].status \in Live \/ OnTime(t, i)
  /\ \/ t[i].packet = s[i].packet
     \/ \A j \in t[i].packet : j \in 1 .. Len(t) /\ Complete(t, j)
NewRow(x) == x.packet = {} /\ (x.ret => x.status \notin Live)

LEMMA FaithfulKept ==
  ASSUME NEW s, Rows(s), Faithful(s), NEW t, Rows(t), Grown(s, t),
         \A i \in 1 .. Len(s) : KeptRow(s, t, i),
         \A i \in (Len(s) + 1) .. Len(t) : NewRow(t[i])
  PROVE  Faithful(t)
<1>0. Tree(s) /\ Tree(t) /\ Len(s) \in Nat /\ Len(t) \in Nat /\ Len(s) =< Len(t)
  BY Zenon, RowsTree DEF Grown
<1>1. \A i \in 1 .. Len(t) : i \in 1 .. Len(s) \/ i \in (Len(s) + 1) .. Len(t)
  BY ONLY <1>0
<1>2. \A i \in 1 .. Len(s) : i \in 1 .. Len(t)
  BY ONLY <1>0
<1>3. ASSUME NEW i \in 1 .. Len(s), t[i].ret, t[i].status \in Live PROVE OnTime(t, i)
  <2> SUFFICES ASSUME s[i].status \in Live PROVE OnTime(t, i)
    BY Zenon, <1>3 DEF KeptRow
  <2>1. s[i].ret /\ s[i].parent # 0
    BY Zenon, <1>3 DEF Grown, SameStep, Rows
  <2>2. OnTime(s, i)
    BY Zenon, <2>1 DEF Faithful
  <2> QED BY Zenon, <1>0, <2>1, <2>2, GrownOnTime
<1>4. ASSUME NEW i \in 1 .. Len(s), NEW j \in t[i].packet PROVE j \in 1 .. Len(t) /\ Complete(t, j)
  <2> SUFFICES ASSUME t[i].packet = s[i].packet PROVE j \in 1 .. Len(t) /\ Complete(t, j)
    BY Zenon, <1>4 DEF KeptRow
  <2>1. j \in 1 .. Len(s) /\ Complete(s, j)
    BY Zenon, <1>4 DEF Faithful
  <2> QED BY Zenon, <1>0, <1>2, <2>1, GrownComplete
<1>5. ASSUME NEW i \in (Len(s) + 1) .. Len(t)
      PROVE  /\ t[i].ret /\ t[i].status \in Live => OnTime(t, i)
             /\ \A j \in t[i].packet : j \in 1 .. Len(t) /\ Complete(t, j)
  BY Zenon DEF NewRow
<1> QED BY Zenon, <1>1, <1>3, <1>4, <1>5 DEF Faithful

AskedBy(s, i) == {c \in Children(s, i) : s[c].mode \in {"address", "consult"} /\ ~s[c].ret}
Returns(s, i) == {c \in Children(s, i) : s[c].ret}
OneTurn(s, i) == \/ AskedBy(s, i) = {} /\ Returns(s, i) = {}
                 \/ AskedBy(s, i) # {} /\ \E c : Returns(s, i) = {c}
Private(s) == \A i \in 1 .. Len(s) : s[i].parent # 0 /\ s[s[i].parent].mode = "consult" => s[i].mode = "consult"

Sound(s) == Rows(s) /\ Faithful(s) /\ Private(s) /\ \A i \in 1 .. Len(s) : OneTurn(s, i)

\* Rows that only changed their statuses, or were given answers, ask as before.
LEMMA SameTurns ==
  ASSUME NEW s, Sound(s), NEW t, Rows(t), Len(t) = Len(s), Grown(s, t)
  PROVE  Private(t) /\ \A i \in 1 .. Len(t) : OneTurn(t, i)
<1>0. DOMAIN s = 1 .. Len(s) /\ DOMAIN t = 1 .. Len(s) /\ Rows(s) /\ Len(s) \in Nat
  BY Zenon, RowsTree DEF Sound
<1>1. \A i \in 1 .. Len(s) : t[i].parent = s[i].parent /\ t[i].mode = s[i].mode /\ t[i].ret = s[i].ret
  BY Zenon DEF Grown, SameStep
<1>2. \A i : Children(t, i) = Children(s, i)
  BY Zenon, <1>0, <1>1 DEF Children
<1>c. \A i : \A c \in Children(s, i) : c \in 1 .. Len(s)
  BY Zenon, <1>0 DEF Children
<1>3. \A i : AskedBy(t, i) = AskedBy(s, i) /\ Returns(t, i) = Returns(s, i)
  <2> SUFFICES ASSUME NEW i PROVE AskedBy(t, i) = AskedBy(s, i) /\ Returns(t, i) = Returns(s, i)
    OBVIOUS
  <2>1. \A c : c \in AskedBy(t, i) <=> c \in AskedBy(s, i)
    BY Zenon, <1>1, <1>2, <1>c DEF AskedBy
  <2>2. \A c : c \in Returns(t, i) <=> c \in Returns(s, i)
    BY Zenon, <1>1, <1>2, <1>c DEF Returns
  <2>3. \A c \in AskedBy(t, i) \cup AskedBy(s, i) : c \in AskedBy(t, i) /\ c \in AskedBy(s, i)
    BY Zenon, <2>1
  <2> QED BY ONLY <2>1, <2>2
<1>4. \A i \in 1 .. Len(t) : OneTurn(t, i)
  BY Zenon, <1>3 DEF OneTurn, Sound
<1>5. \A i \in 1 .. Len(s) : s[i].parent # 0 => s[i].parent \in 1 .. Len(s)
  <2> SUFFICES ASSUME NEW i \in 1 .. Len(s), s[i].parent # 0 PROVE s[i].parent \in 1 .. Len(s)
    OBVIOUS
  <2>1. s[i].parent \in 0 .. (i - 1)
    BY Zenon, <1>0 DEF Rows
  <2> QED BY ONLY <1>0, <2>1, i \in 1 .. Len(s), s[i].parent # 0
<1>6. ASSUME NEW i \in 1 .. Len(t), t[i].parent # 0, t[t[i].parent].mode = "consult"
      PROVE  t[i].mode = "consult"
  <2>1. s[i].parent # 0 /\ s[s[i].parent].mode = "consult" /\ i \in 1 .. Len(s)
    BY Zenon, <1>1, <1>5, <1>6
  <2>2. s[i].mode = "consult"
    BY Zenon, <2>1 DEF Sound, Private
  <2> QED BY Zenon, <1>1, <2>1, <2>2
<1> QED BY Zenon, <1>4, <1>6 DEF Private

\* The rows after a pass of release_replies().
LEMMA SoundReleased ==
  ASSUME NEW s, Sound(s)
  PROVE  Sound(Released(s)) /\ Len(Released(s)) = Len(s)
<1> DEFINE r == Released(s)
<1>0. Rows(s) /\ Faithful(s)
  BY Zenon DEF Sound
<1>1. Rows(r) /\ Len(r) = Len(s) /\ Grown(s, r)
  BY Zenon, <1>0, ReleasedRows
<1>2. ASSUME NEW i \in 1 .. Len(s) PROVE KeptRow(s, r, i)
  <2>1. CASE r[i] = s[i]
    BY Zenon, <2>1 DEF KeptRow
  <2>2. CASE /\ r[i].status \in {"queued", "cancelled", "waiting_reply"}
             /\ r[i].ret /\ r[i].status = "queued" => OnTime(r, i)
             /\ r[i].packet = s[i].packet \/ \A j \in r[i].packet : j \in 1 .. Len(s) /\ Complete(r, j)
    <3>1. r[i].status \in Live => r[i].status = "queued"
      BY ONLY <2>2 DEF Live
    <3> HIDE DEF r
    <3> QED BY Zenon, <1>1, <2>2, <3>1 DEF KeptRow
  <2> QED BY Zenon, <1>0, <2>1, <2>2, ReleasedFaithful
<1>3. \A i \in (Len(s) + 1) .. Len(r) : NewRow(r[i])
  <2>1. Len(s) \in Nat
    BY Zenon, <1>0, RowsTree
  <2>2. \A i \in (Len(s) + 1) .. Len(s) : FALSE
    BY ONLY <2>1
  <2> QED BY Zenon, <1>1, <2>2
<1> HIDE DEF r
<1>4. Faithful(r)
  BY Zenon, <1>0, <1>1, <1>2, <1>3, FaithfulKept
<1>5. Private(r) /\ \A i \in 1 .. Len(r) : OneTurn(r, i)
  BY Zenon, <1>1, SameTurns
<1> QED BY Zenon, <1>1, <1>4, <1>5 DEF Sound, r

\* y is row x with another status: what is over stays, and nothing is freed.
Restatus(x, y) ==
  /\ SameStep(x, y) /\ y.packet = x.packet
  /\ y.status \in Live => x.status \in Live

LEMMA StatusRow ==
  ASSUME NEW x \in StepType, NEW w \in StepStatuses, x.status \in Final => w = x.status,
         w \in Live => x.status \in Live, NEW y, y = [x EXCEPT !.status = w]
  PROVE  y \in StepType /\ Restatus(x, y) /\ y.status = w
<1>1. /\ y \in StepType /\ y.parent = x.parent /\ y.mode = x.mode /\ y.ret = x.ret
      /\ y.agent = x.agent /\ y.status = w /\ y.packet = x.packet
  BY ONLY x \in StepType, w \in StepStatuses, y = [x EXCEPT !.status = w] DEF StepType
<1>2. Restatus(x, y)
  BY Zenon, <1>1 DEF Restatus, SameStep
<1> QED BY Zenon, <1>1, <1>2

LEMMA SoundRestatus ==
  ASSUME NEW s, Sound(s), NEW t \in [1 .. Len(s) -> StepType],
         \A i \in 1 .. Len(s) : Restatus(s[i], t[i])
  PROVE  Sound(t) /\ Len(t) = Len(s)
<1>0. Rows(s) /\ Faithful(s)
  BY Zenon DEF Sound
<1>1. Rows(t) /\ Len(t) = Len(s) /\ Grown(s, t)
  BY Zenon, <1>0, RowByRow DEF Restatus
<1>2. \A i \in 1 .. Len(s) : KeptRow(s, t, i)
  BY Zenon DEF KeptRow, Restatus
<1>3. \A i \in (Len(s) + 1) .. Len(t) : NewRow(t[i])
  <2>1. Len(s) \in Nat
    BY Zenon, <1>0, RowsTree
  <2>2. \A i \in (Len(s) + 1) .. Len(s) : FALSE
    BY ONLY <2>1
  <2> QED BY Zenon, <1>1, <2>2
<1>4. Faithful(t)
  BY Zenon, <1>0, <1>1, <1>2, <1>3, FaithfulKept
<1>5. Private(t) /\ \A i \in 1 .. Len(t) : OneTurn(t, i)
  BY Zenon, <1>1, SameTurns
<1> QED BY Zenon, <1>1, <1>4, <1>5 DEF Sound

WithStatus(s, i, w) == [s EXCEPT ![i].status = w]

LEMMA SoundOneStatus ==
  ASSUME NEW s, Sound(s), NEW i \in 1 .. Len(s), NEW w \in StepStatuses,
         s[i].status \in Final => w = s[i].status, w \in Live => s[i].status \in Live,
         NEW t, t = WithStatus(s, i, w)
  PROVE  /\ Sound(t) /\ Len(t) = Len(s) /\ t[i].status = w
         /\ \A j \in 1 .. Len(s) : j # i => t[j] = s[j]
<1> DEFINE x == [s[i] EXCEPT !.status = w]
<1>0. DOMAIN s = 1 .. Len(s) /\ \A j \in 1 .. Len(s) : s[j] \in StepType
  BY Zenon, RowsTree DEF Sound
<1>1. x \in StepType /\ Restatus(s[i], x) /\ x.status = w
  BY Zenon, <1>0, StatusRow
<1>2. t = [s EXCEPT ![i] = x]
  BY Zenon DEF WithStatus
<1> HIDE DEF x
<1>3. t[i] = x /\ DOMAIN t = 1 .. Len(s) /\ \A j \in 1 .. Len(s) : j # i => t[j] = s[j]
  BY Zenon, <1>0, <1>2
<1>4. ASSUME NEW j \in 1 .. Len(s) PROVE t[j] \in StepType /\ Restatus(s[j], t[j])
  <2>1. Restatus(s[j], s[j])
    BY Zenon DEF Restatus, SameStep
  <2> QED BY Zenon, <1>0, <1>1, <1>3, <2>1
<1>5. t \in [1 .. Len(s) -> StepType]
  <2>1. t = [j \in 1 .. Len(s) |-> t[j]]
    BY Zenon, <1>0, <1>2
  <2> QED BY ONLY <1>4, <2>1
<1>6. Sound(t) /\ Len(t) = Len(s)
  BY Zenon, <1>4, <1>5, SoundRestatus
<1> QED BY Zenon, <1>1, <1>3, <1>6

-----------------------------------------------------------------------------
\* Who speaks is speaking, in a round led by one of the room's members.
Speaking == cur # 0 => phase = "running" /\ steps[cur].status \in {"running", "cancel_requested"}
Staffed == lead \in members /\ members \subseteq Agents
DialogueTyped == /\ phase \in {"running", "reconciling", "finished"} /\ cur \in 0 .. Len(steps)
                 /\ asking \in BOOLEAN /\ losses \in 0 .. MaxLosses
DialogueInv == Sound(steps) /\ Speaking /\ Staffed /\ DialogueTyped

LEMMA InvRows ==
  ASSUME DialogueInv
  PROVE  /\ Rows(steps) /\ Len(steps) \in Nat /\ Len(steps) =< Cap /\ Cap \in Nat /\ DOMAIN steps = 1 .. Len(steps)
         /\ \A i \in 1 .. Len(steps) : steps[i] \in StepType
         /\ cur # 0 => cur \in 1 .. Len(steps)
<1>1. Rows(steps) /\ cur \in 0 .. Len(steps)
  BY Zenon DEF DialogueInv, Sound, DialogueTyped
<1>2. Len(steps) \in Nat
  BY Zenon, <1>1, RowsTree
<1>3. cur # 0 => cur \in 1 .. Len(steps)
  BY ONLY <1>1, <1>2
<1> QED BY Zenon, <1>1, <1>3, RowsTree

LEMMA FirstStep ==
  ASSUME DialogueInit PROVE DialogueInv
<1>1. /\ lead \in Agents /\ members \subseteq Agents /\ lead \in members
      /\ phase = "running" /\ cur = 0 /\ asking = FALSE /\ losses = 0
  BY Zenon DEF DialogueInit
<1>2. PICK a \in members : steps = <<NewStep(a, "address", 0, OwnerText)>>
  BY Zenon DEF DialogueInit
<1> DEFINE x == NewStep(a, "address", 0, OwnerText)
<1>3. Cap \in Nat /\ 1 =< Cap /\ MaxLosses \in Nat
  BY DialogueAssumption
<1>4. /\ x \in StepType /\ x.parent = 0 /\ x.ret = FALSE /\ x.packet = {}
  <2>1. a \in Agents
    BY Zenon, <1>1
  <2> QED BY ONLY <1>3, <2>1 DEF NewStep, StepType, StepStatuses, Modes, Final
<1> HIDE DEF x
<1>5. steps \in Seq(StepType) /\ Len(steps) = 1 /\ steps[1] = x /\ \A i \in DOMAIN steps : i = 1
  <2>1. steps = <<x>>
    BY Zenon, <1>2 DEF x
  <2> QED BY ONLY <1>4, <2>1
<1>6. Rows(steps)
  <2>1. 1 \in 1 .. Cap
    BY ONLY <1>3
  <2>2. 0 \in 0 .. (1 - 1)
    OBVIOUS
  <2>3. \A i \in 1 .. Len(steps) : i = 1
    BY ONLY <1>5
  <2>4. steps[1].parent \in 0 .. (1 - 1) /\ ~steps[1].ret
    BY Zenon, <1>4, <1>5, <2>2
  <2> QED BY Zenon, <1>5, <2>1, <2>3, <2>4 DEF Rows
<1>7. \A i : i \in 1 .. Len(steps) => i = 1
  BY ONLY <1>5
<1>8. Faithful(steps)
  BY Zenon, <1>4, <1>5, <1>7 DEF Faithful
<1>9. Private(steps)
  BY Zenon, <1>4, <1>5, <1>7 DEF Private
<1>10. \A c \in DOMAIN steps : steps[c].parent # 1
  BY <1>4, <1>5
<1>11. Children(steps, 1) = {}
  BY Zenon, <1>10 DEF Children
<1>12. \A i \in 1 .. Len(steps) : OneTurn(steps, i)
  BY Zenon, <1>7, <1>11 DEF OneTurn, AskedBy, Returns
<1>13. Speaking /\ Staffed
  BY Zenon, <1>1 DEF Speaking, Staffed
<1>14. DialogueTyped
  <2>1. 0 \in 0 .. 1 /\ 0 \in 0 .. MaxLosses
    BY ONLY <1>3
  <2> QED BY <1>1, <1>5, <2>1 DEF DialogueTyped
<1> QED BY Zenon, <1>6, <1>8, <1>9, <1>12, <1>13, <1>14 DEF DialogueInv, Sound

LEMMA PickKeeps ==
  ASSUME DialogueInv, PickStep PROVE DialogueInv'
<1> DEFINE s == Released(steps)
<1>0. Sound(s) /\ Len(s) = Len(steps) /\ Len(steps) \in Nat /\ DOMAIN s = 1 .. Len(steps)
  <2>1. Sound(s) /\ Len(s) = Len(steps)
    BY Zenon, SoundReleased DEF DialogueInv
  <2> QED BY Zenon, <2>1, RowsTree, InvRows DEF Sound
<1> HIDE DEF s
<1>1. CASE steps' = s /\ phase' = "finished" /\ UNCHANGED <<cur, members, lead, asking, losses>> /\ cur = 0
  <2>1. Sound(steps') /\ Len(steps') = Len(steps) /\ Speaking' /\ Staffed'
    BY Zenon, <1>0, <1>1 DEF Speaking, Staffed, DialogueInv
  <2>2. DialogueTyped'
    BY Zenon, <1>1, <2>1 DEF DialogueInv, DialogueTyped
  <2> QED BY Zenon, <2>1, <2>2 DEF DialogueInv
<1>2. ASSUME NEW i \in 1 .. Len(steps), NEW w \in {"running", "cancelled"}, s[i].status = "queued",
             steps' = [s EXCEPT ![i].status = w], (cur' = cur /\ cur = 0) \/ (cur' = i /\ w = "running"),
             phase = "running", UNCHANGED <<phase, members, lead, asking, losses>>
      PROVE  DialogueInv'
  <2>1. /\ w \in StepStatuses /\ i \in 1 .. Len(s)
        /\ s[i].status \in Final => w = s[i].status
        /\ w \in Live => s[i].status \in Live
    <3>1. w \in StepStatuses /\ s[i].status \notin Final /\ s[i].status \in Live
      BY ONLY <1>2 DEF StepStatuses, Final, Live
    <3> QED BY Zenon, <1>0, <3>1
  <2>2. Sound(steps') /\ Len(steps') = Len(steps) /\ steps'[i].status = w
    <3>1. Sound(s) /\ Len(s) = Len(steps) /\ steps' = WithStatus(s, i, w)
      BY Zenon, <1>0, <1>2 DEF WithStatus
    <3> QED BY ONLY <2>1, <3>1, SoundOneStatus
  <2>3. Speaking' /\ Staffed'
    <3>1. cur' # 0 => phase' = "running" /\ steps'[cur'].status = "running"
      BY Zenon, <1>2, <2>2
    <3>2. Speaking'
      BY ONLY <3>1 DEF Speaking
    <3> QED BY Zenon, <1>2, <3>2 DEF Staffed, DialogueInv
  <2>4. cur' \in 0 .. Len(steps')
    BY ONLY <1>0, <1>2, <2>2
  <2>5. DialogueTyped'
    BY Zenon, <1>2, <2>4 DEF DialogueInv, DialogueTyped
  <2> QED BY Zenon, <2>2, <2>3, <2>5 DEF DialogueInv
<1>3. \/ steps' = s /\ phase' = "finished" /\ UNCHANGED <<cur, members, lead, asking, losses>> /\ cur = 0
      \/ \E i \in {j \in DOMAIN s : s[j].status = "queued"} :
           /\ cur = 0 /\ phase = "running" /\ UNCHANGED <<phase, members, lead, asking, losses>>
           /\ \/ steps' = [s EXCEPT ![i].status = "cancelled"] /\ cur' = cur
              \/ steps' = [s EXCEPT ![i].status = "running"] /\ cur' = i
  BY Zenon DEF PickStep, s
<1> QED BY Zenon, <1>0, <1>1, <1>2, <1>3

\* One row gets another status, and who speaks still does, or no one does.
LEMMA OneStatusKeeps ==
  ASSUME DialogueInv, NEW i \in 1 .. Len(steps), NEW w \in StepStatuses,
         steps[i].status \in Final => w = steps[i].status, w \in Live => steps[i].status \in Live,
         steps' = WithStatus(steps, i, w),
         cur' = 0 \/ (cur' = cur /\ (cur = i => w \in {"running", "cancel_requested"})),
         UNCHANGED <<members, lead, asking, losses, phase>>
  PROVE  DialogueInv'
<1>0. Sound(steps) /\ Len(steps) \in Nat /\ cur \in 0 .. Len(steps) /\ (cur # 0 => cur \in 1 .. Len(steps))
  BY Zenon, InvRows DEF DialogueInv, DialogueTyped
<1>1. /\ Sound(steps') /\ Len(steps') = Len(steps) /\ steps'[i].status = w
      /\ \A j \in 1 .. Len(steps) : j # i => steps'[j] = steps[j]
  BY ONLY <1>0, SoundOneStatus, i \in 1 .. Len(steps), w \in StepStatuses,
     steps[i].status \in Final => w = steps[i].status, w \in Live => steps[i].status \in Live,
     steps' = WithStatus(steps, i, w)
<1>2. Speaking'
  <2>1. cur' # 0 => cur' = cur /\ cur # 0 /\ cur \in 1 .. Len(steps)
    BY Zenon, <1>0
  <2>2. cur # 0 => phase = "running" /\ steps[cur].status \in {"running", "cancel_requested"}
    BY Zenon DEF DialogueInv, Speaking
  <2> QED BY Zenon, <1>1, <2>1, <2>2 DEF Speaking
<1>3. Staffed'
  BY Zenon DEF DialogueInv, Staffed
<1>4. cur' \in 0 .. Len(steps')
  BY ONLY <1>0, <1>1, cur' = 0 \/ cur' = cur
<1>5. DialogueTyped'
  BY Zenon, <1>4 DEF DialogueInv, DialogueTyped
<1> QED BY Zenon, <1>1, <1>2, <1>3, <1>5 DEF DialogueInv

LEMMA DeliverKeeps ==
  ASSUME DialogueInv, Deliver PROVE DialogueInv'
<1> DEFINE w == IF steps[cur].status = "cancel_requested" THEN "cancelled" ELSE "succeeded"
<1>1. cur # 0 /\ cur' = 0 /\ steps' = WithStatus(steps, cur, w) /\ UNCHANGED <<members, lead, phase, asking, losses>>
  BY Zenon DEF Deliver, WithStatus
<1>2. cur \in 1 .. Len(steps) /\ steps[cur].status \in {"running", "cancel_requested"}
  BY Zenon, <1>1, InvRows DEF DialogueInv, Speaking
<1>3. /\ w \in StepStatuses /\ steps[cur].status \notin Final /\ steps[cur].status \in Live
  BY ONLY <1>2 DEF StepStatuses, Final, Live
<1> HIDE DEF w
<1> QED BY Zenon, <1>1, <1>2, <1>3, OneStatusKeeps

LEMMA StoppedStatus ==
  ASSUME NEW st \in StepStatuses
  PROVE  /\ Stopped(st) \in StepStatuses /\ (st \in Final => Stopped(st) = st)
         /\ (Stopped(st) \in Live => st \in Live)
         /\ (st \in {"running", "cancel_requested"} => Stopped(st) \in {"running", "cancel_requested"})
  BY DEF Stopped, StepStatuses, Final, Live

LEMMA StatusTyped ==
  ASSUME NEW x \in StepType PROVE x.status \in StepStatuses
  BY DEF StepType

LEMMA StopReplyKeeps ==
  ASSUME DialogueInv, NEW i \in 1 .. Len(steps), StopReply(i) PROVE DialogueInv'
<1> DEFINE w == Stopped(steps[i].status)
<1>1. steps' = WithStatus(steps, i, w) /\ UNCHANGED <<members, lead, phase, cur, asking, losses>>
  BY Zenon DEF StopReply, WithStatus
<1>2. steps[i].status \in StepStatuses
  BY Zenon, InvRows, StatusTyped
<1>3. /\ w \in StepStatuses /\ (steps[i].status \in Final => w = steps[i].status)
      /\ (w \in Live => steps[i].status \in Live)
      /\ (steps[i].status \in {"running", "cancel_requested"} => w \in {"running", "cancel_requested"})
  BY Zenon, <1>2, StoppedStatus
<1>4. cur = i => steps[i].status \in {"running", "cancel_requested"}
  <2>1. i # 0
    BY InvRows
  <2> QED BY Zenon, <2>1 DEF DialogueInv, Speaking
<1> HIDE DEF w
<1> QED BY Zenon, <1>1, <1>3, <1>4, OneStatusKeeps

\* Every row may get another status.
LEMMA StatusesKeep ==
  ASSUME DialogueInv, steps' = [i \in DOMAIN steps |-> steps'[i]],
         \A i \in 1 .. Len(steps) : /\ steps'[i] \in StepType /\ Restatus(steps[i], steps'[i])
                                    /\ cur' = i => steps'[i].status \in {"running", "cancel_requested"},
         cur' \in 0 .. Len(steps), phase' \in {"running", "reconciling", "finished"},
         cur' # 0 => phase' = "running", UNCHANGED <<members, lead, asking, losses>>
  PROVE  DialogueInv'
<1>0. Sound(steps) /\ Len(steps) \in Nat /\ DOMAIN steps = 1 .. Len(steps)
  BY Zenon, InvRows DEF DialogueInv
<1>1. steps' \in [1 .. Len(steps) -> StepType]
  <2>1. steps' = [i \in 1 .. Len(steps) |-> steps'[i]] /\ \A i \in 1 .. Len(steps) : steps'[i] \in StepType
    BY Zenon, <1>0
  <2> QED BY ONLY <2>1
<1>2. Sound(steps') /\ Len(steps') = Len(steps)
  BY Zenon, <1>0, <1>1, SoundRestatus
<1>3. cur' # 0 => cur' \in 1 .. Len(steps)
  BY ONLY <1>0, cur' \in 0 .. Len(steps)
<1>4. Speaking' /\ Staffed'
  BY Zenon, <1>3 DEF Speaking, Staffed, DialogueInv
<1>5. DialogueTyped'
  BY Zenon, <1>2 DEF DialogueInv, DialogueTyped
<1> QED BY Zenon, <1>2, <1>4, <1>5 DEF DialogueInv

LEMMA StopRepliesKeeps ==
  ASSUME DialogueInv, StopReplies PROVE DialogueInv'
<1>0. DOMAIN steps = 1 .. Len(steps) /\ (cur # 0 => cur \in 1 .. Len(steps)) /\ Len(steps) \in Nat
  BY Zenon, InvRows
<1>1. /\ steps' = [i \in DOMAIN steps |-> [steps[i] EXCEPT !.status = Stopped(steps[i].status)]]
      /\ UNCHANGED <<members, lead, phase, cur, asking, losses>>
  BY Zenon DEF StopReplies
<1>2. steps' = [i \in DOMAIN steps |-> steps'[i]]
  BY Zenon, <1>1
<1>3. ASSUME NEW i \in 1 .. Len(steps)
      PROVE  /\ steps'[i] \in StepType /\ Restatus(steps[i], steps'[i])
             /\ cur' = i => steps'[i].status \in {"running", "cancel_requested"}
  <2> DEFINE w == Stopped(steps[i].status)
  <2>1. steps'[i] = [steps[i] EXCEPT !.status = w] /\ steps[i] \in StepType
    BY Zenon, <1>0, <1>1, InvRows
  <2>2. /\ w \in StepStatuses /\ (steps[i].status \in Final => w = steps[i].status)
        /\ (w \in Live => steps[i].status \in Live)
        /\ (steps[i].status \in {"running", "cancel_requested"} => w \in {"running", "cancel_requested"})
    BY Zenon, <2>1, StatusTyped, StoppedStatus
  <2>3. cur = i => steps[i].status \in {"running", "cancel_requested"}
    <3>1. i # 0
      BY <1>0
    <3> QED BY Zenon, <3>1 DEF DialogueInv, Speaking
  <2> HIDE DEF w
  <2>4. steps'[i] \in StepType /\ Restatus(steps[i], steps'[i]) /\ steps'[i].status = w
    BY ONLY <2>1, <2>2, StatusRow
  <2> QED BY Zenon, <1>1, <2>2, <2>3, <2>4
<1>4. /\ cur' \in 0 .. Len(steps) /\ phase' \in {"running", "reconciling", "finished"}
      /\ cur' # 0 => phase' = "running"
  BY Zenon, <1>1 DEF DialogueInv, DialogueTyped, Speaking
<1> QED BY Zenon, <1>1, <1>2, <1>3, <1>4, StatusesKeep

LEMMA ResumeKeeps ==
  ASSUME DialogueInv, ResumeRound PROVE DialogueInv'
<1>0. DOMAIN steps = 1 .. Len(steps) /\ Len(steps) \in Nat
  BY Zenon, InvRows
<1>1. /\ steps' = Requeued(steps) /\ UNCHANGED <<members, lead, asking, losses>> /\ phase' = "running"
      /\ cur' = 0 /\ cur' = cur
  <2>1. phase = "reconciling" /\ phase # "running"
    BY DEF ResumeRound
  <2> QED BY Zenon, <2>1 DEF ResumeRound, DialogueInv, Speaking
<1>2. steps' = [i \in DOMAIN steps |->
                 IF steps[i].status = "running" THEN [steps[i] EXCEPT !.status = "queued"] ELSE steps[i]]
  BY Zenon, <1>1 DEF Requeued
<1>3. steps' = [i \in DOMAIN steps |-> steps'[i]]
  BY Zenon, <1>2
<1>4. ASSUME NEW i \in 1 .. Len(steps)
      PROVE  /\ steps'[i] \in StepType /\ Restatus(steps[i], steps'[i])
             /\ cur' = i => steps'[i].status \in {"running", "cancel_requested"}
  <2>1. /\ steps'[i] = IF steps[i].status = "running" THEN [steps[i] EXCEPT !.status = "queued"] ELSE steps[i]
        /\ steps[i] \in StepType
    BY Zenon, <1>0, <1>2, InvRows
  <2>2. cur' # i
    BY ONLY <1>0, <1>1, i \in 1 .. Len(steps)
  <2>3. CASE steps[i].status = "running"
    <3>1. "queued" \in StepStatuses /\ steps[i].status \notin Final /\ steps[i].status \in Live
      BY ONLY <2>3 DEF StepStatuses, Final, Live
    <3> QED BY Zenon, <2>1, <2>2, <2>3, <3>1, StatusRow
  <2>4. CASE steps[i].status # "running"
    BY Zenon, <2>1, <2>2, <2>4 DEF Restatus, SameStep
  <2> QED BY Zenon, <2>3, <2>4
<1>5. /\ cur' \in 0 .. Len(steps) /\ phase' \in {"running", "reconciling", "finished"}
      /\ cur' # 0 => phase' = "running"
  BY <1>0, <1>1
<1> QED BY Zenon, <1>1, <1>3, <1>4, <1>5, StatusesKeep

LEMMA MembersChange ==
  ASSUME Staffed, NEW kind, NEW a \in Agents, ChangeMembers(kind, a) PROVE Staffed'
<1>1. CASE kind = "dismiss"
  <2>1. a # lead /\ members' = members \ {a} /\ lead' = lead
    <3>1. kind # "handoff"
      BY <1>1
    <3> QED BY Zenon, <1>1, <3>1 DEF ChangeMembers, MayDismiss
  <2> QED BY Zenon, <2>1 DEF Staffed
<1>2. CASE kind # "dismiss"
  <2>1. members' = members \cup {a} /\ (lead' = lead \/ lead' = a)
    BY Zenon, <1>2 DEF ChangeMembers
  <2>2. members' \subseteq Agents /\ lead' \in members'
    BY Zenon, <2>1 DEF Staffed
  <2> QED BY Zenon, <2>2 DEF Staffed
<1> QED BY Zenon, <1>1, <1>2

\* Nothing happens to the rows.
LEMMA QuietKeeps ==
  ASSUME DialogueInv, UNCHANGED steps, Staffed', DialogueTyped', cur' = 0 \/ (cur' = cur /\ phase' = phase)
  PROVE  DialogueInv'
<1>1. Sound(steps')
  BY Zenon DEF DialogueInv
<1>2. Speaking'
  BY Zenon DEF DialogueInv, Speaking
<1> QED BY Zenon, <1>1, <1>2 DEF DialogueInv

LEMMA EnsureActiveKeeps ==
  ASSUME DialogueInv, EnsureActive PROVE DialogueInv'
<1>1. asking' \in BOOLEAN /\ UNCHANGED <<members, lead, steps, phase, cur, losses>>
  BY Zenon DEF EnsureActive
<1>2. Staffed' /\ DialogueTyped'
  BY Zenon, <1>1 DEF DialogueInv, Staffed, DialogueTyped
<1> QED BY Zenon, <1>1, <1>2, QuietKeeps

LEMMA AskRefusedKeeps ==
  ASSUME DialogueInv, AskRefused PROVE DialogueInv'
<1>1. asking' \in BOOLEAN /\ UNCHANGED <<members, lead, steps, phase, cur, losses>>
  BY Zenon DEF AskRefused
<1>2. Staffed' /\ DialogueTyped'
  BY Zenon, <1>1 DEF DialogueInv, Staffed, DialogueTyped
<1> QED BY Zenon, <1>1, <1>2, QuietKeeps

LEMMA LoseKeeps ==
  ASSUME DialogueInv, Lose PROVE DialogueInv'
<1>1. /\ asking' \in BOOLEAN /\ UNCHANGED <<members, lead, steps>> /\ phase' = "reconciling" /\ cur' = 0
      /\ losses < MaxLosses /\ losses' = losses + 1
  BY Zenon DEF Lose
<1>2. losses \in 0 .. MaxLosses /\ Len(steps) \in Nat /\ MaxLosses \in Nat
  BY Zenon, InvRows, DialogueAssumption DEF DialogueInv, DialogueTyped
<1>3. losses' \in 0 .. MaxLosses /\ cur' \in 0 .. Len(steps)
  BY ONLY <1>1, <1>2
<1>4. phase' \in {"running", "reconciling", "finished"}
  BY <1>1
<1>5. Staffed' /\ DialogueTyped'
  BY Zenon, <1>1, <1>3, <1>4 DEF DialogueInv, Staffed, DialogueTyped
<1> QED BY Zenon, <1>1, <1>5, QuietKeeps

LEMMA LeadChangesKeeps ==
  ASSUME DialogueInv, NEW kind, NEW a \in Agents, LeadChanges(kind, a) PROVE DialogueInv'
<1>1. asking' \in BOOLEAN /\ UNCHANGED <<steps, phase, cur, losses>> /\ ChangeMembers(kind, a)
  BY Zenon DEF LeadChanges
<1>2. Staffed'
  BY Zenon, <1>1, MembersChange DEF DialogueInv
<1>3. DialogueTyped'
  BY Zenon, <1>1 DEF DialogueInv, DialogueTyped
<1> QED BY Zenon, <1>1, <1>2, <1>3, QuietKeeps

LEMMA MembershipKeeps ==
  ASSUME DialogueInv, NEW kind, NEW a \in Agents, Membership(kind, a) PROVE DialogueInv'
<1>1. UNCHANGED <<steps, phase, cur, asking, losses>> /\ ChangeMembers(kind, a)
  BY Zenon DEF Membership
<1>2. Staffed'
  BY Zenon, <1>1, MembersChange DEF DialogueInv
<1>3. DialogueTyped'
  BY Zenon, <1>1 DEF DialogueInv, DialogueTyped
<1> QED BY Zenon, <1>1, <1>2, <1>3, QuietKeeps

-----------------------------------------------------------------------------
\* collaborate(): the question, and the response turn it may reserve.
Extended(s, t, x) == t = s \o <<x>>
Extended2(s, t, x, y) == t = s \o <<x>> \o <<y>>

LEMMA OneMore ==
  ASSUME NEW s \in Seq(StepType), NEW x \in StepType, NEW t, Extended(s, t, x)
  PROVE  /\ t \in Seq(StepType) /\ Len(t) = Len(s) + 1 /\ t[Len(s) + 1] = x
         /\ \A i \in 1 .. Len(s) : t[i] = s[i]
  BY DEF Extended

LEMMA TwoMore ==
  ASSUME NEW s \in Seq(StepType), NEW x \in StepType, NEW y \in StepType, NEW t, Extended2(s, t, x, y)
  PROVE  /\ t \in Seq(StepType) /\ Len(t) = Len(s) + 2 /\ t[Len(s) + 1] = x /\ t[Len(s) + 2] = y
         /\ \A i \in 1 .. Len(s) : t[i] = s[i]
<1> DEFINE u == s \o <<x>>
<1>1. Extended(s, u, x)
  BY Zenon DEF Extended
<1>2. Extended(u, t, y)
  BY Zenon DEF Extended, Extended2
<1> HIDE DEF u
<1>3. u \in Seq(StepType) /\ Len(u) = Len(s) + 1 /\ u[Len(s) + 1] = x /\ \A i \in 1 .. Len(s) : u[i] = s[i]
  BY ONLY <1>1, OneMore, s \in Seq(StepType), x \in StepType
<1>4. t \in Seq(StepType) /\ Len(t) = Len(u) + 1 /\ t[Len(u) + 1] = y /\ \A i \in 1 .. Len(u) : t[i] = u[i]
  BY ONLY SMTT(60), <1>2, <1>3, OneMore, y \in StepType
<1>5. /\ Len(s) \in Nat /\ Len(t) = Len(s) + 2 /\ Len(u) + 1 = Len(s) + 2 /\ Len(s) + 1 \in 1 .. Len(u)
      /\ \A i \in 1 .. Len(s) : i \in 1 .. Len(u)
  <2>1. Len(s) \in Nat
    OBVIOUS
  <2> QED BY ONLY <2>1, <1>3, <1>4
<1>6. \A i \in 1 .. Len(s) : t[i] = s[i]
  BY Zenon, <1>3, <1>4, <1>5
<1> QED BY Zenon, <1>3, <1>4, <1>5, <1>6

\* A speaking step asks: what it adds is its own.
AsksAsBefore(s, t, c) ==
  \A i \in 1 .. Len(s) : i # c => AskedBy(t, i) = AskedBy(s, i) /\ Returns(t, i) = Returns(s, i)

LEMMA AddedRows ==
  ASSUME NEW s, Sound(s), NEW c \in 1 .. Len(s), s[c].status \notin Final,
         NEW t \in Seq(StepType), Len(s) < Len(t), Len(t) =< Cap,
         \A i \in 1 .. Len(s) : t[i] = s[i],
         \A i \in (Len(s) + 1) .. Len(t) : t[i].parent = c /\ NewRow(t[i])
  PROVE  /\ Rows(t) /\ Faithful(t)
         /\ AsksAsBefore(s, t, c)
         /\ \A i \in (Len(s) + 1) .. Len(t) : AskedBy(t, i) = {} /\ Returns(t, i) = {}
<1>0. Rows(s) /\ Faithful(s) /\ Len(s) \in Nat /\ Len(t) \in Nat /\ Cap \in Nat /\ DOMAIN s = 1 .. Len(s)
  BY RowsTree DEF Sound
<1>d. DOMAIN t = 1 .. Len(t)
  BY ONLY t \in Seq(StepType)
<1>1. \A i \in 1 .. Len(t) : i \in 1 .. Len(s) \/ i \in (Len(s) + 1) .. Len(t)
  BY ONLY <1>0
<1>2. \A i \in 1 .. Len(s) : i \in 1 .. Len(t) /\ i \notin (Len(s) + 1) .. Len(t)
  BY ONLY <1>0, Len(s) < Len(t)
<1>3. \A i \in (Len(s) + 1) .. Len(t) : c \in 0 .. (i - 1) /\ c # 0 /\ c # i /\ i \notin 1 .. Len(s) /\ i \in 1 .. Len(t)
  BY ONLY <1>0, c \in 1 .. Len(s)
<1>4. Rows(t)
  <2>1. \A i \in 1 .. Len(s) : t[i].parent \in 0 .. (i - 1) /\ (t[i].ret => t[i].parent # 0)
    BY Zenon, <1>0 DEF Rows
  <2>2. \A i \in (Len(s) + 1) .. Len(t) : t[i].parent \in 0 .. (i - 1) /\ t[i].parent # 0
    BY Zenon, <1>3
  <2>3. Len(t) \in 1 .. Cap
    BY ONLY <1>0, Len(s) < Len(t), Len(t) =< Cap
  <2> QED BY Zenon, <1>1, <2>1, <2>2, <2>3 DEF Rows
<1>5. Grown(s, t)
  <2>1. Len(s) =< Len(t)
    BY ONLY <1>0, Len(s) < Len(t)
  <2>2. \A i \in 1 .. Len(s) : SameStep(s[i], t[i])
    BY Zenon DEF SameStep
  <2> QED BY Zenon, <2>1, <2>2 DEF Grown
<1>6. Faithful(t)
  <2>1. \A i \in 1 .. Len(s) : KeptRow(s, t, i)
    BY Zenon DEF KeptRow
  <2> QED BY Zenon, <1>0, <1>4, <1>5, <2>1, FaithfulKept
<1>7. ASSUME NEW i \in 1 .. Len(s), i # c PROVE AskedBy(t, i) = AskedBy(s, i) /\ Returns(t, i) = Returns(s, i)
  <2>1. \A j \in 1 .. Len(t) : t[j].parent = i => j \in 1 .. Len(s)
    BY Zenon, <1>1, <1>7
  <2>2. Children(t, i) = Children(s, i) /\ \A j \in Children(s, i) : t[j] = s[j]
    <3>1. \A j \in Children(t, i) : j \in Children(s, i)
      BY Zenon, <1>0, <1>d, <2>1 DEF Children
    <3>2. \A j \in Children(s, i) : j \in Children(t, i) /\ t[j] = s[j]
      BY Zenon, <1>0, <1>d, <1>2 DEF Children
    <3> QED BY Zenon, <3>1, <3>2
  <2>3. \A j : j \in AskedBy(t, i) <=> j \in AskedBy(s, i)
    BY Zenon, <2>2 DEF AskedBy
  <2>4. \A j : j \in Returns(t, i) <=> j \in Returns(s, i)
    BY Zenon, <2>2 DEF Returns
  <2> QED BY ONLY <2>3, <2>4
<1>8. ASSUME NEW i \in (Len(s) + 1) .. Len(t) PROVE AskedBy(t, i) = {} /\ Returns(t, i) = {}
  <2>1. \A j \in 1 .. Len(s) : t[j].parent # i
    <3> SUFFICES ASSUME NEW j \in 1 .. Len(s) PROVE t[j].parent # i
      OBVIOUS
    <3>1. t[j].parent \in 0 .. (j - 1)
      BY Zenon, <1>0 DEF Rows
    <3> QED BY ONLY <1>0, <3>1, j \in 1 .. Len(s), i \in (Len(s) + 1) .. Len(t)
  <2>2. Children(t, i) = {}
    BY Zenon, <1>1, <1>3, <1>d, <2>1 DEF Children
  <2> QED BY Zenon, <2>2 DEF AskedBy, Returns
<1> QED BY Zenon, <1>4, <1>6, <1>7, <1>8 DEF AsksAsBefore

LEMMA AddedChildren ==
  ASSUME NEW s, Tree(s), NEW c \in 1 .. Len(s), NEW t \in Seq(StepType), Len(s) < Len(t),
         \A i \in 1 .. Len(s) : t[i] = s[i],
         \A i \in (Len(s) + 1) .. Len(t) : t[i].parent = c
  PROVE  /\ Children(t, c) = Children(s, c) \cup (Len(s) + 1) .. Len(t)
         /\ Children(s, c) \cap (Len(s) + 1) .. Len(t) = {}
         /\ \A j \in Children(s, c) : t[j] = s[j]
<1>0. Len(s) \in Nat /\ Len(t) \in Nat /\ DOMAIN s = 1 .. Len(s)
  BY t \in Seq(StepType) DEF Tree
<1>d. DOMAIN t = 1 .. Len(t)
  BY ONLY t \in Seq(StepType)
<1>1. \A i \in 1 .. Len(t) : i \in 1 .. Len(s) \/ i \in (Len(s) + 1) .. Len(t)
  BY ONLY <1>0
<1>2. \A i \in 1 .. Len(s) : i \in 1 .. Len(t) /\ i \notin (Len(s) + 1) .. Len(t)
  BY ONLY <1>0, Len(s) < Len(t)
<1>3. \A i \in (Len(s) + 1) .. Len(t) : i \in 1 .. Len(t)
  BY ONLY <1>0
<1>4. \A j \in Children(s, c) : j \in 1 .. Len(s) /\ s[j].parent = c
  BY Zenon, <1>0 DEF Children
<1>5. \A j \in Children(t, c) : j \in Children(s, c) \/ j \in (Len(s) + 1) .. Len(t)
  BY Zenon, <1>0, <1>1, <1>d DEF Children
<1>6. \A j \in Children(s, c) : j \in Children(t, c) /\ t[j] = s[j]
  BY Zenon, <1>2, <1>4, <1>d DEF Children
<1>7. \A j \in (Len(s) + 1) .. Len(t) : j \in Children(t, c)
  BY Zenon, <1>3, <1>d DEF Children
<1> DEFINE new == (Len(s) + 1) .. Len(t)
<1>8. \A j \in Children(s, c) : j \notin new
  BY Zenon, <1>2, <1>4
<1> HIDE DEF new
<1>9. Children(t, c) = Children(s, c) \cup new
  BY Zenon, <1>5, <1>6, <1>7 DEF new
<1>10. Children(s, c) \cap new = {}
  BY Zenon, <1>8
<1> QED BY Zenon, <1>6, <1>9, <1>10 DEF new

\* The rows t: s and question x of step c, with the response turn it reserves.
AddsTurns(s, t, c, x) ==
  \/ /\ x.mode = "invite" \/ Returns(s, c) # {}
     /\ Extended(s, t, x) /\ Len(s) + 1 =< Cap
  \/ /\ x.mode \in {"address", "consult"} /\ Returns(s, c) = {} /\ Len(s) + 2 =< Cap
     /\ \E y \in StepType : /\ Extended2(s, t, x, y) /\ NewRow(y) /\ y.parent = c /\ y.ret
                            /\ s[c].mode = "consult" => y.mode = "consult"

\* A turn's questions share a response: what was asked, and what it is owed.
LEMMA AskSound ==
  ASSUME NEW s, Sound(s), NEW c \in 1 .. Len(s), s[c].status \notin Final,
         NEW x \in StepType, NewRow(x), x.parent = c, ~x.ret,
         s[c].mode = "consult" => x.mode = "consult", NEW t,
         AddsTurns(s, t, c, x)
  PROVE  Sound(t) /\ Len(s) < Len(t) /\ t \in Seq(StepType) /\ \A i \in 1 .. Len(s) : t[i] = s[i]
<1> DEFINE n == Len(s)
<1>0. s \in Seq(StepType) /\ Rows(s) /\ Tree(s) /\ n \in Nat /\ Cap \in Nat /\ c \in 1 .. n /\ OneTurn(s, c) /\ Private(s)
  BY Zenon, RowsTree DEF Sound, Rows
<1>q. Modes = {"invite", "address", "consult", "return"} /\ x.mode \in Modes
  BY DEF Modes, StepType
<1> HIDE DEF n
<1>a. ASSUME NEW u, u \in Seq(StepType), n < Len(u), Len(u) =< Cap, \A i \in 1 .. n : u[i] = s[i],
             \A i \in (n + 1) .. Len(u) : u[i].parent = c /\ NewRow(u[i]) /\ (s[c].mode = "consult" => u[i].mode = "consult"),
             OneTurn(u, c)
      PROVE  Sound(u)
  <2>0. Rows(u) /\ Faithful(u)
    BY Zenon, <1>a, AddedRows DEF n
  <2>1. \A i \in 1 .. n : i # c => AskedBy(u, i) = AskedBy(s, i) /\ Returns(u, i) = Returns(s, i)
    <3>1. AsksAsBefore(s, u, c)
      BY Zenon, <1>a, AddedRows DEF n
    <3> QED BY Zenon, <3>1 DEF AsksAsBefore, n
  <2>2. \A i \in (n + 1) .. Len(u) : AskedBy(u, i) = {} /\ Returns(u, i) = {}
    BY Zenon, <1>a, AddedRows DEF n
  <2>3. Len(u) \in Nat /\ \A i \in 1 .. Len(u) : i \in 1 .. n \/ i \in (n + 1) .. Len(u)
    BY ONLY <1>0, u \in Seq(StepType)
  <2>4. \A i \in 1 .. n : OneTurn(s, i)
    BY Zenon DEF Sound, n
  <2>5. ASSUME NEW i \in 1 .. Len(u) PROVE OneTurn(u, i)
    <3>1. CASE i = c
      BY Zenon, <1>a, <3>1
    <3>2. CASE i \in 1 .. n /\ i # c
      BY Zenon, <2>1, <2>4, <3>2 DEF OneTurn
    <3>3. CASE i \in (n + 1) .. Len(u)
      BY Zenon, <2>2, <3>3 DEF OneTurn
    <3> QED BY Zenon, <2>3, <3>1, <3>2, <3>3
  <2>6. ASSUME NEW i \in 1 .. Len(u), u[i].parent # 0, u[u[i].parent].mode = "consult"
        PROVE  u[i].mode = "consult"
    <3>1. CASE i \in 1 .. n
      <4>1. u[i] = s[i] /\ s[i].parent \in 0 .. (i - 1) /\ s[i].parent # 0
        BY Zenon, <1>0, <1>a, <2>6, <3>1 DEF Rows, n
      <4>2. s[i].parent \in 1 .. n
        BY ONLY <1>0, <3>1, <4>1
      <4>3. s[s[i].parent].mode = "consult"
        BY Zenon, <1>a, <2>6, <4>1, <4>2
      <4> QED BY Zenon, <1>0, <3>1, <4>1, <4>3 DEF Private, n
    <3>2. CASE i \in (n + 1) .. Len(u)
      BY Zenon, <1>0, <1>a, <2>6, <3>2
    <3> QED BY Zenon, <2>3, <3>1, <3>2
  <2> QED BY Zenon, <2>0, <2>5, <2>6 DEF Sound, Private
<1>1. CASE /\ x.mode = "invite" \/ Returns(s, c) # {}
           /\ Extended(s, t, x) /\ n + 1 =< Cap
  <2>1. t \in Seq(StepType) /\ Len(t) = n + 1 /\ t[n + 1] = x /\ \A i \in 1 .. n : t[i] = s[i]
    BY ONLY <1>0, <1>1, OneMore, x \in StepType DEF n
  <2>2. /\ n < Len(t) /\ Len(t) =< Cap
        /\ \A i : i \in (n + 1) .. Len(t) <=> i = n + 1
    BY ONLY <1>0, <1>1, <2>1
  <2>3. \A i \in (n + 1) .. Len(t) : t[i] = x
    BY Zenon, <2>1, <2>2
  <2>4. /\ Children(t, c) = Children(s, c) \cup (n + 1) .. Len(t)
        /\ \A j \in Children(s, c) : t[j] = s[j]
    BY Zenon, <1>0, <2>1, <2>2, <2>3, AddedChildren DEF n
  <2>5. \A j : j \in Children(t, c) <=> j \in Children(s, c) \/ j = n + 1
    BY Zenon, <2>2, <2>4
  <2>6. \A j : j \in Returns(t, c) <=> j \in Returns(s, c)
    BY Zenon, <2>1, <2>4, <2>5 DEF Returns
  <2>7. Returns(t, c) = Returns(s, c)
    BY Zenon, <2>6
  <2>8. OneTurn(t, c)
    <3>1. CASE x.mode = "invite"
      <4>1. x.mode \notin {"address", "consult"}
        BY <3>1
      <4>2. \A j : j \in AskedBy(t, c) <=> j \in AskedBy(s, c)
        BY Zenon, <2>1, <2>4, <2>5, <4>1 DEF AskedBy
      <4>3. AskedBy(t, c) = AskedBy(s, c)
        BY Zenon, <4>2
      <4> QED BY Zenon, <1>0, <2>7, <4>3 DEF OneTurn
    <3>2. CASE Returns(s, c) # {}
      <4>1. AskedBy(s, c) # {} /\ \E d : Returns(s, c) = {d}
        BY Zenon, <1>0, <3>2 DEF OneTurn
      <4>2. AskedBy(t, c) # {}
        BY Zenon, <2>4, <2>5, <4>1 DEF AskedBy
      <4> QED BY Zenon, <2>7, <4>1, <4>2 DEF OneTurn
    <3> QED BY Zenon, <1>1, <3>1, <3>2
  <2>9. Sound(t)
    BY Zenon, <1>a, <2>1, <2>2, <2>3, <2>8
  <2> QED BY Zenon, <2>1, <2>2, <2>9 DEF n
<1>2. ASSUME x.mode \in {"address", "consult"}, Returns(s, c) = {}, n + 2 =< Cap, NEW y \in StepType,
             Extended2(s, t, x, y), NewRow(y), y.parent = c, y.ret, s[c].mode = "consult" => y.mode = "consult"
      PROVE  Sound(t) /\ Len(s) < Len(t) /\ t \in Seq(StepType) /\ \A i \in 1 .. Len(s) : t[i] = s[i]
  <2>1. /\ t \in Seq(StepType) /\ Len(t) = n + 2 /\ t[n + 1] = x /\ t[n + 2] = y
        /\ \A i \in 1 .. n : t[i] = s[i]
    BY ONLY <1>0, <1>2, TwoMore, x \in StepType DEF n
  <2>2. /\ n < Len(t) /\ Len(t) =< Cap
        /\ \A i : i \in (n + 1) .. Len(t) <=> i = n + 1 \/ i = n + 2
    BY ONLY <1>0, <1>2, <2>1
  <2>3. \A i \in (n + 1) .. Len(t) : t[i] = x \/ t[i] = y
    BY Zenon, <2>1, <2>2
  <2>m. \A i \in (n + 1) .. Len(t) : t[i].parent = c /\ NewRow(t[i]) /\ (s[c].mode = "consult" => t[i].mode = "consult")
    BY Zenon, <1>2, <2>3
  <2>4. /\ Children(t, c) = Children(s, c) \cup (n + 1) .. Len(t)
        /\ \A j \in Children(s, c) : t[j] = s[j]
    BY Zenon, <1>0, <2>1, <2>2, <2>m, AddedChildren DEF n
  <2>5. \A j : j \in Children(t, c) <=> j \in Children(s, c) \/ j = n + 1 \/ j = n + 2
    BY Zenon, <2>2, <2>4
  <2>6. \A j : j \in Returns(t, c) <=> j = n + 2
    <3>1. \A j \in Children(s, c) : ~t[j].ret
      BY Zenon, <1>2, <2>4 DEF Returns
    <3> QED BY Zenon, <1>2, <2>1, <2>5, <3>1 DEF Returns
  <2>7. Returns(t, c) = {n + 2}
    BY Zenon, <2>6
  <2>8. n + 1 \in AskedBy(t, c)
    BY Zenon, <1>2, <2>1, <2>5 DEF AskedBy
  <2>9. OneTurn(t, c)
    BY Zenon, <2>7, <2>8 DEF OneTurn
  <2>10. Sound(t)
    BY Zenon, <1>a, <2>1, <2>2, <2>m, <2>9
  <2> QED BY Zenon, <2>1, <2>2, <2>10 DEF n
<1> QED BY Zenon, <1>1, <1>2 DEF n, AddsTurns

LEMMA AskKeeps ==
  ASSUME DialogueInv, NEW kind, NEW a \in Agents, NEW text \in Questions, Collaborate(kind, a, text)
  PROVE  DialogueInv'
<1> DEFINE x == NewStep(a, kind, cur, text)
           y == ReturnStep(cur)
<1>0. /\ Sound(steps) /\ Rows(steps) /\ Len(steps) \in Nat /\ Cap \in Nat /\ Len(steps) =< Cap
      /\ cur \in 1 .. Len(steps) /\ steps[cur] \in StepType
      /\ phase = "running" /\ steps[cur].status \in {"running", "cancel_requested"}
  BY Zenon, InvRows DEF DialogueInv, Speaking, Collaborate
<1>1. /\ kind \in {"invite", "address", "consult"} /\ WithinLimit(kind, cur)
      /\ steps[cur].mode = "consult" => kind = "consult"
      /\ steps' = steps \o <<x>> \o (IF NeedsReturn(kind, cur) THEN <<y>> ELSE <<>>)
      /\ asking' = FALSE /\ UNCHANGED <<phase, cur, losses>>
      /\ (IF kind = "invite" THEN ChangeMembers("invite", a) ELSE UNCHANGED <<members, lead>>)
  BY Zenon DEF Collaborate
<1>2. /\ x \in StepType /\ x.packet = {} /\ x.parent = cur /\ x.ret = FALSE /\ x.mode = kind
  BY ONLY <1>0, <1>1, a \in Agents, text \in Questions DEF NewStep, StepType, StepStatuses, Modes, Final
<1>3. /\ y \in StepType /\ y.packet = {} /\ y.parent = cur /\ y.ret = TRUE
      /\ y.mode = ReturnMode(steps[cur].mode) /\ y.status = "waiting_reply"
  <2>1. steps[cur].agent \in Agents /\ steps[cur].mode \in Modes
    BY ONLY <1>0 DEF StepType
  <2>2. ReturnMode(steps[cur].mode) \in Modes
    BY ONLY <2>1 DEF ReturnMode, Modes
  <2> DEFINE z == NewStep(steps[cur].agent, ReturnMode(steps[cur].mode), cur, NoText)
  <2>3. /\ z \in StepType /\ z.packet = {} /\ z.parent = cur /\ z.mode = ReturnMode(steps[cur].mode)
    BY ONLY <1>0, <2>1, <2>2 DEF NewStep, StepType, StepStatuses, Final
  <2>4. y = [z EXCEPT !.ret = TRUE, !.status = "waiting_reply"]
    BY Zenon DEF ReturnStep
  <2> HIDE DEF z, y
  <2> QED BY ONLY <2>3, <2>4 DEF StepType, StepStatuses
<1>4. steps[cur].mode = "consult" => y.mode = "consult"
  BY Zenon, <1>3 DEF ReturnMode
<1> HIDE DEF x, y
<1>5. NewRow(x) /\ NewRow(y)
  <2>1. "waiting_reply" \notin Live
    BY DEF Live
  <2> QED BY Zenon, <1>2, <1>3, <2>1 DEF NewRow
<1>n. NeedsReturn(kind, cur) <=> kind \in {"address", "consult"} /\ Returns(steps, cur) = {}
  BY Zenon DEF NeedsReturn, Returns
<1>6. \/ /\ kind = "invite" \/ Returns(steps, cur) # {}
         /\ Extended(steps, steps', x) /\ Len(steps) + 1 =< Cap
      \/ /\ kind \in {"address", "consult"} /\ Returns(steps, cur) = {} /\ Len(steps) + 2 =< Cap
         /\ Extended2(steps, steps', x, y)
  <2>1. CASE NeedsReturn(kind, cur)
    <3>1. Extended2(steps, steps', x, y) /\ Len(steps) + 2 =< Cap
      BY Zenon, <1>1, <2>1 DEF Extended2, WithinLimit
    <3> QED BY Zenon, <1>n, <2>1, <3>1
  <2>2. CASE ~NeedsReturn(kind, cur)
    <3>1. steps' = steps \o <<x>> \o <<>> /\ Len(steps) + 1 =< Cap
      BY Zenon, <1>1, <2>2 DEF WithinLimit
    <3>2. steps \in Seq(StepType)
      BY Zenon, <1>0 DEF Rows
    <3>3. steps \o <<x>> \o <<>> = steps \o <<x>>
      <4>1. steps \o <<x>> \in Seq(StepType)
        BY ONLY <1>2, <3>2
      <4> DEFINE u == steps \o <<x>>
      <4> HIDE DEF u
      <4>2. u \in Seq(StepType) => u \o <<>> = u
        OBVIOUS
      <4> QED BY Zenon, <4>1, <4>2 DEF u
    <3>4. kind \notin {"address", "consult"} => kind = "invite"
      BY <1>1
    <3> QED BY Zenon, <1>n, <2>2, <3>1, <3>3, <3>4 DEF Extended
  <2> QED BY Zenon, <2>1, <2>2
<1>7. steps[cur].status \notin Final
  BY ONLY <1>0 DEF Final
<1>x. AddsTurns(steps, steps', cur, x)
  <2>1. x.mode = kind /\ y \in StepType /\ y.parent = cur /\ y.ret
    BY Zenon, <1>2, <1>3
  <2> QED BY Zenon, <1>4, <1>5, <1>6, <2>1 DEF AddsTurns
<1>8. /\ Sound(steps') /\ Len(steps) < Len(steps') /\ steps' \in Seq(StepType)
      /\ \A i \in 1 .. Len(steps) : steps'[i] = steps[i]
  <2>1. x.mode = kind /\ ~x.ret /\ x.parent = cur /\ x \in StepType /\ (steps[cur].mode = "consult" => x.mode = "consult")
    BY Zenon, <1>1, <1>2
  <2> QED BY ONLY <1>0, <1>5, <1>7, <1>x, <2>1, AskSound
<1>9. Staffed'
  <2>1. CASE kind = "invite"
    BY Zenon, <1>1, <2>1, MembersChange DEF DialogueInv
  <2>2. CASE kind # "invite"
    <3>1. UNCHANGED <<members, lead>>
      BY Zenon, <1>1, <2>2
    <3> QED BY Zenon, <3>1 DEF DialogueInv, Staffed
  <2> QED BY Zenon, <2>1, <2>2
<1>10. cur' \in 0 .. Len(steps')
  <2>1. Len(steps') \in Nat
    BY Zenon, <1>8, RowsTree DEF Sound
  <2>2. cur' = cur
    BY Zenon, <1>1
  <2> QED BY ONLY <1>0, <1>8, <2>1, <2>2
<1>11. Speaking'
  BY Zenon, <1>0, <1>1, <1>8 DEF Speaking
<1>12. DialogueTyped'
  BY Zenon, <1>1, <1>10 DEF DialogueInv, DialogueTyped
<1> QED BY Zenon, <1>8, <1>9, <1>11, <1>12 DEF DialogueInv

LEMMA StepKeeps ==
  ASSUME DialogueInv, [DialogueNext]_dialogueVars PROVE DialogueInv'
<1>1. CASE UNCHANGED dialogueVars
  <2>1. UNCHANGED steps /\ UNCHANGED <<members, lead, phase, cur, asking, losses>>
    BY Zenon, <1>1 DEF dialogueVars
  <2>2. Staffed' /\ DialogueTyped'
    BY Zenon, <2>1 DEF DialogueInv, Staffed, DialogueTyped
  <2> QED BY Zenon, <2>1, <2>2, QuietKeeps
<1>2. CASE Executor
  BY Zenon, <1>2, PickKeeps, AskRefusedKeeps, DeliverKeeps, ResumeKeeps DEF Executor
<1>3. CASE EnsureActive \/ Lose \/ StopReplies
  BY Zenon, <1>3, EnsureActiveKeeps, LoseKeeps, StopRepliesKeeps
<1>4. ASSUME NEW kind \in {"invite", "address", "consult"}, NEW a \in Agents, NEW text \in Questions,
             Collaborate(kind, a, text)
      PROVE  DialogueInv'
  BY Zenon, <1>4, AskKeeps
<1>5. ASSUME NEW kind \in {"invite", "handoff", "dismiss"}, NEW a \in Agents,
             LeadChanges(kind, a) \/ Membership(kind, a)
      PROVE  DialogueInv'
  BY Zenon, <1>5, LeadChangesKeeps, MembershipKeeps
<1>6. ASSUME NEW i \in 1 .. Cap, i <= Len(steps), StopReply(i) PROVE DialogueInv'
  <2>1. i \in 1 .. Len(steps)
    <3>1. Len(steps) \in Nat
      BY Zenon, InvRows
    <3> QED BY <1>6, <3>1
  <2> QED BY Zenon, <1>6, <2>1, StopReplyKeeps
<1> QED BY Zenon, <1>1, <1>2, <1>3, <1>4, <1>5, <1>6 DEF DialogueNext

LEMMA DialogueSound == DialogueSpec => []DialogueInv
<1>1. DialogueInit => DialogueInv
  BY Zenon, FirstStep
<1>2. DialogueInv /\ [DialogueNext]_dialogueVars => DialogueInv'
  BY Zenon, StepKeeps
<1> QED BY <1>1, <1>2, PTL DEF DialogueSpec

\* The rows of a round are well formed, and who speaks is one of them: collaborate(),
\* release_replies() and stop_replies() of any number of steps.
THEOREM DialogueTypes == DialogueSpec => []DialogueTypeOK
<1>1. DialogueInv => DialogueTypeOK
  <2> SUFFICES ASSUME DialogueInv PROVE DialogueTypeOK
    OBVIOUS
  <2>1. /\ lead \in Agents /\ members \subseteq Agents
        /\ phase \in {"running", "reconciling", "finished"}
        /\ cur \in 0 .. Len(steps) /\ asking \in BOOLEAN /\ losses \in 0 .. MaxLosses
    BY Zenon DEF DialogueInv, Staffed, DialogueTyped
  <2>2. Len(steps) \in 1 .. Cap /\ DOMAIN steps = 1 .. Len(steps) /\ \A i \in 1 .. Len(steps) : steps[i] \in StepType
    BY Zenon, InvRows DEF Rows
  <2>3. ASSUME NEW i \in DOMAIN steps PROVE steps[i].parent < i
    <3>1. steps[i].parent \in 0 .. (i - 1) /\ i \in 1 .. Len(steps) /\ Len(steps) \in Nat
      BY Zenon, <2>2, InvRows DEF Rows
    <3> QED BY ONLY <3>1
  <2> QED BY Zenon, <2>1, <2>2, <2>3 DEF DialogueTypeOK
<1> QED BY <1>1, DialogueSound, PTL

\* change_members(): whoever joins, leaves or takes the lead, in any order.
THEOREM LeadStaysMember == DialogueSpec => []LeadIsMember
<1>1. DialogueInv => LeadIsMember
  BY Zenon DEF DialogueInv, Staffed, LeadIsMember
<1> QED BY <1>1, DialogueSound, PTL

LEMMA OneTurnCounts ==
  ASSUME DialogueInv PROVE OneReturn
<1>0. DOMAIN steps = 1 .. Len(steps)
  BY Zenon, InvRows
<1>1. ASSUME NEW i \in 1 .. Len(steps)
      PROVE  Cardinality(Returns(steps, i)) = IF AskedBy(steps, i) = {} THEN 0 ELSE 1
  <2>1. OneTurn(steps, i)
    BY Zenon DEF DialogueInv, Sound
  <2>2. CASE AskedBy(steps, i) = {} /\ Returns(steps, i) = {}
    BY Zenon, <2>2, FS_EmptySet
  <2>3. ASSUME AskedBy(steps, i) # {}, NEW c, Returns(steps, i) = {c}
        PROVE  Cardinality(Returns(steps, i)) = IF AskedBy(steps, i) = {} THEN 0 ELSE 1
    <3>1. Cardinality({c}) = 1
      BY Zenon, FS_Singleton
    <3> QED BY Zenon, <2>3, <3>1
  <2> QED BY Zenon, <2>1, <2>2, <2>3 DEF OneTurn
<1> QED BY Zenon, <1>0, <1>1 DEF OneReturn, Asked, AskedBy, Returns

\* collaborate() and release_replies(): a turn that asked has one response turn,
\* which speaks after everything under its questions is over, and is given
\* answers that no follow-up comes after.
THEOREM ReturnsFaithfulHolds == DialogueSpec => []ReturnsFaithful
<1>1. DialogueInv => ReturnsFaithful
  <2> SUFFICES ASSUME DialogueInv PROVE ReturnsLast /\ AnswersComplete
    BY Zenon, OneTurnCounts DEF ReturnsFaithful
  <2>1. DOMAIN steps = 1 .. Len(steps) /\ Faithful(steps)
    BY Zenon, InvRows DEF DialogueInv, Sound
  <2>2. ReturnsLast
    BY Zenon, <2>1 DEF ReturnsLast, Faithful, OnTime, Live
  <2>3. AnswersComplete
    BY Zenon, <2>1 DEF AnswersComplete, Faithful, Complete, Followups
  <2> QED BY Zenon, <2>2, <2>3
<1> QED BY <1>1, DialogueSound, PTL

\* collaborate(): what is asked under a private consultation stays private.
THEOREM PrivateStaysPrivateHolds == DialogueSpec => []PrivateStaysPrivate
<1>1. DialogueInv => PrivateStaysPrivate
  BY Zenon, InvRows DEF DialogueInv, Sound, Private, PrivateStaysPrivate
<1> QED BY <1>1, DialogueSound, PTL

=============================================================================
