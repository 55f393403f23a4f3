----------------------------- MODULE MCMessages -----------------------------
(***************************************************************************)
(* The ways the backend and the owner's channels exchange messages, each   *)
(* explored on its own: the durable outbox, the n8n automations, and the   *)
(* mail and web watches.                                                   *)
(***************************************************************************)
EXTENDS Outbox, Automations, Watches

VARIABLE part     \* which of the independent components moves

messageVars == <<outboxVars, autoVars, watchVars, part>>

\* One message waits on a second page of the mailbox.
MCPageOf == LET last == CHOOSE m \in Mail : TRUE
            IN [m \in Mail |-> IF m = last THEN 2 ELSE 1]

\* The outbox of a stopped run without a device, or with yesterday answered.
MessagesInit ==
  /\ OutboxInit /\ AutoInit /\ WatchInit
  /\ (stopped = Runs /\ device = 0) \/ cycle[1].status = "answered"
  /\ part \in {"outbox", "automations", "mail", "web"}
  /\ part # "outbox" => stopped = Runs /\ device = 0 /\ cycle[1].status = "answered"

\* The day passes or the links change; the watch is edited or the account is linked again, not both.
MessagesNext ==
  /\ UNCHANGED part
  /\ \/ /\ part = "outbox" /\ OutboxNext /\ UNCHANGED <<autoVars, watchVars>>
        /\ today' = 1 \/ (link'.version <= 1 /\ device' <= 1)
     \/ part = "automations" /\ AutoNext /\ UNCHANGED <<outboxVars, watchVars>>
     \/ part = "mail" /\ MailNext /\ watch'.rev + account' <= 3 /\ UNCHANGED <<outboxVars, autoVars>>
     \/ part = "web" /\ WebNext /\ UNCHANGED <<outboxVars, autoVars>>

MessagesSpec == MessagesInit /\ [][MessagesNext]_messageVars
=============================================================================
