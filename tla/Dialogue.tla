------------------------------ MODULE Dialogue ------------------------------
(***************************************************************************)
(* One round of a room: the tree of contributions (AgentStep rows) that    *)
(* collaborate() grows, the caller's response turn it reserves, and        *)
(* release_replies(), which lets that turn speak once the colleagues and   *)
(* their nested exchanges have settled.  Source: app/services/             *)
(* coordination.py.  The executor of the round is the only one that picks  *)
(* and delivers; the owner stops replies and changes membership at any     *)
(* moment; a failed or lost execution is resumed.  Slots, leases and       *)
(* cancellation of whole runs are in module Coordination.                  *)
(*                                                                         *)
(* A step is known by its ordinal (here from 1).  A repeated tool call     *)
(* returns the prior step and changes nothing, so it is not an action.     *)
(***************************************************************************)
EXTENDS Naturals, Sequences, FiniteSets

CONSTANTS Agents,       \* persona profiles
          Questions,    \* texts of collaboration requests
          Cap,          \* limits.run.contributions
          MaxLosses,    \* executions of the round that fail or are lost
          Kinds,        \* the collaboration actions an instance explores
          OwnerStops    \* does the owner stop replies?

OwnerText == "owner text"
NoText == ""

ASSUME DialogueAssumption ==
  /\ Cap \in Nat \ {0} /\ MaxLosses \in Nat
  /\ Kinds \subseteq {"invite", "address", "consult", "handoff", "dismiss"}
  /\ OwnerText \notin Questions /\ NoText \notin Questions
  /\ OwnerStops \in BOOLEAN

VARIABLES
  members, lead,   \* Room.members, Room.lead
  steps,           \* the AgentStep rows by ordinal
  phase,           \* "running", "reconciling" or "finished"
  cur,             \* the step whose reply task runs, 0 for none
  asking,          \* collaborate() has passed ensure_active
  losses

dialogueVars == <<members, lead, steps, phase, cur, asking, losses>>

Final == {"succeeded", "cancelled"}
StepStatuses == Final \cup {"queued", "running", "cancel_requested", "waiting_reply"}
Modes == {"invite", "address", "consult", "return"}

\* ret: operation_id is "return:<parent>".  packet: the steps whose answers a
\* released return carries in its prompt (peer_replies).
StepType == [agent : Agents, mode : Modes, parent : 0..Cap, ret : BOOLEAN,
             status : StepStatuses, prompt : Questions \cup {OwnerText, NoText},
             packet : SUBSET (1..Cap)]

NewStep(a, mode, parent, text) ==
  [agent |-> a, mode |-> mode, parent |-> parent, ret |-> FALSE,
   status |-> "queued", prompt |-> text, packet |-> {}]

DialogueInit ==
  /\ lead \in Agents
  /\ members \in {M \in SUBSET Agents : lead \in M}
  /\ \E a \in members : steps = <<NewStep(a, "address", 0, OwnerText)>>
  /\ phase = "running" /\ cur = 0 /\ asking = FALSE /\ losses = 0

-----------------------------------------------------------------------------
(* release_replies *)

Children(s, i) == {j \in DOMAIN s : s[j].parent = i}

SettledAlone(s, i) == s[i].status \in Final
SettledIfAnswered(s, i) ==
  LET done[j \in DOMAIN s] == /\ s[j].status = "succeeded"
                              /\ \A c \in Children(s, j) : done[c]
  IN done[i]
\* settled(): a step and everything that was asked under it is over.
Settled(s, i) ==
  LET done[j \in DOMAIN s] == /\ s[j].status \in Final
                              /\ \A c \in Children(s, j) : done[c]
  IN done[i]

AnswerPreliminary(s, i) == i
\* The answer a caller is given: a colleague's last succeeded follow-up.
Answer(s, i) ==
  LET followups(j) == {c \in Children(s, j) : s[c].ret /\ s[c].status = "succeeded"}
      last[j \in DOMAIN s] == IF followups(j) = {} THEN j
                              ELSE last[CHOOSE c \in followups(j) : TRUE]
  IN last[i]

\* What the pass makes of the continuation i; s holds its changes so far.
ReleaseOne(s, i) ==
  LET caller == s[s[i].parent]
      requests == Children(s, s[i].parent) \ {i}
  IN IF caller.status = "cancelled" THEN [s[i] EXCEPT !.status = "cancelled"]
     ELSE IF caller.status = "succeeded" /\ \A q \in requests : Settled(s, q)
          THEN [s[i] EXCEPT !.status = "queued",
                            !.packet = {Answer(s, q) : q \in requests}]
     ELSE s[i]

\* release_replies: one pass over the waiting continuations in ordinal order.
Released(s) ==
  LET after[i \in DOMAIN s] ==
        IF s[i].status # "waiting_reply" THEN s[i]
        ELSE ReleaseOne([j \in DOMAIN s |-> IF j < i THEN after[j] ELSE s[j]], i)
  IN [i \in DOMAIN s |-> after[i]]

-----------------------------------------------------------------------------
(* The executor of the round. *)

\* The loop head: release what can be released, then the first queued step
\* speaks, unless its participant was dismissed; with none left, the round ends.
PickStep ==
  /\ phase = "running" /\ cur = 0
  /\ LET s == Released(steps)
         queued == {i \in DOMAIN s : s[i].status = "queued"}
     IN \/ /\ queued = {}
           /\ steps' = s /\ phase' = "finished" /\ UNCHANGED cur
        \/ \E i \in queued :
             /\ \A j \in queued : i <= j
             /\ IF s[i].mode # "consult" /\ s[i].agent \notin members
                THEN steps' = [s EXCEPT ![i].status = "cancelled"] /\ UNCHANGED cur
                ELSE steps' = [s EXCEPT ![i].status = "running"] /\ cur' = i
             /\ UNCHANGED phase
  /\ UNCHANGED <<members, lead, asking, losses>>

\* A collaborate tool call starts: ensure_active.
EnsureActive ==
  /\ phase = "running" /\ cur # 0 /\ ~asking
  /\ steps[cur].status = "running"
  /\ steps[cur].mode = "consult" \/ steps[cur].agent \in members
  /\ asking' = TRUE
  /\ UNCHANGED <<members, lead, steps, phase, cur, losses>>

NeedsReturnAlways(kind, i) == kind \in {"address", "consult"}
\* The first question of a turn reserves the caller's response.
NeedsReturn(kind, i) == /\ kind \in {"address", "consult"}
                        /\ ~\E c \in Children(steps, i) : steps[c].ret

WithinLimitUnreserved(kind, i) == Len(steps) + 1 <= Cap
\* round_limit: the response turn counts when it is reserved.
WithinLimit(kind, i) == Len(steps) + (IF NeedsReturn(kind, i) THEN 2 ELSE 1) <= Cap

ReturnModePublic(mode) == "return"
ReturnMode(mode) == IF mode = "consult" THEN "consult" ELSE "return"

ReturnStep(i) == [NewStep(steps[i].agent, ReturnMode(steps[i].mode), i, NoText)
                    EXCEPT !.ret = TRUE, !.status = "waiting_reply"]

MayDismissAnyone(a) == TRUE
\* change_members refuses to dismiss the lead.
MayDismiss(a) == a # lead

\* change_members: the lead joins by a handoff and cannot be dismissed.
ChangeMembers(kind, a) ==
  /\ kind = "dismiss" => MayDismiss(a)
  /\ members' = IF kind = "dismiss" THEN members \ {a} ELSE members \cup {a}
  /\ lead' = IF kind = "handoff" THEN a ELSE lead

\* The transaction of collaborate() for invite, address and consult.
Collaborate(kind, a, text) ==
  LET caller == steps[cur] IN
  /\ kind \in Kinds \cap {"invite", "address", "consult"}
  /\ cur # 0 /\ asking
  /\ a # caller.agent
  /\ caller.mode = "consult" => kind = "consult"
  /\ kind = "address" => a \in members
  /\ IF kind = "invite" THEN ChangeMembers("invite", a) ELSE UNCHANGED <<members, lead>>
  /\ WithinLimit(kind, cur)
  /\ ~\E i \in DOMAIN steps : steps[i].agent = a /\ steps[i].prompt = text
  /\ steps' = steps \o <<NewStep(a, kind, cur, text)>>
                    \o (IF NeedsReturn(kind, cur) THEN <<ReturnStep(cur)>> ELSE <<>>)
  /\ asking' = FALSE
  /\ UNCHANGED <<phase, cur, losses>>

\* collaborate() for dismiss and handoff, which only the lead may ask for.
LeadChanges(kind, a) ==
  /\ kind \in Kinds \cap {"handoff", "dismiss"}
  /\ cur # 0 /\ asking
  /\ steps[cur].agent = lead /\ steps[cur].mode # "consult"
  /\ ChangeMembers(kind, a)
  /\ asking' = FALSE
  /\ UNCHANGED <<steps, phase, cur, losses>>

\* collaborate() raises: over the cap, repeated, not a member, private...
AskRefused ==
  /\ asking
  /\ asking' = FALSE
  /\ UNCHANGED <<members, lead, steps, phase, cur, losses>>

\* The reply is over: delivered, or stopped before its delivery.
Deliver ==
  /\ phase = "running" /\ cur # 0 /\ ~asking
  /\ steps' = [steps EXCEPT ![cur].status =
                 IF @ = "cancel_requested" THEN "cancelled" ELSE "succeeded"]
  /\ cur' = 0
  /\ UNCHANGED <<members, lead, phase, asking, losses>>

\* The execution fails, or its executor dies and recover() finds it.
Lose ==
  /\ phase = "running" /\ losses < MaxLosses
  /\ phase' = "reconciling" /\ cur' = 0 /\ asking' = FALSE
  /\ losses' = losses + 1
  /\ UNCHANGED <<members, lead, steps>>

Requeued(s) == [i \in DOMAIN s |->
                  IF s[i].status = "running" THEN [s[i] EXCEPT !.status = "queued"] ELSE s[i]]

ResumeRound ==
  /\ phase = "reconciling"
  /\ phase' = "running"
  /\ steps' = Requeued(steps)
  /\ UNCHANGED <<members, lead, cur, asking, losses>>

-----------------------------------------------------------------------------
(* The owner. *)

Stopped(st) == IF st \in {"queued", "waiting_reply"} THEN "cancelled"
               ELSE IF st = "running" THEN "cancel_requested" ELSE st

\* stop_reply of step i.  The reply task that is cancelled ends in Deliver.
StopReply(i) ==
  /\ OwnerStops
  /\ Stopped(steps[i].status) # steps[i].status
  /\ steps' = [steps EXCEPT ![i].status = Stopped(@)]
  /\ UNCHANGED <<members, lead, phase, cur, asking, losses>>

\* stop_replies: every open step of the round, in one transaction.
StopReplies ==
  /\ OwnerStops
  /\ \E i \in DOMAIN steps : Stopped(steps[i].status) # steps[i].status
  /\ steps' = [i \in DOMAIN steps |-> [steps[i] EXCEPT !.status = Stopped(@)]]
  /\ UNCHANGED <<members, lead, phase, cur, asking, losses>>

\* membership(): the owner's own invite, dismissal or handoff.
Membership(kind, a) ==
  /\ kind \in Kinds \cap {"invite", "handoff", "dismiss"}
  /\ ChangeMembers(kind, a)
  /\ UNCHANGED <<steps, phase, cur, asking, losses>>

-----------------------------------------------------------------------------
Executor == PickStep \/ AskRefused \/ Deliver \/ ResumeRound

DialogueNext ==
  \/ Executor \/ EnsureActive \/ Lose
  \/ \E kind \in {"invite", "address", "consult"}, a \in Agents, text \in Questions :
        Collaborate(kind, a, text)
  \/ \E kind \in {"invite", "handoff", "dismiss"}, a \in Agents :
        LeadChanges(kind, a) \/ Membership(kind, a)
  \/ \E i \in 1..Cap : i <= Len(steps) /\ StopReply(i)
  \/ StopReplies

DialogueSpec == DialogueInit /\ [][DialogueNext]_dialogueVars

\* The executor goes on, replies end, and a lost round is resumed.
DialogueFairness == /\ WF_dialogueVars(PickStep) /\ WF_dialogueVars(AskRefused)
                    /\ SF_dialogueVars(Deliver) /\ WF_dialogueVars(ResumeRound)
FairDialogueSpec == DialogueSpec /\ DialogueFairness

-----------------------------------------------------------------------------
(* What is checked. *)

\* The type of every variable, and the shape of the tree: a step's parent
\* has a lower ordinal.
DialogueTypeOK ==
  /\ lead \in Agents /\ members \subseteq Agents
  /\ Len(steps) \in 1..Cap
  /\ \A i \in DOMAIN steps : steps[i] \in StepType /\ steps[i].parent < i
  /\ phase \in {"running", "reconciling", "finished"}
  /\ cur \in 0..Len(steps) /\ asking \in BOOLEAN /\ losses \in 0..MaxLosses

\* Whoever is dismissed or handed the lead, by the owner or a speaker, in any
\* order, the room's lead stays one of its members.
LeadIsMember == lead \in members

Asked(i) == {c \in Children(steps, i) : steps[c].mode \in {"address", "consult"} /\ ~steps[c].ret}

\* "Questions from one contribution share a response turn": a contribution that
\* asked has one response turn, whatever was asked, stopped or replayed since.
OneReturn ==
  \A i \in DOMAIN steps :
    LET returns == {c \in Children(steps, i) : steps[c].ret}
    IN Cardinality(returns) = IF Asked(i) = {} THEN 0 ELSE 1

\* The steps a step was asked under, itself included.
Lineage(s, j) ==
  LET up[i \in 0 .. Len(s)] == IF i = 0 THEN {} ELSE {i} \cup up[s[i].parent] IN up[j]
\* Nothing asked under step i is open (said of ancestors, not as settled() does).
Over(s, i) == \A j \in DOMAIN s : i \in Lineage(s, j) => s[j].status \in Final

\* "that turn waits for every requested colleague and any nested exchanges to
\* finish": once released, a response turn never has an open exchange under its
\* caller, neither then nor later.
ReturnsLast ==
  \A i \in DOMAIN steps :
    steps[i].ret /\ steps[i].status \in {"queued", "running", "cancel_requested", "succeeded"} =>
      /\ steps[steps[i].parent].status = "succeeded"
      /\ \A q \in Children(steps, steps[i].parent) \ {i} : Over(steps, q)

\* "The caller receives the colleague's answer after their follow-ups, rather
\* than only their preliminary reply".
AnswersComplete ==
  \A i \in DOMAIN steps : \A j \in steps[i].packet :
    /\ Over(steps, j)
    /\ ~\E c \in Children(steps, j) : steps[c].ret /\ steps[c].status = "succeeded"

\* What a caller is promised of the response turn that its questions reserve.
ReturnsFaithful == OneReturn /\ ReturnsLast /\ AnswersComplete

\* "Private nested turns remain private": whatever happens under a private
\* consultation, its turns are never published as room messages.
PrivateStaysPrivate ==
  \A i \in DOMAIN steps : steps[i].parent # 0 /\ steps[steps[i].parent].mode = "consult"
                             => steps[i].mode = "consult"

Waits(i) == i <= Len(steps) /\ steps[i].status = "waiting_reply"

\* Every response turn that was reserved is eventually spoken or given up,
\* even when colleagues are dismissed before they answer.
ReturnsComeBack == \A i \in 1..Cap : Waits(i) ~> ~Waits(i)

\* "questions return to you automatically": a round does not finish while a
\* response turn still waits.
NoReturnLeftWaiting ==
  phase = "finished" => \A i \in DOMAIN steps : steps[i].status # "waiting_reply"
=============================================================================
