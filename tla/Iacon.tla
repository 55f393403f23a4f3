------------------------------- MODULE Iacon -------------------------------
(***************************************************************************)
(* Iacon, the owner's memory: original sources, one governed state record  *)
(* with its revisions, Orion's durable work on the sources, the follow-up  *)
(* questions on Telegram, and the serving view that turns read.            *)
(*                                                                         *)
(* Orion works one unit at a time: a slice of a source is interpreted into *)
(* a proposal, a proposal is reviewed, and each unit pays at most one call *)
(* to its provider.  The process may die between any two transactions.     *)
(*                                                                         *)
(* The record is known by its version and phase; a proposal by the version *)
(* it was written against.  The day's allowance counts calls.              *)
(***************************************************************************)
EXTENDS Integers, Sequences, FiniteSets

CONSTANTS
  Notes,           \* the owner's original sources
  Slices,          \* slices of a source that are interpreted one by one
  Agents,          \* proposals made by agents through their tool
  DailyCalls,      \* the owner's ceiling on paid calls
  MaxVersions,     \* bound on the versions of the record
  MaxRepeats,      \* bound on questions scheduled again
  MaxDays,         \* bound on the days
  MaxDeaths        \* bound on the crashes

ASSUME IaconAssumption == Slices \in Nat \ {0} /\ MaxVersions \in Nat \ {0} /\ DailyCalls \in Nat

Versions == 1 .. MaxVersions
Interprets == {"interpret"} \X Notes \X (1 .. Slices)
Reviews == {"review"} \X (Notes \cup Agents) \X (1 .. Slices)
Units == Interprets \cup Reviews

Owner == <<"owner", "command", 0>>

VARIABLES
  record,          \* the governed state: version, phase
  revisions,       \* the command behind each version, and the version it was against
  notes,           \* captured sources: outcome, next slice, version replied to
  work,            \* IaconWork: status and, for a review, the proposal's base
  iaconCalls,      \* IaconCall of each unit: status and saved response
  paid,            \* calls dispatched to the provider, by unit
  spent,           \* calls admitted
  orion,           \* the drain in progress
  followups,       \* IaconFollowup of each version
  sending,         \* version whose question is on its way to Telegram, or 0
  asked, again,    \* how often a question arrived, and was scheduled again
  cooling,         \* a question was asked in the last 24 hours
  view,            \* serving unit and epoch
  turn,            \* what a turn has read, and was served
  iaconDays, iaconDeaths

iaconVars == <<record, revisions, notes, work, iaconCalls, paid, spent, orion, followups, sending, asked,
               again, cooling, view, turn, iaconDays, iaconDeaths>>
catalogue == <<record, revisions, followups, view>>
queue == <<notes, work, iaconCalls, paid, spent, orion>>
telegram == <<sending, asked, again, cooling>>
clock == <<iaconDays, iaconDeaths>>

Resting == [pc |-> "idle", job |-> <<>>, answer |-> "none"]
NoTurn == [pc |-> "idle", epoch |-> 0, unit |-> 0]

IaconTypeOK ==
  /\ record.version \in 0 .. MaxVersions /\ record.phase \in {"absent", "open", "closed", "retracted"}
  /\ Len(revisions) = record.version
  /\ \A u \in Units : work[u].status \in {"none", "pending", "running", "done", "held", "quarantined", "discarded"}
  /\ \A u \in Units : iaconCalls[u].status \in {"none", "reserved", "complete", "unknown"}
  /\ \A v \in Versions : followups[v] \in {"none", "scheduled", "sending", "sent", "unknown", "snoozed", "muted",
                                            "reply_pending", "needs_review", "answered", "superseded"}
  /\ sending \in 0 .. MaxVersions /\ spent \in 0 .. DailyCalls

\* The state was recorded by the owner (or imported) and asks its first question.
IaconInit ==
  /\ record = [version |-> 1, phase |-> "open"]
  /\ revisions = <<[command |-> Owner, base |-> 0]>>
  /\ notes = [n \in Notes |-> [outcome |-> "none", slice |-> 1, bound |-> 0]]
  /\ work = [u \in Units |-> [status |-> "none", base |-> 0]]
  /\ iaconCalls = [u \in Units |-> [status |-> "none", response |-> "none"]]
  /\ paid = [u \in Units |-> 0] /\ spent = 0 /\ orion = Resting
  /\ followups = [v \in Versions |-> IF v = 1 THEN "scheduled" ELSE "none"]
  /\ sending = 0 /\ asked = [v \in Versions |-> 0] /\ again = [v \in Versions |-> 0] /\ cooling = FALSE
  /\ view = [unit |-> 1, epoch |-> 1] /\ turn = NoTurn
  /\ iaconDays = 0 /\ iaconDeaths = 0

(***************************************************************************)
(* Catalogue.apply(), the only writer: one transaction                     *)
(***************************************************************************)
Current(base) == record.version = base /\ base < MaxVersions
\* A receipt of the command exists: it is answered, not applied again.
Received(command) == \E i \in DOMAIN revisions : revisions[i].command = command

Unsettled == {"scheduled", "sending", "sent", "unknown", "snoozed", "muted", "reply_pending", "needs_review"}

\* A mistake: the view is replaced, and readers are not told.
ProjectQuietly(version, phase) == [view EXCEPT !.unit = IF phase = "retracted" THEN 0 ELSE version]
\* _project(): the view of the new revision, and a new epoch.
Project(version, phase) ==
  [epoch |-> view.epoch + 1, unit |-> IF phase = "retracted" THEN 0 ELSE version]

\* Questions about the earlier version are over; an open state asks again.
Reviewed(version, phase, keep) ==
  [v \in Versions |->
    IF v = version THEN (IF phase = "open" THEN "scheduled" ELSE "none")
    ELSE IF v # keep /\ followups[v] \in Unsettled THEN "superseded" ELSE followups[v]]

Apply(command, base, phase, keep) ==
  /\ record' = [version |-> base + 1, phase |-> phase]
  /\ revisions' = Append(revisions, [command |-> command, base |-> base])
  /\ followups' = Reviewed(base + 1, phase, keep)
  /\ view' = Project(base + 1, phase)

\* The owner corrects, closes or retracts the record on the version they see.
OwnerWrites(phase) ==
  /\ Current(record.version)
  /\ Apply(Owner, record.version, phase, 0)
  /\ UNCHANGED <<queue, telegram, turn, clock>>

(***************************************************************************)
(* Orion's work                                                            *)
(***************************************************************************)
\* capture_source(): an original of the owner.
Capture(n) ==
  /\ notes[n].outcome = "none"
  /\ notes' = [notes EXCEPT ![n].outcome = "pending"]
  /\ UNCHANGED <<catalogue, work, iaconCalls, paid, spent, orion, telegram, turn, clock>>

\* propose(): an agent's proposal waits for a review.
Propose(a) ==
  /\ work[<<"review", a, 1>>].status = "none"
  /\ work' = [work EXCEPT ![<<"review", a, 1>>] = [status |-> "pending", base |-> record.version]]
  /\ UNCHANGED <<catalogue, notes, iaconCalls, paid, spent, orion, telegram, turn, clock>>

\* drain() starts with intake(): each source with work left queues its next slice.
DrainStarts ==
  LET due == {n \in Notes : notes[n].outcome \in {"pending", "iacon_pending"}}
  IN /\ orion.pc = "idle" /\ orion' = [Resting EXCEPT !.pc = "between"]
     /\ notes' = [n \in Notes |-> IF n \in due THEN [notes[n] EXCEPT !.outcome = "iacon_queued"] ELSE notes[n]]
     /\ work' = [u \in Units |->
          IF u[1] = "interpret" /\ u[2] \in due /\ u[3] = notes[u[2]].slice /\ work[u].status = "none"
          THEN [status |-> "pending", base |-> 0] ELSE work[u]]
     /\ UNCHANGED <<catalogue, iaconCalls, paid, spent, telegram, turn, clock>>

DrainEnds ==
  /\ orion.pc = "between" /\ orion' = Resting
  /\ UNCHANGED <<catalogue, notes, work, iaconCalls, paid, spent, telegram, turn, clock>>

\* The lease outlives every run (300 s), so only a dead run's lease is taken over.
LeaseExpires ==
  /\ orion.pc = "between" /\ \E u \in Units : work[u].status = "running"
  /\ work' = [u \in Units |-> IF work[u].status = "running" THEN [work[u] EXCEPT !.status = "pending"] ELSE work[u]]
  /\ UNCHANGED <<catalogue, notes, iaconCalls, paid, spent, orion, telegram, turn, clock>>

TakeWork(u) ==
  /\ orion.pc = "between" /\ work[u].status = "pending"
  /\ work' = [work EXCEPT ![u].status = "running"]
  /\ orion' = [orion EXCEPT !.pc = "claimed", !.job = u]
  /\ UNCHANGED <<catalogue, notes, iaconCalls, paid, spent, telegram, turn, clock>>

\* The end of a unit: its status, and a reply that came to nothing needs review.
Settle(status, then) ==
  LET u == orion.job
      bound == IF u[2] \in Notes THEN notes[u[2]].bound ELSE 0
  IN /\ work' = [work EXCEPT ![u].status = status]
     /\ orion' = [Resting EXCEPT !.pc = then]
     /\ followups' = [v \in Versions |->
          IF v = bound /\ followups[v] = "reply_pending" /\ (status \in {"held", "quarantined"} \/ orion.answer = "reject")
          THEN "needs_review" ELSE followups[v]]

\* A reply is about one version, a proposal against one.
Fresh(u) ==
  IF u[1] = "interpret" THEN notes[u[2]].bound \in {0, record.version} ELSE work[u].base = record.version

Stale ==
  /\ orion.pc = "claimed" /\ ~Fresh(orion.job)
  /\ Settle("quarantined", "between")
  /\ UNCHANGED <<record, revisions, view, notes, iaconCalls, paid, spent, telegram, turn, clock>>

\* A mistake: a call that was dispatched and never recorded is made again.
ReplayedComplete(u) == iaconCalls[u].status = "complete"
\* Whatever the outcome of an earlier call, it is not paid again.
Replayed(u) == iaconCalls[u].status # "none"

\* call(): a complete response is replayed, any other earlier call holds the unit.
Resume ==
  LET u == orion.job
  IN /\ orion.pc = "claimed" /\ Fresh(u) /\ Replayed(u)
     /\ \/ /\ iaconCalls[u].status = "complete"
           /\ orion' = [orion EXCEPT !.pc = "answered", !.answer = iaconCalls[u].response]
           /\ UNCHANGED <<work, followups>>
        \/ iaconCalls[u].status # "complete" /\ Settle("held", "between")
     /\ UNCHANGED <<record, revisions, view, notes, iaconCalls, paid, spent, telegram, turn, clock>>

\* reserve() and the dispatch; a refused reservation leaves the unit pending.
Pay ==
  LET u == orion.job
  IN /\ orion.pc = "claimed" /\ Fresh(u) /\ ~Replayed(u)
     /\ \/ /\ spent < DailyCalls /\ spent' = spent + 1
           /\ iaconCalls' = [iaconCalls EXCEPT ![u].status = "reserved"]
           /\ paid' = [paid EXCEPT ![u] = @ + 1]
           /\ orion' = [orion EXCEPT !.pc = "asking"]
           /\ UNCHANGED <<work, followups>>
        \/ spent = DailyCalls /\ Settle("pending", "idle") /\ UNCHANGED <<iaconCalls, paid, spent>>
     /\ UNCHANGED <<record, revisions, view, notes, telegram, turn, clock>>

\* What the provider may say.
Answers(u) == IF u[1] = "interpret" THEN {"propose", "nothing", "bad"} ELSE {"accept", "reject", "bad"}

Answered(answer) ==
  LET u == orion.job
  IN /\ orion.pc = "asking" /\ answer \in Answers(u)
     /\ iaconCalls' = [iaconCalls EXCEPT ![u] = [status |-> "complete", response |-> answer]]
     /\ orion' = [orion EXCEPT !.pc = "answered", !.answer = answer]
     /\ UNCHANGED <<catalogue, notes, work, paid, spent, telegram, turn, clock>>

\* The call failed, or the run's time was over.
Fails ==
  /\ orion.pc = "asking"
  /\ iaconCalls' = [iaconCalls EXCEPT ![orion.job].status = "unknown"]
  /\ Settle("held", "between")
  /\ UNCHANGED <<record, revisions, view, notes, paid, spent, telegram, turn, clock>>

\* A contract that was not kept, a rejection, and a proposal that came too late.
Refused ==
  /\ orion.pc = "answered"
  /\ \/ orion.answer = "bad" /\ Settle("quarantined", "between")
     \/ orion.answer = "reject" /\ Settle("done", "between")
     \/ /\ orion.answer = "accept" /\ ~Received(orion.job) /\ work[orion.job].base # record.version
        /\ Settle("quarantined", "between")
  /\ UNCHANGED <<record, revisions, view, notes, iaconCalls, paid, spent, telegram, turn, clock>>

\* The reviewed proposal becomes the next version, once.
Accepted(phase) ==
  LET u == orion.job
  IN /\ orion.pc = "answered" /\ orion.answer = "accept"
     /\ IF Received(u) THEN UNCHANGED catalogue
        ELSE Current(work[u].base) /\ Apply(u, work[u].base, phase, 0)
     /\ orion' = [orion EXCEPT !.pc = "applied"]
     /\ UNCHANGED <<notes, work, iaconCalls, paid, spent, telegram, turn, clock>>

\* The slice is over: its proposal is queued and the next slice may follow.
Interpreted ==
  LET u == orion.job
      n == u[2]
      review == <<"review", n, u[3]>>
  IN /\ orion.pc = "answered" /\ orion.answer \in {"propose", "nothing"}
     /\ work' = IF orion.answer = "propose" /\ work[review].status = "none"
                THEN [work EXCEPT ![review] = [status |-> "pending", base |-> record.version]] ELSE work
     /\ notes' = IF notes[n].slice # u[3] THEN notes
                 ELSE [notes EXCEPT ![n].slice = u[3] + 1,
                                    ![n].outcome = IF u[3] < Slices THEN "iacon_pending" ELSE "iacon_interpreted"]
     /\ orion' = [orion EXCEPT !.pc = "applied"]
     /\ UNCHANGED <<catalogue, iaconCalls, paid, spent, telegram, turn, clock>>

Completed ==
  /\ orion.pc = "applied" /\ Settle("done", "between")
  /\ UNCHANGED <<record, revisions, view, notes, iaconCalls, paid, spent, telegram, turn, clock>>

\* resolve(): only a unit whose calls are known to be complete is resumed.
ResolveWork(u, action) ==
  /\ work[u].status \in {"held", "quarantined", "pending"}
  /\ action = "resume_saved" => work[u].status # "quarantined" /\ iaconCalls[u].status \in {"none", "complete"}
  /\ work' = [work EXCEPT ![u].status = IF action = "discard" THEN "discarded" ELSE "pending"]
  /\ UNCHANGED <<catalogue, notes, iaconCalls, paid, spent, orion, telegram, turn, clock>>

(***************************************************************************)
(* Follow-up questions                                                     *)
(***************************************************************************)
PendingEvidence ==
  \/ \E n \in Notes : notes[n].outcome \in {"pending", "iacon_pending", "iacon_queued"}
  \/ \E u \in Reviews : work[u].status \in {"pending", "running", "held"}

\* send_due(): claimed in the transaction that checks cooldown and evidence.
SendDue(v) ==
  /\ sending = 0 /\ ~cooling /\ followups[v] \in {"scheduled", "snoozed"}
  /\ IF record.version = v /\ record.phase = "open"
     THEN ~PendingEvidence /\ followups' = [followups EXCEPT ![v] = "sending"] /\ sending' = v /\ cooling' = TRUE
     ELSE followups' = [followups EXCEPT ![v] = "superseded"] /\ UNCHANGED <<sending, cooling>>
  /\ UNCHANGED <<record, revisions, view, queue, asked, again, turn, clock>>

\* A mistake: a delivery that is not known to have arrived is tried again.
UnsentAgain(v) == [followups EXCEPT ![v] = IF @ = "sending" THEN "scheduled" ELSE @]
Unsent(v) == [followups EXCEPT ![v] = IF @ = "sending" THEN "unknown" ELSE @]

\* Telegram answers, or does not; without an answer it may have arrived.
SendReturns(arrived, known) ==
  /\ sending # 0 /\ sending' = 0 /\ (known => arrived)
  /\ asked' = IF arrived THEN [asked EXCEPT ![sending] = @ + 1] ELSE asked
  /\ followups' = IF known
                  THEN [followups EXCEPT ![sending] = IF @ = "sending" THEN "sent" ELSE @]
                  ELSE Unsent(sending)
  /\ UNCHANGED <<record, revisions, view, queue, again, cooling, turn, clock>>

\* resolve(): the owner settles a question by hand.
ResolveFollowup(v, action) ==
  /\ followups[v] \in Unsettled \ {"scheduled"}
  /\ followups' = [followups EXCEPT ![v] =
       CASE action = "mute" -> "muted" [] action = "snooze" -> "snoozed"
         [] action = "confirmed_not_sent" -> "scheduled" [] action = "confirmed_sent" -> "sent"]
  /\ again' = IF action \in {"snooze", "confirmed_not_sent"} THEN [again EXCEPT ![v] = @ + 1] ELSE again
  /\ again'[v] <= MaxRepeats
  /\ cooling' = (cooling /\ action # "confirmed_not_sent")
  /\ UNCHANGED <<record, revisions, view, queue, sending, asked, turn, clock>>

\* receive(): a button of the question about version v.
Tap(v, action) ==
  /\ asked[v] > 0 /\ record.version = v
  /\ followups[v] \in {"sent", "unknown", "sending", "reply_pending", "needs_review"}
  /\ CASE action \in {"snooze", "mute"} ->
            /\ followups' = [followups EXCEPT ![v] = IF action = "snooze" THEN "snoozed" ELSE "muted"]
            /\ again' = IF action = "snooze" THEN [again EXCEPT ![v] = @ + 1] ELSE again
            /\ again'[v] <= MaxRepeats
            /\ UNCHANGED <<record, revisions, view>>
       [] OTHER ->
            /\ Current(v)
            /\ record' = [version |-> v + 1, phase |-> IF action = "wait" THEN "open" ELSE "closed"]
            /\ revisions' = Append(revisions, [command |-> <<"telegram", "button", v>>, base |-> v])
            /\ followups' = [Reviewed(v + 1, record'.phase, v) EXCEPT ![v] = "answered"]
            /\ view' = Project(v + 1, record'.phase)
            /\ UNCHANGED again
  /\ UNCHANGED <<queue, sending, asked, cooling, turn, clock>>

\* receive(): words in reply to the question, kept as a source bound to its version.
Reply(v, n) ==
  /\ asked[v] > 0 /\ record.version = v /\ notes[n].outcome = "none"
  /\ followups[v] \in {"sent", "unknown", "sending", "reply_pending", "needs_review"}
  /\ followups' = [followups EXCEPT ![v] = "reply_pending"]
  /\ notes' = [notes EXCEPT ![n].outcome = "pending", ![n].bound = v]
  /\ UNCHANGED <<record, revisions, view, work, iaconCalls, paid, spent, orion, telegram, turn, clock>>

(***************************************************************************)
(* Serving a turn                                                          *)
(***************************************************************************)
\* read(): epoch and evidence of one short transaction.
TurnReads ==
  /\ turn.pc = "idle" /\ turn' = [pc |-> "assembling", epoch |-> view.epoch, unit |-> view.unit]
  /\ UNCHANGED <<catalogue, queue, telegram, clock>>

\* The packet is served only when the epoch is still the same.
TurnServed ==
  /\ turn.pc = "assembling"
  /\ turn' = IF turn.epoch = view.epoch THEN [turn EXCEPT !.pc = "served"] ELSE NoTurn
  /\ UNCHANGED <<catalogue, queue, telegram, clock>>
TurnOver ==
  /\ turn.pc = "served" /\ turn' = NoTurn
  /\ UNCHANGED <<catalogue, queue, telegram, clock>>

(***************************************************************************)
(* Days and deaths                                                         *)
(***************************************************************************)
DayPasses ==
  /\ cooling /\ sending = 0 /\ iaconDays < MaxDays /\ iaconDays' = iaconDays + 1 /\ cooling' = FALSE
  /\ UNCHANGED <<catalogue, queue, sending, asked, again, turn, iaconDeaths>>

\* Claims and a question on its way stay as they were written.
ProcessDies(arrived) ==
  /\ orion.pc # "idle" \/ sending # 0
  /\ iaconDeaths < MaxDeaths /\ iaconDeaths' = iaconDeaths + 1
  /\ orion' = Resting /\ turn' = NoTurn /\ sending' = 0
  /\ asked' = IF sending # 0 /\ arrived THEN [asked EXCEPT ![sending] = @ + 1] ELSE asked
  /\ UNCHANGED <<catalogue, notes, work, iaconCalls, paid, spent, again, cooling, iaconDays>>

IaconNext ==
  \/ \E phase \in {"open", "closed", "retracted"} : OwnerWrites(phase) \/ (phase # "retracted" /\ Accepted(phase))
  \/ \E n \in Notes : Capture(n) \/ \E v \in Versions : Reply(v, n)
  \/ \E a \in Agents : Propose(a)
  \/ DrainStarts \/ DrainEnds \/ LeaseExpires \/ Stale \/ Resume \/ Pay \/ Fails \/ Refused \/ Interpreted \/ Completed
  \/ \E u \in Units : TakeWork(u) \/ \E action \in {"discard", "resume_saved"} : ResolveWork(u, action)
  \/ \E answer \in {"propose", "nothing", "accept", "reject", "bad"} : Answered(answer)
  \/ \E v \in Versions :
       \/ SendDue(v)
       \/ \E action \in {"mute", "snooze", "confirmed_not_sent", "confirmed_sent"} : ResolveFollowup(v, action)
       \/ \E action \in {"done", "wait", "snooze", "mute"} : Tap(v, action)
  \/ \E arrived, known \in BOOLEAN : SendReturns(arrived, known)
  \/ TurnReads \/ TurnServed \/ TurnOver \/ DayPasses
  \/ \E arrived \in BOOLEAN : ProcessDies(arrived)

IaconSpec == IaconInit /\ [][IaconNext]_iaconVars

(***************************************************************************)
(* Properties                                                              *)
(***************************************************************************)
\* Each version was written against the one before it, and each unit of work or
\* button wrote at most one of them: no proposal and no reply lands on a state
\* its author had not seen.
WrittenOnce ==
  \A i \in DOMAIN revisions :
    /\ revisions[i].base = i - 1
    /\ \A j \in DOMAIN revisions : revisions[i].command = revisions[j].command /\ i # j => revisions[i].command = Owner

\* A unit of Orion's work is paid for once, whatever dies, fails or is resumed.
UnitsPaidOnce == (\A u \in Units : paid[u] <= 1) /\ spent <= DailyCalls

\* A question is asked once, and once more for each time the owner put it off.
AskedOnce == \A v \in Versions : asked[v] <= 1 + again[v]

\* What a turn is served was the current view at the moment it was served.
ServedAsCurrent == turn.pc = "assembling" /\ turn'.pc = "served" => turn'.unit = view.unit

ServedCurrent == [][ServedAsCurrent]_iaconVars

\* Memory is written, paid for and asked about once (iacon_worker.py, iacon_budget.py,
\* iacon_telegram.py, iacon_catalogue.py).
MemorySound == WrittenOnce /\ UnitsPaidOnce /\ AskedOnce
=============================================================================
