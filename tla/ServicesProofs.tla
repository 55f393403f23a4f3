---------------------------- MODULE ServicesProofs ----------------------------
(***************************************************************************)
(* Proofs about the owner's records, for any sources, editions, samples,   *)
(* calls and bounds.  Iacon: versions are written once, units are paid     *)
(* once, questions are asked once, a turn is served what is current.  The  *)
(* library and the health readings say what their sources said.  Accounts  *)
(* and calendar survive races, refusals and lost answers.  Solus: the      *)
(* books are sound after any sequence of commands, and what is posted is   *)
(* posted in an open period, to the account of the moment.                 *)
(***************************************************************************)
EXTENDS MCServices, FiniteSetTheorems, TLAPS

-----------------------------------------------------------------------------
(* Versions. *)

Commands == {Owner} \cup Units \cup ({"telegram"} \X {"button"} \X Nat)

\* The history is as long as the version, each revision is against the one
\* before it, and a button's command names the version it was pressed on.
RecordWritten ==
  /\ record \in [version : 1 .. MaxVersions, phase : {"open", "closed", "retracted"}]
  /\ revisions \in Seq([command : Commands, base : Nat]) /\ Len(revisions) = record.version
  /\ \A i \in DOMAIN revisions : revisions[i].command[1] = "telegram" => revisions[i].command = <<"telegram", "button", i - 1>>
  /\ WrittenOnce

\* What one new revision needs to keep the history sound.
LEMMA OneRevision ==
  ASSUME RecordWritten, NEW c \in Commands, NEW phase \in {"open", "closed", "retracted"},
         record.version < MaxVersions,
         record' = [version |-> record.version + 1, phase |-> phase],
         revisions' = Append(revisions, [command |-> c, base |-> record.version]),
         c # Owner => ~Received(c),
         c[1] = "telegram" => c = <<"telegram", "button", record.version>>
  PROVE  RecordWritten'
<1> DEFINE n == record.version
           new == [command |-> c, base |-> n]
<1>1. n \in Nat /\ n >= 1 /\ Len(revisions) = n /\ revisions \in Seq([command : Commands, base : Nat]) /\ n + 1 \in 1 .. MaxVersions
  BY IaconAssumption DEF RecordWritten
<1>2. new \in [command : Commands, base : Nat]
  BY <1>1
<1>3. /\ revisions' \in Seq([command : Commands, base : Nat]) /\ Len(revisions') = n + 1
      /\ DOMAIN revisions = 1 .. n /\ DOMAIN revisions' = 1 .. (n + 1)
      /\ revisions'[n + 1] = new /\ \A i \in 1 .. n : revisions'[i] = revisions[i]
  BY <1>1, <1>2
<1>4. ASSUME NEW i \in 1 .. (n + 1)
      PROVE  /\ revisions'[i].base = i - 1
             /\ revisions'[i].command[1] = "telegram" => revisions'[i].command = <<"telegram", "button", i - 1>>
  <2>1. CASE i = n + 1
    BY <1>1, <1>3, <2>1
  <2>2. CASE i # n + 1
    <3>1. i \in 1 .. n
      BY <1>1, <2>2
    <3> QED BY ZenonT(60), <1>3, <3>1 DEF RecordWritten, WrittenOnce
  <2> QED BY <2>1, <2>2
<1>5. ASSUME NEW i \in 1 .. (n + 1), NEW j \in 1 .. (n + 1), i # j, revisions'[i].command = revisions'[j].command
      PROVE  revisions'[i].command = Owner
  <2>1. ASSUME NEW k \in 1 .. n, revisions[k].command = c PROVE c = Owner
    BY <1>3, <2>1 DEF Received
  <2>2. CASE i = n + 1
    <3>1. j \in 1 .. n
      BY <1>1, <1>5, <2>2
    <3> QED BY <1>3, <1>5, <2>1, <2>2, <3>1
  <2>3. CASE j = n + 1
    <3>1. i \in 1 .. n
      BY <1>1, <1>5, <2>3
    <3> QED BY <1>3, <1>5, <2>1, <2>3, <3>1
  <2>4. CASE i # n + 1 /\ j # n + 1
    <3>1. i \in 1 .. n /\ j \in 1 .. n
      BY <1>1, <2>4
    <3> QED BY ZenonT(60), <1>3, <1>5, <3>1 DEF RecordWritten, WrittenOnce
  <2> QED BY <2>2, <2>3, <2>4
<1>6. WrittenOnce'
  BY <1>3, <1>4, <1>5 DEF WrittenOnce
<1>7. record' \in [version : 1 .. MaxVersions, phase : {"open", "closed", "retracted"}] /\ record'.version = n + 1
  BY <1>1
<1> QED BY <1>3, <1>4, <1>6, <1>7 DEF RecordWritten

\* Orion works on a unit, and every unit has been paid for at most once.
Paid ==
  /\ orion \in [pc : {"idle", "between", "claimed", "asking", "answered", "applied"}, job : Units \cup {<<>>},
               answer : {"none", "propose", "nothing", "accept", "reject", "bad"}]
  /\ orion.pc \notin {"idle", "between"} => orion.job \in Units
  /\ iaconCalls \in [Units -> [status : {"none", "reserved", "complete", "unknown"},
                             response : {"none", "propose", "nothing", "accept", "reject", "bad"}]]
  /\ paid \in [Units -> 0 .. 1]
  /\ \A u \in Units : iaconCalls[u].status = "none" => paid[u] = 0
  /\ spent \in 0 .. DailyCalls

\* Every step keeps the units' bookkeeping.
LEMMA PaidStep ==
  ASSUME Paid, [IaconNext]_iaconVars
  PROVE  Paid'
<1>1. CASE DrainStarts
  BY <1>1 DEF Paid, DrainStarts, Resting, catalogue, telegram, clock
<1>2. CASE DrainEnds \/ \E a \in BOOLEAN : ProcessDies(a)
  BY <1>2 DEF Paid, DrainEnds, ProcessDies, Resting, catalogue, telegram, clock
<1>3. ASSUME NEW u \in Units, TakeWork(u) PROVE Paid'
  BY <1>3 DEF Paid, TakeWork, catalogue, telegram, clock
<1>4. CASE Stale \/ Refused \/ Completed
  BY <1>4 DEF Paid, Stale, Refused, Completed, Settle, Resting, telegram, clock
<1>5. CASE Resume
  BY <1>5 DEF Paid, Resume, Settle, Resting, telegram, clock
<1>6. CASE Pay
  <2>1. orion.job \in Units
    BY <1>6 DEF Paid, Pay
  <2>2. CASE UNCHANGED <<iaconCalls, paid, spent>>
    BY <1>6, <2>2 DEF Paid, Pay, Settle, Resting
  <2>3. CASE /\ spent < DailyCalls /\ spent' = spent + 1
             /\ iaconCalls' = [iaconCalls EXCEPT ![orion.job].status = "reserved"]
             /\ paid' = [paid EXCEPT ![orion.job] = @ + 1]
             /\ orion' = [orion EXCEPT !.pc = "asking"]
    <3>1. paid[orion.job] = 0
      BY <1>6, <2>1 DEF Paid, Pay, Replayed
    <3>2. spent' \in 0 .. DailyCalls
      BY <2>3, IaconAssumption DEF Paid
    <3>3. paid' \in [Units -> 0 .. 1]
      BY <2>1, <2>3, <3>1 DEF Paid
    <3>4. /\ iaconCalls' \in [Units -> [status : {"none", "reserved", "complete", "unknown"},
                                    response : {"none", "propose", "nothing", "accept", "reject", "bad"}]]
          /\ \A u \in Units : iaconCalls'[u].status = "none" => paid'[u] = 0
      BY <2>1, <2>3 DEF Paid
    <3> QED BY <2>1, <2>3, <3>2, <3>3, <3>4 DEF Paid
  <2> QED BY <1>6, <2>2, <2>3 DEF Pay
<1>7. ASSUME NEW answer \in {"propose", "nothing", "accept", "reject", "bad"}, Answered(answer) PROVE Paid'
  <2>1. orion.job \in Units /\ orion' = [orion EXCEPT !.pc = "answered", !.answer = answer] /\ UNCHANGED <<paid, spent>>
        /\ iaconCalls' = [iaconCalls EXCEPT ![orion.job] = [status |-> "complete", response |-> answer]]
    BY <1>7 DEF Paid, Answered
  <2> QED BY <2>1 DEF Paid
<1>8. CASE Fails
  BY <1>8 DEF Paid, Fails, Settle, Resting
<1>9. CASE Interpreted \/ \E phase \in {"open", "closed"} : Accepted(phase)
  BY <1>9 DEF Paid, Interpreted, Accepted, telegram, clock
<1>10. CASE UNCHANGED <<orion, iaconCalls, paid, spent>>
  BY <1>10 DEF Paid
<1>11. ASSUME (\E phase \in {"open", "closed", "retracted"} : OwnerWrites(phase))
              \/ (\E n \in Notes : Capture(n) \/ \E v \in Versions : Reply(v, n))
              \/ (\E a \in Agents : Propose(a)) \/ LeaseExpires
              \/ (\E u \in Units, action \in {"discard", "resume_saved"} : ResolveWork(u, action))
       PROVE  UNCHANGED <<orion, iaconCalls, paid, spent>>
  BY <1>11 DEF OwnerWrites, Capture, Reply, Propose, LeaseExpires, ResolveWork, queue
<1>12. ASSUME (\E v \in Versions : SendDue(v) \/ (\E action \in {"mute", "snooze", "confirmed_not_sent", "confirmed_sent"} : ResolveFollowup(v, action))
                                    \/ (\E action \in {"done", "wait", "snooze", "mute"} : Tap(v, action)))
              \/ (\E arrived, known \in BOOLEAN : SendReturns(arrived, known))
              \/ TurnReads \/ TurnServed \/ TurnOver \/ DayPasses \/ UNCHANGED iaconVars
       PROVE  UNCHANGED <<orion, iaconCalls, paid, spent>>
  BY <1>12 DEF SendDue, ResolveFollowup, Tap, SendReturns, TurnReads, TurnServed, TurnOver, DayPasses, iaconVars, queue
<1> QED
  BY <1>1, <1>2, <1>3, <1>4, <1>5, <1>6, <1>7, <1>8, <1>9, <1>10, <1>11, <1>12 DEF IaconNext

\* A new version is written by the owner, by Orion or by a button, in OneRevision's form.
LEMMA WrittenStep ==
  ASSUME RecordWritten, Paid, [IaconNext]_iaconVars
  PROVE  RecordWritten'
<1>1. ASSUME NEW phase \in {"open", "closed", "retracted"}, OwnerWrites(phase) PROVE RecordWritten'
  <2>1. Owner \in Commands /\ Owner[1] # "telegram"
    BY DEF Commands, Owner
  <2>2. record.version < MaxVersions /\ record' = [version |-> record.version + 1, phase |-> phase]
        /\ revisions' = Append(revisions, [command |-> Owner, base |-> record.version])
    BY <1>1 DEF OwnerWrites, Current, Apply
  <2> QED BY <2>1, <2>2, OneRevision
<1>2. ASSUME NEW phase \in {"open", "closed"}, Accepted(phase) PROVE RecordWritten'
  <2>1. PICK u \in Units : u = orion.job
    BY <1>2 DEF Accepted, Paid
  <2>2. u \in Commands /\ u[1] # "telegram"
    BY DEF Commands, Units, Interprets, Reviews
  <2>3. CASE Received(u)
    BY <1>2, <2>1, <2>3 DEF Accepted, catalogue, RecordWritten, WrittenOnce
  <2>4. CASE ~Received(u)
    <3>1. record.version < MaxVersions /\ record' = [version |-> record.version + 1, phase |-> phase]
          /\ revisions' = Append(revisions, [command |-> u, base |-> record.version])
      BY <1>2, <2>1, <2>4 DEF Accepted, Current, Apply
    <3> QED BY <2>2, <2>4, <3>1, OneRevision
  <2> QED BY <2>3, <2>4
<1>3. ASSUME NEW v \in Versions, NEW action \in {"done", "wait", "snooze", "mute"}, Tap(v, action) PROVE RecordWritten'
  <2>1. CASE action \in {"snooze", "mute"}
    BY <1>3, <2>1 DEF Tap, RecordWritten, WrittenOnce
  <2>2. CASE action \notin {"snooze", "mute"}
    <3> DEFINE c == <<"telegram", "button", v>>
    <3>1. /\ record.version = v /\ v < MaxVersions
          /\ \E phase \in {"open", "closed", "retracted"} : record' = [version |-> record.version + 1, phase |-> phase]
          /\ revisions' = Append(revisions, [command |-> c, base |-> record.version])
      BY <1>3, <2>2 DEF Tap, Current
    <3>2. c \in Commands
      BY DEF Commands, Versions
    <3>3. ~Received(c)
      <4>1. SUFFICES ASSUME NEW i \in DOMAIN revisions, revisions[i].command = c PROVE FALSE
        BY DEF Received
      <4>2. i - 1 = v
        BY <4>1 DEF RecordWritten
      <4>3. i \in 1 .. v /\ v \in Nat
        BY <3>1 DEF RecordWritten, Versions
      <4> QED BY <4>2, <4>3
    <3> QED BY <3>1, <3>2, <3>3, OneRevision
  <2> QED BY <2>1, <2>2
<1>4. CASE UNCHANGED <<record, revisions>>
  BY <1>4 DEF RecordWritten, WrittenOnce
<1>5. ASSUME (\E n \in Notes : Capture(n) \/ \E v \in Versions : Reply(v, n))
              \/ (\E a \in Agents : Propose(a)) \/ DrainStarts \/ DrainEnds \/ LeaseExpires \/ Stale \/ Resume
              \/ Pay \/ Fails \/ Refused \/ Interpreted \/ Completed
              \/ (\E u \in Units : TakeWork(u) \/ \E action \in {"discard", "resume_saved"} : ResolveWork(u, action))
      PROVE  UNCHANGED <<record, revisions>>
  BY ZenonT(60), <1>5 DEF Capture, Reply, Propose, DrainStarts, DrainEnds, LeaseExpires, Stale, Resume, Pay, Fails, Refused,
              Interpreted, Completed, TakeWork, ResolveWork, catalogue
<1>6. ASSUME (\E answer \in {"propose", "nothing", "accept", "reject", "bad"} : Answered(answer))
             \/ (\E v \in Versions : SendDue(v) \/ \E action \in {"mute", "snooze", "confirmed_not_sent", "confirmed_sent"} : ResolveFollowup(v, action))
             \/ (\E arrived, known \in BOOLEAN : SendReturns(arrived, known))
             \/ TurnReads \/ TurnServed \/ TurnOver \/ DayPasses \/ (\E arrived \in BOOLEAN : ProcessDies(arrived))
             \/ UNCHANGED iaconVars
      PROVE  UNCHANGED <<record, revisions>>
  BY <1>6 DEF Answered, SendDue, ResolveFollowup, SendReturns, TurnReads, TurnServed, TurnOver, DayPasses, ProcessDies,
              iaconVars, catalogue
<1> QED BY <1>1, <1>2, <1>3, <1>4, <1>5, <1>6 DEF IaconNext

-----------------------------------------------------------------------------
(* Questions. *)

OnItsWay(v) == IF sending = v THEN 1 ELSE 0
Due(v) == IF followups[v] \in {"scheduled", "snoozed"} THEN 1 ELSE 0

\* A question that is due or on its way counts as asked already: every way to
\* make it due again is one the owner chose.
Asked ==
  /\ followups \in [Versions -> Unsettled \cup {"none", "answered", "superseded"}]
  /\ asked \in [Versions -> Nat] /\ again \in [Versions -> Nat] /\ sending \in 0 .. MaxVersions
  /\ \A v \in Versions : v > record.version =>
       followups[v] = "none" /\ asked[v] = 0 /\ again[v] = 0 /\ sending # v
  /\ \A v \in Versions : asked[v] + OnItsWay(v) + Due(v) <= 1 + again[v]

\* What becomes of the questions when a version is written.
Renewed ==
  \A v \in Versions :
    \/ v = record.version + 1 /\ followups'[v] \in {"scheduled", "none"}
    \/ v # record.version + 1 /\ followups'[v] = followups[v]
    \/ v # record.version + 1 /\ followups[v] # "none" /\ followups'[v] \in {"superseded", "answered"}

\* A new version asks its own first question and takes back the others'.
LEMMA NewVersionAsks ==
  ASSUME RecordWritten, Asked, NEW phase \in {"open", "closed", "retracted"},
         record.version < MaxVersions, record'.version = record.version + 1,
         Renewed,
         followups' = [v \in Versions |-> followups'[v]],
         UNCHANGED <<asked, again, sending>>
  PROVE  Asked'
<1>1. record.version \in 1 .. MaxVersions /\ MaxVersions \in Nat /\ \A v \in Versions : v \in Nat
  BY IaconAssumption DEF RecordWritten, Versions
<1>2. followups' \in [Versions -> Unsettled \cup {"none", "answered", "superseded"}]
  BY DEF Asked, Unsettled, Renewed
<1>3. \A v \in Versions : v > record'.version => followups'[v] = "none" /\ asked'[v] = 0 /\ again'[v] = 0 /\ sending' # v
  <2>1. SUFFICES ASSUME NEW v \in Versions, v > record'.version
                 PROVE  followups'[v] = "none" /\ asked'[v] = 0 /\ again'[v] = 0 /\ sending' # v
    OBVIOUS
  <2>2. v > record.version /\ v # record.version + 1
    BY <1>1, <2>1
  <2>3. followups[v] = "none" /\ asked[v] = 0 /\ again[v] = 0 /\ sending # v
    BY <2>2 DEF Asked
  <2> QED BY <2>2, <2>3 DEF Renewed
<1>4. ASSUME NEW v \in Versions PROVE asked'[v] + OnItsWay(v)' + Due(v)' <= 1 + again'[v]
  <2>1. asked[v] \in Nat /\ again[v] \in Nat /\ asked[v] + OnItsWay(v) + Due(v) <= 1 + again[v]
        /\ OnItsWay(v)' = OnItsWay(v) /\ OnItsWay(v) \in 0 .. 1 /\ Due(v) \in 0 .. 1 /\ Due(v)' \in 0 .. 1
    BY DEF Asked, OnItsWay, Due
  <2>2. CASE v = record.version + 1
    <3>1. asked[v] = 0 /\ OnItsWay(v) = 0
      BY <1>1, <2>2 DEF Asked, OnItsWay
    <3> QED BY <2>1, <3>1
  <2>3. CASE v # record.version + 1
    <3>1. Due(v)' <= Due(v)
      BY <2>3 DEF Due, Renewed
    <3> QED BY <2>1, <3>1
  <2> QED BY <2>2, <2>3 DEF Renewed
<1> QED BY <1>1, <1>2, <1>3, <1>4 DEF Asked, OnItsWay, Due

\* A step of one version's question: what becomes due or arrives was due, on
\* its way, or scheduled again by the owner.
LEMMA OneQuestion ==
  ASSUME RecordWritten, Asked, NEW v \in Versions, v <= record.version, record' = record,
         NEW state \in Unsettled \cup {"superseded"},
         followups' = followups \/ followups' = [followups EXCEPT ![v] = state],
         asked' = asked \/ asked' = [asked EXCEPT ![v] = @ + 1],
         again' = again \/ again' = [again EXCEPT ![v] = @ + 1],
         sending' = sending \/ (sending' \in {0, v} /\ sending \in {0, v}),
         asked'[v] + OnItsWay(v)' + Due(v)' + again[v] <= asked[v] + OnItsWay(v) + Due(v) + again'[v]
  PROVE  Asked'
<1>1. /\ record.version \in Nat /\ MaxVersions \in Nat /\ \A w \in Versions : w \in 1 .. MaxVersions
      /\ 0 \in 0 .. MaxVersions /\ v \in 0 .. MaxVersions
  BY IaconAssumption DEF RecordWritten, Versions
<1>2. /\ followups' \in [Versions -> Unsettled \cup {"none", "answered", "superseded"}]
      /\ asked' \in [Versions -> Nat] /\ again' \in [Versions -> Nat] /\ sending' \in 0 .. MaxVersions
  <2>1. followups' \in [Versions -> Unsettled \cup {"none", "answered", "superseded"}]
    BY DEF Asked
  <2>2. asked' \in [Versions -> Nat] /\ again' \in [Versions -> Nat]
    BY DEF Asked
  <2>3. sending' \in 0 .. MaxVersions
    BY <1>1 DEF Asked
  <2> QED BY <2>1, <2>2, <2>3
<1>3. \A w \in Versions : w # v =>
        followups'[w] = followups[w] /\ asked'[w] = asked[w] /\ again'[w] = again[w] /\ (sending' = w <=> sending = w)
  BY <1>1 DEF Asked
<1>4. \A w \in Versions : w > record'.version =>
        followups'[w] = "none" /\ asked'[w] = 0 /\ again'[w] = 0 /\ sending' # w
  BY <1>1, <1>3 DEF Asked
<1>5. ASSUME NEW w \in Versions PROVE asked'[w] + OnItsWay(w)' + Due(w)' <= 1 + again'[w]
  <2>1. CASE w = v
    <3>1. /\ asked[v] \in Nat /\ again[v] \in Nat /\ asked'[v] \in Nat /\ again'[v] \in Nat
          /\ OnItsWay(v) \in 0 .. 1 /\ Due(v) \in 0 .. 1 /\ OnItsWay(v)' \in 0 .. 1 /\ Due(v)' \in 0 .. 1
      BY <1>2 DEF Asked, OnItsWay, Due
    <3>2. asked[v] + OnItsWay(v) + Due(v) <= 1 + again[v]
      BY DEF Asked
    <3> QED BY <2>1, <3>1, <3>2
  <2>2. CASE w # v
    <3>1. OnItsWay(w)' = OnItsWay(w) /\ Due(w)' = Due(w) /\ asked'[w] = asked[w] /\ again'[w] = again[w]
      BY <1>3, <2>2 DEF OnItsWay, Due
    <3> QED BY <3>1 DEF Asked
  <2> QED BY <2>1, <2>2
<1> QED BY <1>2, <1>4, <1>5 DEF Asked, OnItsWay, Due

\* The end of a unit makes no question due.
LEMMA SettleAsks ==
  ASSUME RecordWritten, Asked, NEW status, NEW then, Settle(status, then), UNCHANGED <<record, asked, again, sending>>
  PROVE  Asked'
<1>1. /\ followups' \in [Versions -> Unsettled \cup {"none", "answered", "superseded"}]
      /\ \A v \in Versions : followups'[v] = followups[v] \/ (followups[v] = "reply_pending" /\ followups'[v] = "needs_review")
  BY DEF Settle, Asked, Unsettled
<1>2. \A v \in Versions : Due(v)' = Due(v) /\ OnItsWay(v)' = OnItsWay(v)
  BY <1>1 DEF Due, OnItsWay
<1>3. \A v \in Versions : v > record.version => followups'[v] = "none"
  BY <1>1 DEF Asked
<1>4. \A v \in Versions : asked[v] + OnItsWay(v)' + Due(v)' <= 1 + again[v]
  BY <1>2 DEF Asked
<1> QED BY <1>1, <1>3, <1>4 DEF Asked, OnItsWay, Due

\* The questions after a new version: its own, if the state is open, and none
\* that was unsettled before, except the one that is being answered.
LEMMA ReviewedShape ==
  ASSUME NEW n \in Nat, NEW phase, NEW keep, NEW w \in Versions
  PROVE  LET after == Reviewed(n, phase, keep)[w]
         IN \/ w = n /\ after \in {"scheduled", "none"}
            \/ w # n /\ (after = followups[w] \/ (followups[w] # "none" /\ after = "superseded"))
<1>1. followups[w] \in Unsettled => followups[w] # "none"
  BY DEF Unsettled
<1>2. Reviewed(n, phase, keep)[w] =
        IF w = n THEN (IF phase = "open" THEN "scheduled" ELSE "none")
        ELSE IF w # keep /\ followups[w] \in Unsettled THEN "superseded" ELSE followups[w]
  BY DEF Reviewed
<1> QED BY <1>1, <1>2

\* Every step keeps the count of questions.
LEMMA AskedStep ==
  ASSUME RecordWritten, Asked, [IaconNext]_iaconVars
  PROVE  Asked'
<1>0. ASSUME NEW v \in Versions PROVE /\ asked[v] \in Nat /\ again[v] \in Nat /\ v \in Nat /\ v # 0
                                    /\ OnItsWay(v) \in 0 .. 1 /\ Due(v) \in 0 .. 1 /\ record.version \in Nat
  BY SMTT(60), IaconAssumption DEF Asked, RecordWritten, Versions, OnItsWay, Due
<1>1. ASSUME NEW v \in Versions, asked[v] > 0 \/ followups[v] # "none" \/ sending = v PROVE v <= record.version
  BY <1>0, <1>1 DEF Asked
<1>2. ASSUME NEW phase \in {"open", "closed", "retracted"}, OwnerWrites(phase) PROVE Asked'
  <2>1. /\ record.version < MaxVersions /\ record'.version = record.version + 1 /\ UNCHANGED <<asked, again, sending>>
        /\ followups' = Reviewed(record.version + 1, phase, 0)
    BY <1>2 DEF OwnerWrites, Current, Apply, telegram
  <2>2. record.version + 1 \in Nat
    BY DEF RecordWritten
  <2>3. followups' = [v \in Versions |-> followups'[v]]
    BY <2>1 DEF Reviewed
  <2>4. Renewed
    BY <2>1, <2>2, ReviewedShape DEF Renewed
  <2> QED BY <2>1, <2>3, <2>4, NewVersionAsks
<1>3. ASSUME NEW phase \in {"open", "closed"}, Accepted(phase) PROVE Asked'
  <2>1. CASE Received(orion.job)
    BY <1>3, <2>1 DEF Accepted, catalogue, telegram, Asked, OnItsWay, Due
  <2>2. CASE ~Received(orion.job)
    <3>1. /\ record.version < MaxVersions /\ record'.version = record.version + 1 /\ UNCHANGED <<asked, again, sending>>
          /\ followups' = Reviewed(record.version + 1, phase, 0)
      BY <1>3, <2>2 DEF Accepted, Current, Apply, telegram
    <3>2. record.version + 1 \in Nat
      BY DEF RecordWritten
    <3>3. followups' = [v \in Versions |-> followups'[v]]
      BY <3>1 DEF Reviewed
    <3>4. Renewed
      BY <3>1, <3>2, ReviewedShape DEF Renewed
    <3> QED BY <3>1, <3>3, <3>4, NewVersionAsks
  <2> QED BY <2>1, <2>2
<1>4. ASSUME NEW v \in Versions, NEW action \in {"done", "wait", "snooze", "mute"}, Tap(v, action) PROVE Asked'
  <2>1. CASE action \notin {"snooze", "mute"}
    <3>1. /\ record.version = v /\ v < MaxVersions /\ record'.version = record.version + 1 /\ record'.phase \in {"open", "closed"}
          /\ UNCHANGED <<asked, again, sending>> /\ followups[v] # "none"
          /\ followups' = [Reviewed(v + 1, record'.phase, v) EXCEPT ![v] = "answered"]
      BY <1>4, <2>1 DEF Tap, Current
    <3>2. Renewed
      <4>1. PICK phase \in {"open", "closed"} : phase = record'.phase
        BY <3>1
      <4>2. \A w \in Versions : followups'[w] = IF w = v THEN "answered" ELSE Reviewed(v + 1, phase, v)[w]
        BY <3>1, <4>1 DEF Reviewed
      <4> QED BY <1>0, <3>1, <4>2, ReviewedShape DEF Renewed
    <3>3. followups' = [w \in Versions |-> followups'[w]]
      BY <3>1 DEF Reviewed
    <3> QED BY <3>1, <3>2, <3>3, NewVersionAsks
  <2>2. CASE action \in {"snooze", "mute"}
    <3>1. /\ v <= record.version /\ record' = record /\ UNCHANGED <<asked, sending>>
          /\ \/ followups' = [followups EXCEPT ![v] = "snoozed"] /\ again' = [again EXCEPT ![v] = @ + 1]
             \/ followups' = [followups EXCEPT ![v] = "muted"] /\ again' = again
      BY <1>0, <1>4, <2>2 DEF Tap
    <3>2. asked'[v] + OnItsWay(v)' + Due(v)' + again[v] <= asked[v] + OnItsWay(v) + Due(v) + again'[v]
      <4>1. OnItsWay(v)' = OnItsWay(v) /\ asked'[v] = asked[v]
        BY <3>1 DEF OnItsWay
      <4>2. \/ Due(v)' = 1 /\ again'[v] = again[v] + 1
            \/ Due(v)' = 0 /\ again'[v] = again[v]
        BY <3>1 DEF Due, Asked
      <4> QED BY <1>0, <4>1, <4>2
    <3>3. PICK state \in {"snoozed", "muted"} : followups' = [followups EXCEPT ![v] = state]
      BY <3>1
    <3>4. /\ followups' = followups \/ followups' = [followups EXCEPT ![v] = state]
          /\ asked' = asked \/ asked' = [asked EXCEPT ![v] = @ + 1]
          /\ again' = again \/ again' = [again EXCEPT ![v] = @ + 1]
          /\ sending' = sending \/ (sending' \in {0, v} /\ sending \in {0, v})
      BY <3>1, <3>3
    <3>5. state \in Unsettled \cup {"superseded"}
      BY DEF Unsettled
    <3> QED BY <3>1, <3>2, <3>4, <3>5, OneQuestion
  <2> QED BY <2>1, <2>2
<1>5. ASSUME NEW v \in Versions, SendDue(v) PROVE Asked'
  <2>1. /\ v <= record.version /\ record' = record /\ UNCHANGED <<asked, again>> /\ Due(v) = 1 /\ sending = 0
        /\ \/ followups' = [followups EXCEPT ![v] = "sending"] /\ sending' = v
           \/ followups' = [followups EXCEPT ![v] = "superseded"] /\ sending' = sending
    BY <1>1, <1>5 DEF SendDue, Due
  <2>2. asked'[v] + OnItsWay(v)' + Due(v)' + again[v] <= asked[v] + OnItsWay(v) + Due(v) + again'[v]
    <3>1. Due(v)' = 0 /\ OnItsWay(v)' \in 0 .. 1 /\ OnItsWay(v) = 0 /\ asked'[v] = asked[v] /\ again'[v] = again[v]
      BY <1>0, <2>1 DEF Due, OnItsWay, Asked
    <3> QED BY <1>0, <2>1, <3>1
  <2> QED BY <2>1, <2>2, OneQuestion DEF Unsettled
<1>6. ASSUME NEW arrived \in BOOLEAN, NEW known \in BOOLEAN, SendReturns(arrived, known) PROVE Asked'
  <2>1. PICK v \in Versions : v = sending
    BY <1>6 DEF SendReturns, Asked, Versions
  <2>2. /\ v <= record.version /\ record' = record /\ again' = again /\ sending' = 0
        /\ asked' = asked \/ asked' = [asked EXCEPT ![v] = @ + 1]
    BY <1>1, <1>6, <2>1 DEF SendReturns
  <2>3. \E state \in Unsettled \cup {"superseded"} :
          (followups' = followups \/ followups' = [followups EXCEPT ![v] = state]) /\ followups'[v] \in {followups[v], "sent", "unknown"}
    <3>1. \/ followups' = [followups EXCEPT ![v] = IF @ = "sending" THEN "sent" ELSE @]
          \/ followups' = [followups EXCEPT ![v] = IF @ = "sending" THEN "unknown" ELSE @]
      BY <1>6, <2>1 DEF SendReturns, Unsent
    <3>2. \/ followups' = [followups EXCEPT ![v] = "sent"] \/ followups' = [followups EXCEPT ![v] = "unknown"]
          \/ followups' = followups
      BY <3>1 DEF Asked
    <3> QED BY <3>2 DEF Asked, Unsettled
  <2>4. asked'[v] + OnItsWay(v)' + Due(v)' + again[v] <= asked[v] + OnItsWay(v) + Due(v) + again'[v]
    <3>1. asked'[v] \in {asked[v], asked[v] + 1} /\ again'[v] = again[v] /\ OnItsWay(v) = 1 /\ OnItsWay(v)' = 0
      BY <1>0, <2>1, <2>2 DEF OnItsWay, Asked
    <3>2. Due(v)' <= Due(v) /\ Due(v)' \in 0 .. 1
      BY <2>3 DEF Due
    <3> QED BY <1>0, <3>1, <3>2
  <2> QED BY <2>1, <2>2, <2>3, <2>4, OneQuestion
<1>7. ASSUME NEW v \in Versions, NEW action \in {"mute", "snooze", "confirmed_not_sent", "confirmed_sent"}, ResolveFollowup(v, action)
      PROVE  Asked'
  <2>1. PICK state \in {"muted", "snoozed", "scheduled", "sent"} :
          /\ v <= record.version /\ record' = record /\ UNCHANGED <<asked, sending>>
          /\ followups' = [followups EXCEPT ![v] = state]
          /\ again' = IF state \in {"snoozed", "scheduled"} THEN [again EXCEPT ![v] = @ + 1] ELSE again
    BY <1>1, <1>7 DEF ResolveFollowup, Unsettled
  <2>2. asked'[v] + OnItsWay(v)' + Due(v)' + again[v] <= asked[v] + OnItsWay(v) + Due(v) + again'[v]
    <3>1. OnItsWay(v)' = OnItsWay(v) /\ asked'[v] = asked[v]
      BY <2>1 DEF OnItsWay
    <3>2. \/ Due(v)' = 1 /\ again'[v] = again[v] + 1
          \/ Due(v)' = 0 /\ again'[v] = again[v]
      BY <2>1 DEF Due, Asked
    <3> QED BY <1>0, <3>1, <3>2
  <2>3. state \in Unsettled \cup {"superseded"}
    BY DEF Unsettled
  <2>4. /\ followups' = followups \/ followups' = [followups EXCEPT ![v] = state]
        /\ asked' = asked \/ asked' = [asked EXCEPT ![v] = @ + 1]
        /\ again' = again \/ again' = [again EXCEPT ![v] = @ + 1]
        /\ sending' = sending \/ (sending' \in {0, v} /\ sending \in {0, v})
    BY <2>1
  <2> QED BY <2>1, <2>2, <2>3, <2>4, OneQuestion
<1>8. ASSUME NEW v \in Versions, NEW n \in Notes, Reply(v, n) PROVE Asked'
  <2>1. /\ v <= record.version /\ record' = record /\ UNCHANGED <<asked, again, sending>>
        /\ followups' = [followups EXCEPT ![v] = "reply_pending"]
    BY <1>1, <1>8 DEF Reply, telegram
  <2>2. asked'[v] + OnItsWay(v)' + Due(v)' + again[v] <= asked[v] + OnItsWay(v) + Due(v) + again'[v]
    <3>1. OnItsWay(v)' = OnItsWay(v) /\ asked'[v] = asked[v] /\ again'[v] = again[v] /\ Due(v)' = 0
      BY <2>1 DEF OnItsWay, Due, Asked
    <3> QED BY <1>0, <3>1
  <2>3. "reply_pending" \in Unsettled \cup {"superseded"}
    BY DEF Unsettled
  <2>4. /\ followups' = followups \/ followups' = [followups EXCEPT ![v] = "reply_pending"]
        /\ asked' = asked \/ asked' = [asked EXCEPT ![v] = @ + 1]
        /\ again' = again \/ again' = [again EXCEPT ![v] = @ + 1]
        /\ sending' = sending \/ (sending' \in {0, v} /\ sending \in {0, v})
    BY <2>1
  <2> QED BY <2>1, <2>2, <2>3, <2>4, OneQuestion
<1>9. ASSUME NEW arrived \in BOOLEAN, ProcessDies(arrived) PROVE Asked'
  <2>1. CASE sending = 0
    BY <1>9, <2>1 DEF ProcessDies, catalogue, Asked, OnItsWay, Due
  <2>2. CASE sending # 0
    <3>1. PICK v \in Versions : v = sending
      BY <2>2 DEF Asked, Versions
    <3>2. /\ v <= record.version /\ record' = record /\ UNCHANGED <<again, followups>> /\ sending' = 0
          /\ asked' = asked \/ asked' = [asked EXCEPT ![v] = @ + 1]
      BY <1>1, <1>9, <3>1 DEF ProcessDies, catalogue
    <3>3. asked'[v] + OnItsWay(v)' + Due(v)' + again[v] <= asked[v] + OnItsWay(v) + Due(v) + again'[v]
      <4>1. asked'[v] \in {asked[v], asked[v] + 1} /\ again'[v] = again[v] /\ OnItsWay(v) = 1 /\ OnItsWay(v)' = 0 /\ Due(v)' = Due(v)
        BY <1>0, <3>1, <3>2 DEF OnItsWay, Due, Asked
      <4> QED BY <1>0, <4>1
    <3>4. "superseded" \in Unsettled \cup {"superseded"}
      OBVIOUS
    <3> QED BY <3>1, <3>2, <3>3, <3>4, OneQuestion
  <2> QED BY <2>1, <2>2
<1>10. ASSUME Stale \/ Resume \/ Pay \/ Fails \/ Refused \/ Completed PROVE Asked'
  <2>1. UNCHANGED <<record, asked, again, sending>>
    BY <1>10 DEF Stale, Resume, Pay, Fails, Refused, Completed, telegram
  <2>2. UNCHANGED followups \/ Settle("quarantined", "between") \/ Settle("held", "between") \/ Settle("pending", "idle")
        \/ Settle("done", "between")
    BY <1>10 DEF Stale, Resume, Pay, Fails, Refused, Completed
  <2> QED BY <2>1, <2>2, SettleAsks DEF Asked, OnItsWay, Due
<1>11. CASE UNCHANGED <<record, followups, asked, again, sending>>
  BY <1>11 DEF Asked, OnItsWay, Due
<1>12. ASSUME (\E n \in Notes : Capture(n)) \/ (\E a \in Agents : Propose(a)) \/ DrainStarts \/ DrainEnds \/ LeaseExpires
              \/ Interpreted \/ (\E u \in Units : TakeWork(u) \/ \E action \in {"discard", "resume_saved"} : ResolveWork(u, action))
              \/ (\E answer \in {"propose", "nothing", "accept", "reject", "bad"} : Answered(answer))
              \/ TurnReads \/ TurnServed \/ TurnOver \/ DayPasses \/ UNCHANGED iaconVars
       PROVE  UNCHANGED <<record, followups, asked, again, sending>>
  BY ZenonT(60), <1>12 DEF Capture, Propose, DrainStarts, DrainEnds, LeaseExpires, Interpreted, TakeWork, ResolveWork, Answered,
               TurnReads, TurnServed, TurnOver, DayPasses, iaconVars, catalogue, telegram
<1> QED
  BY <1>2, <1>3, <1>4, <1>5, <1>6, <1>7, <1>8, <1>9, <1>10, <1>11, <1>12 DEF IaconNext

-----------------------------------------------------------------------------
(* Memory. *)

Memory == RecordWritten /\ Paid /\ Asked

\* Every reachable state of the memory satisfies its three invariants.
THEOREM MemoryShape == IaconSpec => []Memory
<1>1. IaconInit => Memory
  <2> SUFFICES ASSUME IaconInit PROVE Memory
    OBVIOUS
  <2>1. RecordWritten
    <3>1. [command |-> Owner, base |-> 0] \in [command : Commands, base : Nat] /\ Owner[1] # "telegram"
      BY DEF Commands, Owner
    <3>2. revisions = <<[command |-> Owner, base |-> 0]>> /\ DOMAIN revisions = {1}
      BY DEF IaconInit
    <3> QED BY <3>1, <3>2, IaconAssumption DEF IaconInit, RecordWritten, WrittenOnce
  <2>2. Paid
    BY IaconAssumption DEF IaconInit, Paid, Resting
  <2>3. Asked
    BY IaconAssumption DEF IaconInit, Asked, OnItsWay, Due, Versions, Unsettled
  <2> QED BY <2>1, <2>2, <2>3 DEF Memory
<1>2. Memory /\ [IaconNext]_iaconVars => Memory'
  BY WrittenStep, PaidStep, AskedStep DEF Memory
<1> QED BY <1>1, <1>2, PTL DEF IaconSpec

\* Whatever dies, fails, arrives late or is resumed: every version was written
\* against the one before it and by one author once, no unit is paid for twice,
\* no question is asked more often than the owner allowed.
THEOREM MemoryHolds == IaconSpec => []MemorySound
<1>1. Memory => MemorySound
  <2> SUFFICES ASSUME Memory PROVE MemorySound
    OBVIOUS
  <2>1. UnitsPaidOnce
    BY IaconAssumption DEF Memory, Paid, UnitsPaidOnce
  <2>2. AskedOnce
    BY DEF Memory, Asked, AskedOnce, OnItsWay, Due
  <2> QED BY <2>1, <2>2 DEF Memory, RecordWritten, MemorySound
<1> QED BY <1>1, MemoryShape, PTL

-----------------------------------------------------------------------------
(* Serving. *)

\* A turn that still has the current epoch still has the current view.
Assembled ==
  /\ view \in [unit : Nat, epoch : Nat]
  /\ turn \in [pc : {"idle", "assembling", "served"}, epoch : Nat, unit : Nat]
  /\ turn.pc = "assembling" => turn.epoch <= view.epoch
  /\ turn.pc = "assembling" /\ turn.epoch = view.epoch => turn.unit = view.unit

\* Every step keeps it: a new view comes with a new epoch.
LEMMA AssembledStep ==
  ASSUME RecordWritten, Assembled, [IaconNext]_iaconVars
  PROVE  Assembled'
<1>1. ASSUME NEW n \in Nat, NEW phase, view' = Project(n, phase), turn' = turn PROVE Assembled'
  BY <1>1 DEF Assembled, Project
<1>2. CASE UNCHANGED <<view, turn>>
  BY <1>2 DEF Assembled
<1>3. ASSUME NEW phase \in {"open", "closed", "retracted"}, OwnerWrites(phase) PROVE Assembled'
  <2>1. view' = Project(record.version + 1, phase) /\ turn' = turn /\ record.version + 1 \in Nat
    BY <1>3 DEF OwnerWrites, Apply, RecordWritten
  <2> QED BY <2>1, <1>1
<1>4. ASSUME NEW phase \in {"open", "closed"}, Accepted(phase) PROVE Assembled'
  <2>1. turn' = turn /\ (view' = view \/ view' = Project(record.version + 1, phase)) /\ record.version + 1 \in Nat
    BY <1>4 DEF Accepted, Apply, Current, RecordWritten, catalogue
  <2> QED BY <1>1, <1>2, <2>1
<1>5. ASSUME NEW v \in Versions, NEW action \in {"done", "wait", "snooze", "mute"}, Tap(v, action) PROVE Assembled'
  <2>1. turn' = turn /\ (view' = view \/ \E phase \in {"open", "closed"} : view' = Project(v + 1, phase)) /\ v + 1 \in Nat
    BY <1>5 DEF Tap, Versions
  <2> QED BY <1>1, <1>2, <2>1
<1>6. CASE TurnReads \/ TurnServed \/ TurnOver \/ \E arrived \in BOOLEAN : ProcessDies(arrived)
  BY <1>6 DEF Assembled, TurnReads, TurnServed, TurnOver, ProcessDies, NoTurn, catalogue
<1>7. ASSUME (\E n \in Notes : Capture(n) \/ \E v \in Versions : Reply(v, n))
              \/ (\E a \in Agents : Propose(a)) \/ DrainStarts \/ DrainEnds \/ LeaseExpires \/ Stale \/ Resume
              \/ Pay \/ Fails \/ Refused \/ Interpreted \/ Completed
              \/ (\E u \in Units : TakeWork(u) \/ \E action \in {"discard", "resume_saved"} : ResolveWork(u, action))
      PROVE  UNCHANGED <<view, turn>>
  BY ZenonT(60), <1>7 DEF Capture, Reply, Propose, DrainStarts, DrainEnds, LeaseExpires, Stale, Resume, Pay, Fails, Refused,
              Interpreted, Completed, TakeWork, ResolveWork, catalogue
<1>8. ASSUME (\E answer \in {"propose", "nothing", "accept", "reject", "bad"} : Answered(answer))
             \/ (\E v \in Versions : SendDue(v) \/ \E action \in {"mute", "snooze", "confirmed_not_sent", "confirmed_sent"} : ResolveFollowup(v, action))
             \/ (\E arrived, known \in BOOLEAN : SendReturns(arrived, known)) \/ DayPasses \/ UNCHANGED iaconVars
      PROVE  UNCHANGED <<view, turn>>
  BY <1>8 DEF Answered, SendDue, ResolveFollowup, SendReturns, DayPasses, iaconVars, catalogue
<1> QED BY <1>2, <1>3, <1>4, <1>5, <1>6, <1>7, <1>8 DEF IaconNext

\* However the record moves while a turn is put together, what the turn is
\* served is the view that is current at that moment.
THEOREM ServedHolds == IaconSpec => ServedCurrent
<1>1. IaconInit => Assembled
  BY DEF IaconInit, Assembled, NoTurn
<1>2. Memory /\ Assembled /\ [IaconNext]_iaconVars => Assembled'
  BY AssembledStep DEF Memory
<1>3. Assembled /\ [IaconNext]_iaconVars => [ServedAsCurrent]_iaconVars
  <2> SUFFICES ASSUME Assembled, IaconNext, turn.pc = "assembling", turn'.pc = "served" PROVE turn'.unit = view.unit
    BY DEF ServedAsCurrent
  <2>1. ASSUME NEW phase \in {"open", "closed", "retracted"}, OwnerWrites(phase) \/ Accepted(phase) PROVE turn' = turn
    BY <2>1 DEF OwnerWrites, Accepted
  <2>2. ASSUME NEW v \in Versions,
               \/ SendDue(v) \/ (\E action \in {"mute", "snooze", "confirmed_not_sent", "confirmed_sent"} : ResolveFollowup(v, action))
               \/ (\E action \in {"done", "wait", "snooze", "mute"} : Tap(v, action)) \/ \E n \in Notes : Reply(v, n)
        PROVE  turn' = turn
    BY ZenonT(60), <2>2 DEF SendDue, ResolveFollowup, Tap, Reply
  <2>3. ASSUME (\E n \in Notes : Capture(n)) \/ (\E a \in Agents : Propose(a)) \/ DrainStarts \/ DrainEnds \/ LeaseExpires
               \/ Stale \/ Resume \/ Pay \/ Fails \/ Refused \/ Interpreted \/ Completed
               \/ (\E u \in Units : TakeWork(u) \/ \E action \in {"discard", "resume_saved"} : ResolveWork(u, action))
               \/ (\E answer \in {"propose", "nothing", "accept", "reject", "bad"} : Answered(answer))
               \/ (\E arrived, known \in BOOLEAN : SendReturns(arrived, known)) \/ DayPasses
        PROVE  turn' = turn
    BY ZenonT(60), <2>3 DEF Capture, Propose, DrainStarts, DrainEnds, LeaseExpires, Stale, Resume, Pay, Fails, Refused,
                Interpreted, Completed, TakeWork, ResolveWork, Answered, SendReturns, DayPasses
  <2>4. CASE TurnServed
    BY <2>4 DEF TurnServed, Assembled, NoTurn
  <2>5. ASSUME TurnReads \/ TurnOver \/ \E arrived \in BOOLEAN : ProcessDies(arrived) PROVE turn'.pc # "served"
    BY <2>5 DEF TurnReads, TurnOver, ProcessDies, NoTurn
  <2> QED BY <2>1, <2>2, <2>3, <2>4, <2>5 DEF IaconNext
<1> QED BY <1>1, <1>2, <1>3, MemoryShape, PTL DEF IaconSpec, ServedCurrent
-----------------------------------------------------------------------------
(* The library.  A document's records only grow, so the editions of an     *)
(* acknowledged event are among those of the answer that was mirrored, and *)
(* an edition accepted once never leaves the queue.                        *)

CatalogueRecord == [active : Editions, editions : SUBSET Editions, archived : BOOLEAN, gone : BOOLEAN]
FeedEvent == [document : Documents, version : Nat, requested : BOOLEAN]
IndexStatus == {"none", "pending", "processing", "failed", "needs_review"} \cup Ready
WorkStatus == {"none", "pending", "running", "done", "held", "quarantined"}

LibraryTyped ==
  /\ hall \in [Documents -> Seq(CatalogueRecord)] /\ feed \in Seq(FeedEvent)
  /\ receipts \in [Editions -> IndexStatus] /\ generation \in [Editions -> IndexStatus]
  /\ passages \in [Editions -> Extractions \cup {"none"}]
  /\ jobs \in [Editions -> WorkStatus]
  /\ mirror \in [Documents -> Nat] /\ cursor \in Nat
  /\ reader.pc \in {"idle", "granted"} /\ (reader.pc = "granted" => reader.edition \in Editions)

CatalogueGrows ==
  /\ \A d \in Documents :
       /\ Len(hall[d]) >= 1 /\ mirror[d] <= Len(hall[d])
       /\ \A v, w \in DOMAIN hall[d] : v <= w => hall[d][v].editions \subseteq hall[d][w].editions
  /\ cursor <= Len(feed)
  /\ \A s \in DOMAIN feed : feed[s].version \in 1 .. Len(hall[feed[s].document])

NeverHidden(records) == \A v \in DOMAIN records : ~Hidden(records[v])

\* A reconciliation follows the next event of the feed, and what it has accepted
\* is on the queue.
SyncFollows ==
  /\ sync.pc \in {"idle", "fetched", "accepting"}
  /\ sync.pc = "fetched" => sync \in [pc : {"fetched"}, document : Documents, event : Nat, version : Nat]
  /\ sync.pc = "accepting" => sync \in [pc : {"accepting"}, document : Documents, event : Nat, version : Nat,
                                        left : SUBSET Editions]
  /\ sync.pc # "idle" =>
       /\ sync.version \in 1 .. Len(hall[sync.document])
       /\ sync.event # 0 =>
            /\ sync.event = cursor + 1 /\ sync.event <= Len(feed)
            /\ feed[sync.event].document = sync.document /\ feed[sync.event].version <= sync.version
  /\ sync.pc = "accepting" =>
       /\ mirror[sync.document] >= sync.version
       /\ NeverHidden(hall[sync.document]) =>
            \A e \in hall[sync.document][sync.version].editions \ sync.left : jobs[e] # "none"

\* What is indexed was queued, and is not ready before its passages are.
IndexingTrue ==
  /\ indexing.pc \in {"idle", "taken", "extracting", "published"}
  /\ indexing.pc # "idle" =>
       /\ indexing \in [pc : {"taken", "extracting", "published"}, edition : Editions, version : Nat]
       /\ indexing.version \in 1 .. Len(hall[EditionOf[indexing.edition]])
       /\ jobs[indexing.edition] # "none"
  /\ indexing.pc = "extracting" => generation[indexing.edition] \notin Ready
  /\ \A e \in Editions : generation[e] # "none" => jobs[e] # "none"

Quoted == \A c \in citations : c.edition \in Editions /\ c.excerpt # "none"

LibraryInv ==
  LibraryTyped /\ CatalogueGrows /\ SyncFollows /\ IndexingTrue /\ Quoted /\ AcknowledgedIsQueued /\ EvidenceStands

LEMMA FeedInOrder ==
  ASSUME NEW S, IsFiniteSet(S), S \subseteq FeedEvent
  PROVE  SetToSeq(S) \in Seq(FeedEvent) /\ \A n \in DOMAIN SetToSeq(S) : SetToSeq(S)[n] \in S
<1>1. Cardinality(S) \in Nat /\ ExistsBijection(1 .. Cardinality(S), S)
  BY FS_CardinalityType
<1>2. PICK f \in [1 .. Cardinality(S) -> S] : IsInjective(f)
  BY <1>1 DEF ExistsBijection, Bijection, Injection, IsInjective
<1>3. SetToSeq(S) \in [1 .. Cardinality(S) -> S]
  BY <1>2 DEF SetToSeq
<1> DEFINE t == SetToSeq(S)
           n == Cardinality(S)
<1>4. t \in [1 .. n -> S] /\ n \in Nat
  BY <1>1, <1>3
<1> HIDE DEF t, n
<1>5. t \in Seq(FeedEvent) /\ \A k \in DOMAIN t : t[k] \in S
  BY <1>4
<1> QED BY <1>5 DEF t

LEMMA LibraryStarts ==
  ASSUME LibraryInit
  PROVE  LibraryInv
<1> DEFINE E == {[document |-> d, version |-> 1, requested |-> FALSE] : d \in Documents}
           f == [d \in Documents |-> [document |-> d, version |-> 1, requested |-> FALSE]]
           first == [d \in Documents |->
             [active |-> FirstEdition[d], editions |-> {FirstEdition[d]}, archived |-> FALSE, gone |-> FALSE]]
<1>1. E \subseteq FeedEvent
  <2>1. \A d \in Documents : [document |-> d, version |-> 1, requested |-> FALSE] \in FeedEvent
    BY DEF FeedEvent
  <2> QED BY <2>1
<1>2. IsFiniteSet(E)
  <2>1. f \in Surjection(Documents, E)
    BY DEF Surjection
  <2> QED BY <2>1, FS_Surjection, LibraryAssumption
<1>3. feed \in Seq(FeedEvent) /\ \A n \in DOMAIN feed : feed[n] \in E
  <2>1. feed = SetToSeq(E)
    BY DEF LibraryInit
  <2> HIDE DEF E
  <2> QED BY <1>1, <1>2, <2>1, FeedInOrder
<1>4. \A d \in Documents : first[d] \in CatalogueRecord
  BY LibraryAssumption DEF CatalogueRecord, Editions
<1>5. hall = [d \in Documents |-> <<first[d]>>]
  BY Zenon DEF LibraryInit
<1> HIDE DEF first
<1>6. \A d \in Documents : hall[d] \in Seq(CatalogueRecord) /\ Len(hall[d]) = 1 /\ DOMAIN hall[d] = {1}
  <2> SUFFICES ASSUME NEW d \in Documents
               PROVE  hall[d] \in Seq(CatalogueRecord) /\ Len(hall[d]) = 1 /\ DOMAIN hall[d] = {1}
    OBVIOUS
  <2>1. hall[d] = <<first[d]>> /\ first[d] \in CatalogueRecord
    BY <1>4, <1>5
  <2> QED BY <2>1
<1>7. LibraryTyped
  <2>1. hall \in [Documents -> Seq(CatalogueRecord)]
    BY <1>5, <1>6
  <2> QED BY <1>3, <2>1 DEF LibraryTyped, LibraryInit, IndexStatus, WorkStatus, AtRest
<1>8. CatalogueGrows
  <2>1. \A d \in Documents : mirror[d] = 0
    BY DEF LibraryInit
  <2>2. cursor = 0 /\ Len(feed) \in Nat
    BY <1>3 DEF LibraryInit
  <2>3. \A s \in DOMAIN feed : feed[s].version = 1 /\ feed[s].document \in Documents
    BY <1>3
  <2>4. \A d \in Documents : /\ Len(hall[d]) >= 1 /\ mirror[d] <= Len(hall[d])
                              /\ \A v, w \in DOMAIN hall[d] : v <= w => hall[d][v].editions \subseteq hall[d][w].editions
    <3> SUFFICES ASSUME NEW d \in Documents
                 PROVE  /\ Len(hall[d]) >= 1 /\ mirror[d] <= Len(hall[d])
                        /\ \A v, w \in DOMAIN hall[d] : v <= w => hall[d][v].editions \subseteq hall[d][w].editions
      OBVIOUS
    <3>1. Len(hall[d]) = 1 /\ DOMAIN hall[d] = {1} /\ mirror[d] = 0
      BY <1>6, <2>1
    <3> QED BY <3>1
  <2>5. ASSUME NEW s \in DOMAIN feed PROVE feed[s].version \in 1 .. Len(hall[feed[s].document])
    <3>1. feed[s].version = 1 /\ feed[s].document \in Documents
      BY <2>3
    <3>2. Len(hall[feed[s].document]) = 1
      BY <1>6, <3>1
    <3> QED BY <3>1, <3>2
  <2> QED BY <2>2, <2>4, <2>5 DEF CatalogueGrows
<1>9. SyncFollows /\ IndexingTrue /\ Quoted
  BY DEF SyncFollows, IndexingTrue, Quoted, LibraryInit, AtRest
<1>10. AcknowledgedIsQueued
  BY DEF AcknowledgedIsQueued, LibraryInit
<1>11. EvidenceStands
  BY DEF EvidenceStands, LibraryInit, Ready
<1> QED BY <1>7, <1>8, <1>9, <1>10, <1>11 DEF LibraryInv

\* What extends the catalogue and the feed, and moves nothing else.
LEMMA FeedGrows ==
  ASSUME LibraryInv, NEW event \in FeedEvent, feed' = Append(feed, event),
         hall' \in [Documents -> Seq(CatalogueRecord)],
         \A c \in Documents : Len(hall[c]) <= Len(hall'[c]) /\ \A v \in 1 .. Len(hall[c]) : hall'[c][v] = hall[c][v],
         \A c \in Documents : \A v, w \in DOMAIN hall'[c] : v <= w => hall'[c][v].editions \subseteq hall'[c][w].editions,
         event.version \in 1 .. Len(hall'[event.document]),
         UNCHANGED <<receipts, cursor, mirror, index, jobs, sync, indexing, reader, citations>>
  PROVE  LibraryInv'
<1>1. /\ hall \in [Documents -> Seq(CatalogueRecord)] /\ feed \in Seq(FeedEvent) /\ cursor \in Nat
      /\ mirror \in [Documents -> Nat] /\ cursor <= Len(feed)
      /\ \A c \in Documents : Len(hall[c]) \in Nat /\ Len(hall'[c]) \in Nat /\ Len(hall[c]) >= 1 /\ mirror[c] <= Len(hall[c])
      /\ \A c \in Documents : DOMAIN hall[c] = 1 .. Len(hall[c]) /\ DOMAIN hall'[c] = 1 .. Len(hall'[c])
  BY DEF LibraryInv, LibraryTyped, CatalogueGrows
<1>2. /\ feed' \in Seq(FeedEvent) /\ Len(feed) \in Nat /\ Len(feed') = Len(feed) + 1
      /\ feed'[Len(feed) + 1] = event /\ \A s \in 1 .. Len(feed) : feed'[s] = feed[s] /\ feed[s] \in FeedEvent
      /\ DOMAIN feed = 1 .. Len(feed) /\ DOMAIN feed' = 1 .. (Len(feed) + 1)
  BY <1>1
<1>3. \A s \in 1 .. Len(feed) : feed[s].document \in Documents /\ feed[s].version \in Nat
  BY <1>2 DEF FeedEvent
<1>4. LibraryTyped'
  BY <1>2 DEF LibraryInv, LibraryTyped, index
<1>5. CatalogueGrows'
  <2>1. \A d \in Documents : Len(hall'[d]) >= 1 /\ mirror'[d] <= Len(hall'[d])
    BY <1>1
  <2>2. \A s \in DOMAIN feed' : feed'[s].version \in 1 .. Len(hall'[feed'[s].document])
    <3> SUFFICES ASSUME NEW s \in 1 .. (Len(feed) + 1) PROVE feed'[s].version \in 1 .. Len(hall'[feed'[s].document])
      BY <1>2
    <3>1. CASE s \in 1 .. Len(feed)
      <4>1. feed[s].version \in 1 .. Len(hall[feed[s].document])
        BY <1>2, <3>1 DEF LibraryInv, CatalogueGrows
      <4> QED BY <1>1, <1>2, <1>3, <3>1, <4>1
    <3>2. CASE s = Len(feed) + 1
      BY <1>2, <3>2
    <3> QED BY <1>2, <3>1, <3>2
  <2>3. cursor' <= Len(feed')
    BY <1>1, <1>2
  <2> QED BY <2>1, <2>2, <2>3 DEF CatalogueGrows
<1>6. \A d \in Documents : NeverHidden(hall'[d]) => NeverHidden(hall[d])
  <2> SUFFICES ASSUME NEW d \in Documents, NeverHidden(hall'[d]), NEW v \in DOMAIN hall[d] PROVE ~Hidden(hall[d][v])
    BY Zenon DEF NeverHidden
  <2>1. v \in DOMAIN hall'[d] /\ hall'[d][v] = hall[d][v]
    <3>1. /\ DOMAIN hall[d] = 1 .. Len(hall[d]) /\ DOMAIN hall'[d] = 1 .. Len(hall'[d])
          /\ Len(hall[d]) \in Nat /\ Len(hall'[d]) \in Nat
      BY Zenon, <1>1
    <3>2. Len(hall[d]) <= Len(hall'[d]) /\ \A k \in 1 .. Len(hall[d]) : hall'[d][k] = hall[d][k]
      BY Zenon
    <3>3. v \in 1 .. Len(hall[d])
      BY <3>1
    <3>4. v \in 1 .. Len(hall'[d])
      BY ONLY <3>1, <3>2, <3>3
    <3> QED BY Zenon, <3>1, <3>2, <3>3, <3>4
  <2>2. ~Hidden(hall'[d][v])
    BY Zenon, <2>1 DEF NeverHidden
  <2> QED BY <2>1, <2>2 DEF Hidden
<1>7. SyncFollows'
  <2>1. sync' = sync /\ cursor' = cursor /\ mirror' = mirror /\ jobs' = jobs
    OBVIOUS
  <2>2. SyncFollows
    BY DEF LibraryInv
  <2>3. ASSUME sync.pc # "idle"
        PROVE  /\ sync.document \in Documents /\ sync.version \in Nat /\ sync.event \in Nat
               /\ sync.version \in 1 .. Len(hall[sync.document]) /\ sync.version \in 1 .. Len(hall'[sync.document])
               /\ hall'[sync.document][sync.version] = hall[sync.document][sync.version]
    <3>1. sync.document \in Documents /\ sync.version \in Nat /\ sync.event \in Nat
      BY <2>2, <2>3 DEF SyncFollows
    <3>2. sync.version \in 1 .. Len(hall[sync.document])
      BY <2>2, <2>3 DEF SyncFollows
    <3> QED BY SMTT(60), <1>1, <3>1, <3>2
  <2>4. ASSUME sync.pc # "idle", sync.event # 0
        PROVE  /\ sync.event = cursor + 1 /\ sync.event <= Len(feed')
               /\ feed'[sync.event].document = sync.document /\ feed'[sync.event].version <= sync.version
    <3>1. /\ sync.event = cursor + 1 /\ sync.event <= Len(feed)
          /\ feed[sync.event].document = sync.document /\ feed[sync.event].version <= sync.version
      BY <2>2, <2>4 DEF SyncFollows
    <3> QED BY <1>1, <1>2, <3>1
  <2>5. sync.pc = "accepting" =>
          /\ mirror[sync.document] >= sync.version
          /\ NeverHidden(hall'[sync.document]) => \A e \in hall'[sync.document][sync.version].editions \ sync.left : jobs[e] # "none"
    <3> SUFFICES ASSUME sync.pc = "accepting"
                 PROVE  /\ mirror[sync.document] >= sync.version
                        /\ NeverHidden(hall'[sync.document]) => \A e \in hall'[sync.document][sync.version].editions \ sync.left : jobs[e] # "none"
      OBVIOUS
    <3>1. /\ mirror[sync.document] >= sync.version
          /\ NeverHidden(hall[sync.document]) => \A e \in hall[sync.document][sync.version].editions \ sync.left : jobs[e] # "none"
      BY <2>2 DEF SyncFollows
    <3>2. NeverHidden(hall'[sync.document]) => NeverHidden(hall[sync.document])
      BY <1>6, <2>3
    <3> QED BY <2>3, <3>1, <3>2
  <2> QED BY <2>1, <2>2, <2>3, <2>4, <2>5 DEF SyncFollows
<1>8. IndexingTrue'
  <2>1. indexing.pc # "idle" => indexing.version \in 1 .. Len(hall[EditionOf[indexing.edition]]) /\ EditionOf[indexing.edition] \in Documents
    BY LibraryAssumption DEF LibraryInv, IndexingTrue, Editions
  <2>2. indexing.pc # "idle" => indexing.version \in 1 .. Len(hall'[EditionOf[indexing.edition]])
    BY SMTT(60), <1>1, <2>1
  <2> QED BY <2>2 DEF LibraryInv, IndexingTrue, index
<1>9. AcknowledgedIsQueued'
  <2> SUFFICES ASSUME NEW s \in 1 .. cursor
               PROVE  /\ mirror[feed'[s].document] >= feed'[s].version
                      /\ NeverHidden(hall'[feed[s].document]) => \A e \in hall'[feed'[s].document][feed'[s].version].editions : jobs[e] # "none"
    <3>1. \A s \in 1 .. cursor : s \in 1 .. Len(feed) /\ feed'[s] = feed[s] /\ cursor' = cursor /\ mirror' = mirror /\ jobs' = jobs
      BY <1>1, <1>2
    <3> QED BY ZenonT(60), <3>1 DEF AcknowledgedIsQueued, NeverHidden
  <2>1. s \in 1 .. Len(feed) /\ feed'[s] = feed[s] /\ feed[s].document \in Documents
    BY <1>1, <1>2, <1>3
  <2>2. feed[s].version \in 1 .. Len(hall[feed[s].document])
    BY <1>2, <2>1 DEF LibraryInv, CatalogueGrows
  <2>3. /\ mirror[feed[s].document] >= feed[s].version
        /\ NeverHidden(hall[feed[s].document]) => \A e \in hall[feed[s].document][feed[s].version].editions : jobs[e] # "none"
    BY DEF LibraryInv, AcknowledgedIsQueued, NeverHidden
  <2>4. NeverHidden(hall'[feed[s].document]) => NeverHidden(hall[feed[s].document])
    BY <1>6, <2>1
  <2> QED BY SMTT(60), <2>1, <2>2, <2>3, <2>4
<1>10. EvidenceStands' /\ Quoted'
  BY DEF LibraryInv, EvidenceStands, Quoted, index
<1> QED BY <1>4, <1>5, <1>7, <1>8, <1>9, <1>10 DEF LibraryInv

LEMMA WorkCatalogued ==
  ASSUME LibraryInv, NEW s \in DOMAIN feed
  PROVE  /\ s \in Nat /\ feed[s].document \in Documents /\ feed[s].version \in 1 .. Len(hall[feed[s].document])
         /\ Len(hall[feed[s].document]) \in Nat
         /\ \A e \in hall[feed[s].document][feed[s].version].editions : e \in Editions
<1>1. feed \in Seq(FeedEvent) /\ hall \in [Documents -> Seq(CatalogueRecord)]
  BY DEF LibraryInv, LibraryTyped
<1>2. s \in Nat /\ feed[s] \in FeedEvent
  BY <1>1
<1>3. feed[s].document \in Documents
  BY <1>2 DEF FeedEvent
<1>4. feed[s].version \in 1 .. Len(hall[feed[s].document])
  BY DEF LibraryInv, CatalogueGrows
<1>5. hall[feed[s].document] \in Seq(CatalogueRecord)
  BY <1>1, <1>3
<1>6. hall[feed[s].document][feed[s].version] \in CatalogueRecord /\ Len(hall[feed[s].document]) \in Nat
  BY <1>4, <1>5
<1> QED BY <1>2, <1>3, <1>4, <1>6 DEF CatalogueRecord

\* What mirrors more and takes no work off the queue.
LEMMA WorkKept ==
  ASSUME LibraryInv, UNCHANGED <<hall, feed, cursor>>, mirror' \in [Documents -> Nat],
         \A d \in Documents : mirror[d] <= mirror'[d] /\ mirror'[d] <= Len(hall[d]),
         \A e \in Editions : jobs[e] # "none" => jobs'[e] # "none"
  PROVE  CatalogueGrows' /\ AcknowledgedIsQueued'
<1>1. CatalogueGrows'
  BY DEF LibraryInv, CatalogueGrows
<1>2. AcknowledgedIsQueued'
  <2> SUFFICES ASSUME NEW s \in 1 .. cursor
               PROVE  /\ mirror'[feed[s].document] >= feed[s].version
                      /\ (\A v \in DOMAIN hall[feed[s].document] : ~Hidden(hall[feed[s].document][v]))
                           => \A e \in hall[feed[s].document][feed[s].version].editions : jobs'[e] # "none"
    BY DEF AcknowledgedIsQueued
  <2>1. cursor \in Nat /\ cursor <= Len(feed) /\ feed \in Seq(FeedEvent) /\ mirror \in [Documents -> Nat]
    BY DEF LibraryInv, LibraryTyped, CatalogueGrows
  <2>2. s \in DOMAIN feed
    BY <2>1
  <2>3. /\ mirror[feed[s].document] >= feed[s].version
        /\ (\A v \in DOMAIN hall[feed[s].document] : ~Hidden(hall[feed[s].document][v]))
             => \A e \in hall[feed[s].document][feed[s].version].editions : jobs[e] # "none"
    BY DEF LibraryInv, AcknowledgedIsQueued
  <2>4. /\ feed[s].document \in Documents /\ feed[s].version \in Nat
        /\ \A e \in hall[feed[s].document][feed[s].version].editions : e \in Editions
    BY <2>2, WorkCatalogued
  <2>5. mirror'[feed[s].document] >= feed[s].version
    BY <2>1, <2>3, <2>4
  <2> QED BY <2>3, <2>4, <2>5
<1> QED BY <1>1, <1>2

\* The reconciliation, which none of it moves.
LEMMA SyncKept ==
  ASSUME LibraryInv, UNCHANGED <<hall, feed, cursor, sync>>, mirror' \in [Documents -> Nat],
         \A d \in Documents : mirror[d] <= mirror'[d] /\ mirror'[d] <= Len(hall[d]),
         \A e \in Editions : jobs[e] # "none" => jobs'[e] # "none"
  PROVE  SyncFollows'
<1>1. SyncFollows /\ mirror \in [Documents -> Nat] /\ hall \in [Documents -> Seq(CatalogueRecord)]
  BY DEF LibraryInv, LibraryTyped
<1>2. ASSUME sync.pc = "accepting"
      PROVE  /\ mirror'[sync.document] >= sync.version
             /\ NeverHidden(hall[sync.document]) =>
                  \A e \in hall[sync.document][sync.version].editions \ sync.left : jobs'[e] # "none"
  <2>1. sync.document \in Documents /\ sync.version \in Nat /\ sync.version \in 1 .. Len(hall[sync.document])
    BY <1>1, <1>2 DEF SyncFollows
  <2>2. hall[sync.document][sync.version] \in CatalogueRecord
    <3>1. hall[sync.document] \in Seq(CatalogueRecord)
      BY <1>1, <2>1
    <3> QED BY <2>1, <3>1
  <2>3. \A e \in hall[sync.document][sync.version].editions : e \in Editions
    BY <2>2 DEF CatalogueRecord
  <2>4. /\ mirror[sync.document] >= sync.version
        /\ NeverHidden(hall[sync.document]) =>
             \A e \in hall[sync.document][sync.version].editions \ sync.left : jobs[e] # "none"
    BY <1>1, <1>2 DEF SyncFollows
  <2>5. mirror'[sync.document] >= sync.version
    BY <1>1, <2>1, <2>4
  <2> QED BY <2>3, <2>4, <2>5
<1> QED BY <1>1, <1>2 DEF SyncFollows

\* An answer is mirrored.
LEMMA MirrorsMore ==
  ASSUME LibraryInv, NEW d \in Documents, NEW v \in 1 .. Len(hall[d]), mirror' = [mirror EXCEPT ![d] = Mirrored(d, v)]
  PROVE  /\ mirror' \in [Documents -> Nat] /\ mirror'[d] >= v
         /\ \A c \in Documents : mirror[c] <= mirror'[c] /\ mirror'[c] <= Len(hall[c])
<1>1. /\ mirror \in [Documents -> Nat] /\ hall \in [Documents -> Seq(CatalogueRecord)]
      /\ \A c \in Documents : mirror[c] <= Len(hall[c])
  BY DEF LibraryInv, LibraryTyped, CatalogueGrows
<1>2. v \in Nat /\ Len(hall[d]) \in Nat /\ v <= Len(hall[d])
  BY <1>1
<1>3. Mirrored(d, v) \in Nat /\ Mirrored(d, v) >= v /\ mirror[d] <= Mirrored(d, v) /\ Mirrored(d, v) <= Len(hall[d])
  BY <1>1, <1>2 DEF Mirrored
<1>4. mirror'[d] = Mirrored(d, v) /\ \A c \in Documents \ {d} : mirror'[c] = mirror[c]
  BY <1>1
<1>5. mirror' \in [Documents -> Nat]
  BY <1>1, <1>3
<1>6. ASSUME NEW c \in Documents PROVE mirror[c] <= mirror'[c] /\ mirror'[c] <= Len(hall[c])
  <2>1. CASE c = d
    BY <1>3, <1>4, <2>1
  <2>2. CASE c # d
    BY <1>1, <1>4, <2>2
  <2> QED BY <2>1, <2>2
<1> QED BY <1>3, <1>4, <1>5, <1>6

\* A step of the reconciliation alone.
LEMMA OnlySync ==
  ASSUME LibraryInv, UNCHANGED <<remote, cursor, mirror, index, jobs, indexing, reader, citations>>, SyncFollows'
  PROVE  LibraryInv'
<1>1. LibraryTyped' /\ CatalogueGrows'
  BY DEF LibraryInv, LibraryTyped, CatalogueGrows, remote, index
<1>2. IndexingTrue' /\ Quoted' /\ AcknowledgedIsQueued' /\ EvidenceStands'
  BY DEF LibraryInv, IndexingTrue, Quoted, AcknowledgedIsQueued, EvidenceStands, remote, index
<1> QED BY <1>1, <1>2 DEF LibraryInv

LEMMA FetchKeeps ==
  ASSUME LibraryInv, NEW d \in Documents, NEW event \in 0 .. Len(feed), SyncFetch(d, event)
  PROVE  LibraryInv'
<1>1. /\ hall \in [Documents -> Seq(CatalogueRecord)] /\ feed \in Seq(FeedEvent) /\ cursor \in Nat
      /\ Len(hall[d]) \in Nat /\ Len(hall[d]) >= 1
  BY DEF LibraryInv, LibraryTyped, CatalogueGrows
<1>2. /\ sync' = [pc |-> "fetched", document |-> d, event |-> event, version |-> Len(hall[d])]
      /\ event # 0 => event = cursor + 1 /\ event <= Len(feed) /\ feed[event].document = d
      /\ UNCHANGED <<remote, cursor, mirror, index, jobs, indexing, reader, citations>>
  BY DEF SyncFetch
<1>3. event # 0 => feed[event].version <= Len(hall[d])
  <2> SUFFICES ASSUME event # 0 PROVE feed[event].version <= Len(hall[d])
    OBVIOUS
  <2>1. event \in DOMAIN feed
    BY <1>1
  <2>2. feed[event].version \in 1 .. Len(hall[feed[event].document]) /\ feed[event].document = d
    BY <1>2, <2>1, WorkCatalogued
  <2> QED BY <1>1, <2>2
<1>4. event \in Nat
  BY <1>1
<1>5. SyncFollows'
  BY <1>1, <1>2, <1>3, <1>4 DEF SyncFollows, remote
<1> QED BY <1>2, <1>5, OnlySync

LEMMA SyncIsTyped ==
  ASSUME LibraryInv, sync.pc # "idle"
  PROVE  /\ sync.document \in Documents /\ sync.event \in Nat /\ sync.version \in 1 .. Len(hall[sync.document])
         /\ sync.version \in Nat /\ hall[sync.document][sync.version] \in CatalogueRecord
         /\ sync.pc = "accepting" => sync.left \in SUBSET Editions
         /\ sync.event # 0 => /\ sync.event = cursor + 1 /\ sync.event \in DOMAIN feed
                              /\ feed[sync.event].document = sync.document /\ feed[sync.event].version <= sync.version
<1>1. SyncFollows /\ hall \in [Documents -> Seq(CatalogueRecord)] /\ feed \in Seq(FeedEvent)
  BY DEF LibraryInv, LibraryTyped
<1>2. /\ sync.document \in Documents /\ sync.event \in Nat /\ sync.version \in Nat
      /\ sync.pc = "accepting" => sync.left \in SUBSET Editions
  BY <1>1 DEF SyncFollows
<1>3. /\ sync.version \in 1 .. Len(hall[sync.document])
      /\ sync.event # 0 => /\ sync.event = cursor + 1 /\ sync.event <= Len(feed)
                           /\ feed[sync.event].document = sync.document /\ feed[sync.event].version <= sync.version
  BY <1>1 DEF SyncFollows
<1>4. sync.event # 0 => sync.event \in DOMAIN feed
  BY <1>1, <1>2, <1>3
<1>5. hall[sync.document][sync.version] \in CatalogueRecord
  <2>1. hall[sync.document] \in Seq(CatalogueRecord)
    BY <1>1, <1>2
  <2> QED BY <1>3, <2>1
<1> QED BY <1>2, <1>3, <1>4, <1>5

LEMMA MirrorKeeps ==
  ASSUME LibraryInv, SyncMirror
  PROVE  LibraryInv'
<1> DEFINE d == sync.document
           left == IF Hidden(hall[d][sync.version]) THEN {} ELSE hall[d][sync.version].editions
<1>1. /\ sync.pc = "fetched" /\ mirror' = [mirror EXCEPT ![d] = Mirrored(d, sync.version)]
      /\ sync' = [pc |-> "accepting", document |-> d, event |-> sync.event, version |-> sync.version, left |-> left]
      /\ UNCHANGED <<hall, feed, receipts, cursor, generation, passages, jobs, indexing, reader, citations>>
  BY Zenon DEF SyncMirror, remote, index
<1>2. /\ d \in Documents /\ sync.event \in Nat /\ sync.version \in 1 .. Len(hall[d]) /\ sync.version \in Nat
      /\ hall[d][sync.version] \in CatalogueRecord
      /\ sync.event # 0 => /\ sync.event = cursor + 1 /\ sync.event \in DOMAIN feed
                           /\ feed[sync.event].document = d /\ feed[sync.event].version <= sync.version
  BY <1>1, SyncIsTyped
<1>3. /\ mirror' \in [Documents -> Nat] /\ mirror'[d] >= sync.version
      /\ \A c \in Documents : mirror[c] <= mirror'[c] /\ mirror'[c] <= Len(hall[c])
  BY <1>1, <1>2, MirrorsMore
<1>4. CatalogueGrows' /\ AcknowledgedIsQueued'
  BY <1>1, <1>3, WorkKept
<1>5. left \in SUBSET Editions
  BY <1>2 DEF CatalogueRecord
<1>6. NeverHidden(hall[d]) => \A e \in hall[d][sync.version].editions \ left : FALSE
  <2>1. NeverHidden(hall[d]) => ~Hidden(hall[d][sync.version])
    <3>1. sync.version \in DOMAIN hall[d]
      BY <1>2 DEF LibraryInv, LibraryTyped
    <3> QED BY Zenon, <3>1 DEF NeverHidden
  <2> QED BY <2>1
<1> HIDE DEF left, d
<1>7. SyncFollows'
  <2>1. sync'.event # 0 => sync'.event <= Len(feed)
    <3>1. feed \in Seq(FeedEvent)
      BY DEF LibraryInv, LibraryTyped
    <3> QED BY <1>1, <1>2, <3>1
  <2>2. sync' \in [pc : {"accepting"}, document : Documents, event : Nat, version : Nat, left : SUBSET Editions]
    BY <1>1, <1>2, <1>5
  <2>3. /\ sync'.pc = "accepting" /\ sync'.document = d /\ sync'.event = sync.event /\ sync'.version = sync.version
        /\ sync'.left = left
    BY <1>1
  <2>4. /\ sync'.version \in 1 .. Len(hall'[sync'.document])
        /\ sync'.event # 0 =>
             /\ sync'.event = cursor' + 1 /\ sync'.event <= Len(feed')
             /\ feed'[sync'.event].document = sync'.document /\ feed'[sync'.event].version <= sync'.version
    BY <1>1, <1>2, <2>1, <2>3
  <2>5. /\ mirror'[sync'.document] >= sync'.version
        /\ NeverHidden(hall'[sync'.document]) =>
             \A e \in hall'[sync'.document][sync'.version].editions \ sync'.left : jobs'[e] # "none"
    BY <1>1, <1>3, <1>6, <2>3
  <2> QED BY <2>2, <2>3, <2>4, <2>5 DEF SyncFollows
<1>8. LibraryTyped'
  BY <1>1, <1>3 DEF LibraryInv, LibraryTyped
<1>9. IndexingTrue' /\ Quoted' /\ EvidenceStands'
  BY <1>1 DEF LibraryInv, IndexingTrue, Quoted, EvidenceStands
<1> QED BY <1>4, <1>7, <1>8, <1>9 DEF LibraryInv

LEMMA AcceptKeeps ==
  ASSUME LibraryInv, NEW e \in Editions, AcceptEdition(e)
  PROVE  LibraryInv'
<1> DEFINE settled == generation[e] \in Ready \cup {"needs_review"} /\ ~Retried(e)
           anew == Retried(e) /\ jobs[e] \in {"held", "quarantined", "done"}
           j == IF jobs[e] = "none" \/ anew THEN "pending" ELSE jobs[e]
           g == IF generation[e] = "none" \/ (anew /\ generation[e] \notin Ready) THEN "pending" ELSE generation[e]
<1>1. /\ sync.pc = "accepting" /\ e \in sync.left /\ sync' = [sync EXCEPT !.left = @ \ {e}]
      /\ UNCHANGED <<hall, feed, receipts, cursor, mirror, passages, indexing, reader, citations>>
  BY DEF AcceptEdition, remote
<1>2. \/ settled /\ UNCHANGED <<generation, jobs>>
      \/ jobs' = [jobs EXCEPT ![e] = j] /\ generation' = [generation EXCEPT ![e] = g]
  BY Zenon DEF AcceptEdition
<1>3. /\ jobs \in [Editions -> WorkStatus] /\ generation \in [Editions -> IndexStatus]
      /\ (generation[e] # "none" => jobs[e] # "none")
  BY DEF LibraryInv, LibraryTyped, IndexingTrue
<1>4. /\ j \in WorkStatus /\ j # "none" /\ g \in IndexStatus
      /\ (g \in Ready <=> generation[e] \in Ready) /\ (g \in Ready => g = generation[e])
  BY <1>3 DEF WorkStatus, IndexStatus, Ready
<1>5. settled => jobs[e] # "none"
  BY <1>3 DEF Ready
<1> HIDE DEF settled, anew, j, g
<1>6. /\ jobs' \in [Editions -> WorkStatus] /\ generation' \in [Editions -> IndexStatus]
      /\ jobs'[e] # "none" /\ \A f \in Editions : jobs[f] # "none" => jobs'[f] # "none"
      /\ \A f \in Editions : (generation'[f] \in Ready <=> generation[f] \in Ready)
                             /\ (generation[f] \in Ready => generation'[f] = generation[f])
      /\ \A f \in Editions : generation'[f] # "none" => jobs'[f] # "none"
  <2>0. \A f \in Editions : generation[f] # "none" => jobs[f] # "none"
    BY DEF LibraryInv, IndexingTrue
  <2>1. CASE settled /\ UNCHANGED <<generation, jobs>>
    BY <1>3, <1>5, <2>0, <2>1
  <2>2. CASE jobs' = [jobs EXCEPT ![e] = j] /\ generation' = [generation EXCEPT ![e] = g]
    <3>1. jobs' \in [Editions -> WorkStatus] /\ generation' \in [Editions -> IndexStatus]
      BY <1>3, <1>4, <2>2
    <3>2. /\ jobs'[e] = j /\ generation'[e] = g
          /\ \A f \in Editions \ {e} : jobs'[f] = jobs[f] /\ generation'[f] = generation[f]
      BY <1>3, <2>2
    <3> QED BY <1>4, <2>0, <3>1, <3>2
  <2> QED BY <1>2, <2>1, <2>2
<1>7. CatalogueGrows' /\ AcknowledgedIsQueued'
  <2>1. mirror' \in [Documents -> Nat] /\ \A d \in Documents : mirror[d] <= mirror'[d] /\ mirror'[d] <= Len(hall[d])
    BY <1>1 DEF LibraryInv, LibraryTyped, CatalogueGrows
  <2> QED BY <1>1, <1>6, <2>1, WorkKept
<1>8. SyncFollows'
  <2> DEFINE d == sync.document
  <2>1. /\ d \in Documents /\ sync.version \in 1 .. Len(hall[d]) /\ sync.version \in Nat
        /\ hall[d][sync.version] \in CatalogueRecord /\ sync.left \in SUBSET Editions
    BY <1>1, SyncIsTyped
  <2>2. /\ sync \in [pc : {"accepting"}, document : Documents, event : Nat, version : Nat, left : SUBSET Editions]
        /\ mirror[d] >= sync.version
        /\ NeverHidden(hall[d]) => \A f \in hall[d][sync.version].editions \ sync.left : jobs[f] # "none"
        /\ sync.event # 0 =>
             /\ sync.event = cursor + 1 /\ sync.event <= Len(feed)
             /\ feed[sync.event].document = d /\ feed[sync.event].version <= sync.version
    BY <1>1 DEF LibraryInv, SyncFollows
  <2>3. /\ sync' \in [pc : {"accepting"}, document : Documents, event : Nat, version : Nat, left : SUBSET Editions]
        /\ sync'.pc = "accepting" /\ sync'.document = d /\ sync'.version = sync.version /\ sync'.event = sync.event
        /\ sync'.left = sync.left \ {e}
    BY <1>1, <2>2
  <2>4. \A f \in hall[d][sync.version].editions : f \in Editions
    BY <2>1 DEF CatalogueRecord
  <2>5. NeverHidden(hall[d]) => \A f \in hall[d][sync.version].editions \ (sync.left \ {e}) : jobs'[f] # "none"
    BY <1>6, <2>2, <2>4
  <2> HIDE DEF d
  <2> QED BY <1>1, <2>1, <2>2, <2>3, <2>5 DEF SyncFollows
<1>9. LibraryTyped'
  BY <1>1, <1>6 DEF LibraryInv, LibraryTyped
<1>10. IndexingTrue' /\ Quoted'
  BY <1>1, <1>6 DEF LibraryInv, IndexingTrue, Quoted
<1>11. EvidenceStands'
  <2>1. \A f \in Editions : receipts[f] \in Ready => generation'[f] = receipts[f]
    BY <1>6 DEF LibraryInv, EvidenceStands
  <2> QED BY <1>1, <1>6, <2>1 DEF LibraryInv, EvidenceStands
<1> QED BY <1>7, <1>8, <1>9, <1>10, <1>11 DEF LibraryInv

LEMMA AdvanceKeeps ==
  ASSUME LibraryInv, SyncAdvance
  PROVE  LibraryInv'
<1> DEFINE d == sync.document
<1>1. /\ sync.pc = "accepting" /\ sync.left = {} /\ sync' = AtRest
      /\ cursor' = IF sync.event = 0 THEN cursor ELSE sync.event
      /\ UNCHANGED <<hall, feed, receipts, mirror, generation, passages, jobs, indexing, reader, citations>>
  BY DEF SyncAdvance, remote, index
<1>2. /\ d \in Documents /\ sync.event \in Nat /\ sync.version \in 1 .. Len(hall[d]) /\ sync.version \in Nat
      /\ sync.event # 0 => /\ sync.event = cursor + 1 /\ sync.event \in DOMAIN feed
                           /\ feed[sync.event].document = d /\ feed[sync.event].version <= sync.version
  BY <1>1, SyncIsTyped
<1>3. /\ hall \in [Documents -> Seq(CatalogueRecord)] /\ feed \in Seq(FeedEvent) /\ cursor \in Nat /\ cursor <= Len(feed)
      /\ mirror \in [Documents -> Nat]
  BY DEF LibraryInv, LibraryTyped, CatalogueGrows
<1>4. cursor' \in Nat /\ cursor' <= Len(feed)
  BY <1>1, <1>2, <1>3
<1>5. LibraryTyped' /\ CatalogueGrows'
  BY <1>1, <1>4 DEF LibraryInv, LibraryTyped, CatalogueGrows
<1>6. SyncFollows'
  BY <1>1 DEF SyncFollows, AtRest
<1>7. AcknowledgedIsQueued'
  <2> SUFFICES ASSUME NEW s \in 1 .. cursor'
               PROVE  /\ mirror[feed[s].document] >= feed[s].version
                      /\ (\A v \in DOMAIN hall[feed[s].document] : ~Hidden(hall[feed[s].document][v]))
                           => \A e \in hall[feed[s].document][feed[s].version].editions : jobs[e] # "none"
    BY <1>1 DEF AcknowledgedIsQueued
  <2>1. CASE s \in 1 .. cursor
    BY <2>1 DEF LibraryInv, AcknowledgedIsQueued
  <2>2. CASE s \notin 1 .. cursor
    <3>1. s = sync.event /\ sync.event # 0
      BY <1>1, <1>2, <1>3, <2>2
    <3>2. /\ mirror[d] >= sync.version
          /\ NeverHidden(hall[d]) => \A e \in hall[d][sync.version].editions \ sync.left : jobs[e] # "none"
      BY <1>1 DEF LibraryInv, SyncFollows
    <3>3. feed[s].version \in 1 .. Len(hall[d]) /\ feed[s].document = d /\ feed[s].version <= sync.version
      BY <1>2, <3>1, WorkCatalogued
    <3>4. DOMAIN hall[d] = 1 .. Len(hall[d])
      BY <1>2, <1>3
    <3>5. hall[d][feed[s].version].editions \subseteq hall[d][sync.version].editions
      BY <1>2, <3>3, <3>4 DEF LibraryInv, CatalogueGrows
    <3>6. mirror[d] \in Nat
      BY <1>2, <1>3
    <3>7. mirror[d] >= feed[s].version
      BY <1>2, <3>2, <3>3, <3>6
    <3> HIDE DEF d
    <3>8. (\A v \in DOMAIN hall[d] : ~Hidden(hall[d][v])) => \A e \in hall[d][sync.version].editions : jobs[e] # "none"
      BY Zenon, <1>1, <3>2 DEF NeverHidden
    <3> QED BY Zenon, <3>3, <3>5, <3>7, <3>8
  <2> QED BY <2>1, <2>2
<1>8. IndexingTrue' /\ Quoted' /\ EvidenceStands'
  BY <1>1 DEF LibraryInv, IndexingTrue, Quoted, EvidenceStands
<1> QED BY <1>5, <1>6, <1>7, <1>8 DEF LibraryInv

\* A step of the indexing: it mirrors more, and takes no work off the queue.
LEMMA IndexKeeps ==
  ASSUME LibraryInv, UNCHANGED <<hall, feed, cursor, sync, reader, citations>>, mirror' \in [Documents -> Nat],
         \A d \in Documents : mirror[d] <= mirror'[d] /\ mirror'[d] <= Len(hall[d]),
         receipts' \in [Editions -> IndexStatus], generation' \in [Editions -> IndexStatus],
         passages' \in [Editions -> Extractions \cup {"none"}], jobs' \in [Editions -> WorkStatus],
         \A e \in Editions : jobs[e] # "none" => jobs'[e] # "none",
         IndexingTrue', EvidenceStands'
  PROVE  LibraryInv'
<1>1. LibraryTyped'
  BY DEF LibraryInv, LibraryTyped
<1>2. CatalogueGrows' /\ AcknowledgedIsQueued' /\ SyncFollows'
  BY WorkKept, SyncKept
<1>3. Quoted'
  BY DEF LibraryInv, Quoted
<1> QED BY <1>1, <1>2, <1>3 DEF LibraryInv

LEMMA LibraryIsTyped ==
  ASSUME LibraryInv
  PROVE  /\ hall \in [Documents -> Seq(CatalogueRecord)] /\ mirror \in [Documents -> Nat]
         /\ \A d \in Documents : Len(hall[d]) \in Nat /\ Len(hall[d]) >= 1 /\ mirror[d] <= Len(hall[d]) /\ mirror[d] <= mirror[d]
         /\ receipts \in [Editions -> IndexStatus] /\ generation \in [Editions -> IndexStatus]
         /\ passages \in [Editions -> Extractions \cup {"none"}] /\ jobs \in [Editions -> WorkStatus]
         /\ {"pending", "running", "done", "held", "quarantined"} \subseteq WorkStatus
         /\ {"processing", "failed", "needs_review", "ready_keyword", "ready_ocr"} \subseteq IndexStatus
         /\ "none" \notin Ready /\ "processing" \notin Ready /\ "failed" \notin Ready /\ "needs_review" \notin Ready
BY DEF LibraryInv, LibraryTyped, CatalogueGrows, WorkStatus, IndexStatus, Ready

LEMMA IndexingIsTyped ==
  ASSUME LibraryInv, indexing.pc # "idle"
  PROVE  /\ indexing.edition \in Editions /\ EditionOf[indexing.edition] \in Documents
         /\ indexing.version \in 1 .. Len(hall[EditionOf[indexing.edition]])
         /\ jobs[indexing.edition] # "none"
<1>1. /\ indexing \in [pc : {"taken", "extracting", "published"}, edition : Editions, version : Nat]
      /\ indexing.version \in 1 .. Len(hall[EditionOf[indexing.edition]]) /\ jobs[indexing.edition] # "none"
  BY DEF LibraryInv, IndexingTrue
<1>2. indexing.edition \in Editions
  BY <1>1
<1> QED BY <1>1, <1>2, LibraryAssumption DEF Editions

\* The work of an edition is over: it was queued, and stays known.
LEMMA WorkOver ==
  ASSUME LibraryInv, NEW e \in Editions, NEW s \in WorkStatus, s # "none", jobs' = [jobs EXCEPT ![e] = s]
  PROVE  /\ jobs' \in [Editions -> WorkStatus] /\ jobs'[e] # "none"
         /\ \A f \in Editions : jobs[f] # "none" => jobs'[f] # "none"
BY LibraryIsTyped

LEMMA TakeKeeps ==
  ASSUME LibraryInv, NEW e \in Editions, TakeIndexing(e) \/ IndexLeaseExpires(e)
  PROVE  LibraryInv'
<1>1. PICK s \in {"running", "pending"} :
        /\ jobs' = [jobs EXCEPT ![e] = s]
        /\ s = "pending" => indexing' = indexing
        /\ s = "running" => indexing' = [pc |-> "taken", edition |-> e, version |-> Len(hall[EditionOf[e]])]
        /\ UNCHANGED <<hall, feed, receipts, cursor, mirror, generation, passages, sync, reader, citations>>
  BY DEF TakeIndexing, IndexLeaseExpires, remote, index
<1>2. /\ jobs' \in [Editions -> WorkStatus] /\ jobs'[e] # "none"
      /\ \A f \in Editions : jobs[f] # "none" => jobs'[f] # "none"
  <2>1. s \in WorkStatus /\ s # "none"
    BY <1>1, LibraryIsTyped
  <2> QED BY <1>1, <2>1, WorkOver
<1>3. IndexingTrue'
  <2>0. EditionOf[e] \in Documents
    BY LibraryAssumption DEF Editions
  <2>1. Len(hall[EditionOf[e]]) \in 1 .. Len(hall[EditionOf[e]]) /\ Len(hall[EditionOf[e]]) \in Nat
    BY <2>0, LibraryIsTyped
  <2>2. \A f \in Editions : generation[f] # "none" => jobs'[f] # "none"
    BY <1>2 DEF LibraryInv, IndexingTrue
  <2>3. CASE s = "running"
    BY <1>1, <1>2, <2>1, <2>2, <2>3 DEF IndexingTrue
  <2>4. CASE s = "pending"
    <3>1. indexing' = indexing /\ generation' = generation /\ hall' = hall
      BY <1>1, <2>4
    <3>2. indexing.pc # "idle" => jobs'[indexing.edition] # "none"
      BY <1>2, IndexingIsTyped
    <3> QED BY <2>2, <3>1, <3>2 DEF LibraryInv, IndexingTrue
  <2> QED BY <2>3, <2>4
<1>4. EvidenceStands'
  BY <1>1 DEF LibraryInv, EvidenceStands
<1> QED BY <1>1, <1>2, <1>3, <1>4, LibraryIsTyped, IndexKeeps

LEMMA BeginKeeps ==
  ASSUME LibraryInv, IndexBegins
  PROVE  LibraryInv'
<1> DEFINE e == indexing.edition
           d == EditionOf[e]
<1>1. /\ indexing.pc = "taken" /\ mirror' = [mirror EXCEPT ![d] = Mirrored(d, indexing.version)]
      /\ UNCHANGED <<hall, feed, cursor, passages, sync, reader, citations>>
      /\ \/ /\ jobs' = [jobs EXCEPT ![e] = "done"] /\ indexing' = AtRest /\ UNCHANGED generation
            /\ UNCHANGED receipts \/ receipts' = [receipts EXCEPT ![e] = generation[e]]
         \/ /\ generation[e] \notin Ready \cup {"needs_review"}
            /\ generation' = [generation EXCEPT ![e] = "processing"] /\ receipts' = [receipts EXCEPT ![e] = "processing"]
            /\ indexing' = [indexing EXCEPT !.pc = "extracting"] /\ UNCHANGED jobs
  BY Zenon DEF IndexBegins, IndexOver
<1>2. e \in Editions /\ d \in Documents /\ indexing.version \in 1 .. Len(hall[d]) /\ jobs[e] # "none"
  BY <1>1, IndexingIsTyped
<1>3. mirror' \in [Documents -> Nat] /\ \A c \in Documents : mirror[c] <= mirror'[c] /\ mirror'[c] <= Len(hall[c])
  BY <1>1, <1>2, MirrorsMore
<1>4. indexing \in [pc : {"taken", "extracting", "published"}, edition : Editions, version : Nat]
  BY <1>1 DEF LibraryInv, IndexingTrue
<1> HIDE DEF e, d
<1>5. CASE /\ jobs' = [jobs EXCEPT ![e] = "done"] /\ indexing' = AtRest /\ UNCHANGED generation
           /\ UNCHANGED receipts \/ receipts' = [receipts EXCEPT ![e] = generation[e]]
  <2>1. /\ jobs' \in [Editions -> WorkStatus] /\ \A f \in Editions : jobs[f] # "none" => jobs'[f] # "none"
    BY <1>2, <1>5, LibraryIsTyped, WorkOver
  <2>2. receipts' \in [Editions -> IndexStatus]
    BY <1>2, <1>5, LibraryIsTyped
  <2>3. IndexingTrue'
    BY <1>5, <2>1 DEF LibraryInv, IndexingTrue, AtRest
  <2>4. \A f \in Editions : receipts'[f] \in Ready => generation[f] = receipts'[f]
    BY SMTT(60), <1>2, <1>5, LibraryIsTyped DEF LibraryInv, EvidenceStands
  <2>5. EvidenceStands'
    BY <1>1, <1>5, <2>4 DEF LibraryInv, EvidenceStands
  <2>6. generation' \in [Editions -> IndexStatus] /\ passages' \in [Editions -> Extractions \cup {"none"}]
    BY <1>1, <1>5, LibraryIsTyped
  <2> QED BY <1>1, <1>3, <2>1, <2>2, <2>3, <2>5, <2>6, IndexKeeps
<1>6. CASE /\ generation[e] \notin Ready \cup {"needs_review"}
           /\ generation' = [generation EXCEPT ![e] = "processing"] /\ receipts' = [receipts EXCEPT ![e] = "processing"]
           /\ indexing' = [indexing EXCEPT !.pc = "extracting"] /\ UNCHANGED jobs
  <2>1. generation' \in [Editions -> IndexStatus] /\ receipts' \in [Editions -> IndexStatus]
    BY <1>2, <1>6, LibraryIsTyped
  <2>2. /\ generation'[e] = "processing" /\ receipts'[e] = "processing"
        /\ \A f \in Editions \ {e} : generation'[f] = generation[f] /\ receipts'[f] = receipts[f]
    BY <1>2, <1>6, LibraryIsTyped
  <2>3. /\ indexing' \in [pc : {"taken", "extracting", "published"}, edition : Editions, version : Nat]
        /\ indexing'.pc = "extracting" /\ indexing'.edition = e /\ indexing'.version = indexing.version
    BY <1>4, <1>6 DEF e
  <2>4. \A f \in Editions : generation'[f] # "none" => jobs[f] # "none"
    BY <1>2, <2>2 DEF LibraryInv, IndexingTrue
  <2>5. IndexingTrue'
    BY <1>1, <1>2, <1>6, <2>2, <2>3, <2>4, LibraryIsTyped DEF IndexingTrue, d
  <2>6. EvidenceStands'
    BY <1>1, <1>2, <1>6, <2>2, LibraryIsTyped DEF LibraryInv, EvidenceStands
  <2>7. passages' \in [Editions -> Extractions \cup {"none"}] /\ jobs' \in [Editions -> WorkStatus]
        /\ \A f \in Editions : jobs[f] # "none" => jobs'[f] # "none"
    BY <1>1, <1>6, LibraryIsTyped
  <2> QED BY <1>1, <1>3, <2>1, <2>5, <2>6, <2>7, IndexKeeps
<1> QED BY <1>1, <1>5, <1>6

LEMMA PublishKeeps ==
  ASSUME LibraryInv, NEW content \in Extractions, IndexPublishes(content)
  PROVE  LibraryInv'
<1> DEFINE e == indexing.edition
<1>1. /\ indexing.pc = "extracting" /\ passages[e] \in {"none", content} /\ passages' = [passages EXCEPT ![e] = content]
      /\ generation' = [generation EXCEPT ![e] = IF content = "ocr" THEN "ready_ocr" ELSE "ready_keyword"]
      /\ indexing' = [indexing EXCEPT !.pc = "published"]
      /\ UNCHANGED <<hall, feed, receipts, cursor, mirror, jobs, sync, reader, citations>>
  BY DEF IndexPublishes, remote
<1>2. e \in Editions /\ jobs[e] # "none" /\ generation[e] \notin Ready
  BY <1>1, IndexingIsTyped DEF LibraryInv, IndexingTrue
<1>3. /\ indexing \in [pc : {"taken", "extracting", "published"}, edition : Editions, version : Nat]
      /\ indexing.version \in 1 .. Len(hall[EditionOf[e]])
  BY <1>1 DEF LibraryInv, IndexingTrue
<1>4. PICK ready \in Ready : generation' = [generation EXCEPT ![e] = ready]
  BY <1>1 DEF Ready
<1>5. /\ indexing' \in [pc : {"taken", "extracting", "published"}, edition : Editions, version : Nat]
      /\ indexing'.pc = "published" /\ indexing'.edition = e /\ indexing'.version = indexing.version
  BY <1>1, <1>3
<1>6. generation' \in [Editions -> IndexStatus] /\ passages' \in [Editions -> Extractions \cup {"none"}]
  BY <1>1, <1>2, <1>4, LibraryIsTyped DEF IndexStatus
<1>7. /\ generation'[e] = ready /\ passages'[e] = content
      /\ \A f \in Editions \ {e} : generation'[f] = generation[f] /\ passages'[f] = passages[f]
  BY <1>1, <1>2, <1>4, LibraryIsTyped
<1>8. content # "none"
  BY LibraryAssumption
<1>9. \A f \in Editions : generation'[f] # "none" => jobs[f] # "none"
  BY <1>2, <1>7 DEF LibraryInv, IndexingTrue
<1> HIDE DEF e
<1>10. IndexingTrue'
  BY <1>1, <1>2, <1>3, <1>5, <1>9 DEF IndexingTrue
<1>11. EvidenceStands'
  <2>1. \A f \in Editions : (generation'[f] \in Ready) <=> (passages'[f] # "none")
    BY <1>7, <1>8 DEF LibraryInv, EvidenceStands
  <2>2. \A f \in Editions : receipts[f] \in Ready => generation'[f] = receipts[f]
    BY <1>2, <1>7 DEF LibraryInv, EvidenceStands
  <2>3. \A c \in citations : passages'[c.edition] = c.excerpt
    BY <1>1, <1>7 DEF LibraryInv, EvidenceStands, Quoted
  <2> QED BY <1>1, <2>1, <2>2, <2>3 DEF EvidenceStands
<1> QED BY <1>1, <1>6, <1>10, <1>11, LibraryIsTyped, IndexKeeps

LEMMA FailKeeps ==
  ASSUME LibraryInv, NEW status \in {"needs_review", "failed"}, IndexFails(status)
  PROVE  LibraryInv'
<1> DEFINE e == indexing.edition
<1>1. PICK s \in {"done", "held", "quarantined"} :
        /\ indexing.pc = "extracting" /\ generation' = [generation EXCEPT ![e] = status]
        /\ receipts' = [receipts EXCEPT ![e] = status]
        /\ jobs' = [jobs EXCEPT ![e] = s] /\ indexing' = AtRest
        /\ UNCHANGED <<hall, feed, cursor, mirror, passages, sync, reader, citations>>
  BY DEF IndexFails, IndexOver
<1>2. e \in Editions /\ jobs[e] # "none" /\ generation[e] \notin Ready
  BY <1>1, IndexingIsTyped DEF LibraryInv, IndexingTrue
<1> HIDE DEF e
<1>3. /\ jobs' \in [Editions -> WorkStatus] /\ \A f \in Editions : jobs[f] # "none" => jobs'[f] # "none"
  BY <1>1, <1>2, LibraryIsTyped, WorkOver
<1>4. generation' \in [Editions -> IndexStatus] /\ receipts' \in [Editions -> IndexStatus]
  BY <1>1, <1>2, LibraryIsTyped
<1>5. /\ generation'[e] = status /\ receipts'[e] = status
      /\ \A f \in Editions \ {e} : generation'[f] = generation[f] /\ receipts'[f] = receipts[f]
  BY <1>1, <1>2, LibraryIsTyped
<1>6. \A f \in Editions : generation'[f] # "none" => jobs'[f] # "none"
  BY <1>2, <1>3, <1>5 DEF LibraryInv, IndexingTrue
<1>7. IndexingTrue'
  BY <1>1, <1>6 DEF IndexingTrue, AtRest
<1>8. EvidenceStands'
  BY <1>1, <1>2, <1>5, LibraryIsTyped DEF LibraryInv, EvidenceStands
<1> QED BY <1>1, <1>3, <1>4, <1>7, <1>8, LibraryIsTyped, IndexKeeps

LEMMA ReportKeeps ==
  ASSUME LibraryInv, NEW answered \in BOOLEAN, IndexReports(answered)
  PROVE  LibraryInv'
<1> DEFINE e == indexing.edition
<1>1. PICK s \in {"done", "held"} :
        /\ indexing.pc = "published" /\ jobs' = [jobs EXCEPT ![e] = s] /\ indexing' = AtRest
        /\ UNCHANGED receipts \/ receipts' = [receipts EXCEPT ![e] = generation[e]]
        /\ UNCHANGED <<hall, feed, cursor, mirror, generation, passages, sync, reader, citations>>
  BY DEF IndexReports, IndexOver, index
<1>2. e \in Editions
  BY <1>1, IndexingIsTyped
<1> HIDE DEF e
<1>3. /\ jobs' \in [Editions -> WorkStatus] /\ \A f \in Editions : jobs[f] # "none" => jobs'[f] # "none"
  BY <1>1, <1>2, LibraryIsTyped, WorkOver
<1>4. receipts' \in [Editions -> IndexStatus]
  BY <1>1, <1>2, LibraryIsTyped
<1>5. IndexingTrue'
  BY <1>1, <1>3 DEF LibraryInv, IndexingTrue, AtRest
<1>6. \A f \in Editions : receipts'[f] \in Ready => generation[f] = receipts'[f]
  BY <1>1, <1>2, LibraryIsTyped DEF LibraryInv, EvidenceStands
<1>7. EvidenceStands'
  BY <1>1, <1>6 DEF LibraryInv, EvidenceStands
<1> QED BY <1>1, <1>3, <1>4, <1>5, <1>7, LibraryIsTyped, IndexKeeps

LEMMA ReadersKeep ==
  ASSUME LibraryInv, ReaderReads \/ (\E d \in Documents, e \in Editions : ReaderAsks(d, e)) \/ SyncStops \/ LibraryDies
  PROVE  LibraryInv'
<1>1. CASE ReaderReads
  <2> DEFINE e == reader.edition
  <2>1. /\ reader.pc = "granted" /\ reader' = AtRest
        /\ citations' = citations \/ (generation[e] \in Ready /\ citations' = citations \cup {[edition |-> e, excerpt |-> passages[e]]})
        /\ UNCHANGED <<hall, feed, receipts, cursor, mirror, generation, passages, jobs, sync, indexing>>
    BY <1>1 DEF ReaderReads, Evidence, remote, index
  <2>2. e \in Editions
    BY <2>1 DEF LibraryInv, LibraryTyped
  <2>3. generation[e] \in Ready => passages[e] # "none"
    BY <2>2 DEF LibraryInv, EvidenceStands
  <2>4. LibraryTyped' /\ CatalogueGrows' /\ IndexingTrue' /\ AcknowledgedIsQueued'
    BY <2>1 DEF LibraryInv, LibraryTyped, CatalogueGrows, IndexingTrue, AcknowledgedIsQueued, AtRest
  <2>5. SyncFollows'
    BY <2>1 DEF LibraryInv, SyncFollows
  <2>6. Quoted' /\ EvidenceStands'
    BY <2>1, <2>2, <2>3 DEF LibraryInv, Quoted, EvidenceStands
  <2> QED BY <2>4, <2>5, <2>6 DEF LibraryInv
<1>2. ASSUME NEW d \in Documents, NEW e \in Editions, ReaderAsks(d, e) PROVE LibraryInv'
  <2>1. /\ reader' = [pc |-> "granted", edition |-> e]
        /\ UNCHANGED <<hall, feed, receipts, cursor, mirror, generation, passages, jobs, sync, indexing, citations>>
    BY <1>2 DEF ReaderAsks, remote, index
  <2>2. LibraryTyped' /\ CatalogueGrows' /\ IndexingTrue' /\ AcknowledgedIsQueued' /\ Quoted' /\ EvidenceStands'
    BY SMTT(60), <2>1 DEF LibraryInv, LibraryTyped, CatalogueGrows, IndexingTrue, AcknowledgedIsQueued, Quoted, EvidenceStands
  <2>3. SyncFollows'
    BY <2>1 DEF LibraryInv, SyncFollows
  <2> QED BY <2>2, <2>3 DEF LibraryInv
<1>3. CASE SyncStops
  <2>1. sync' = AtRest /\ UNCHANGED <<remote, cursor, mirror, index, jobs, indexing, reader, citations>>
    BY <1>3 DEF SyncStops
  <2>2. SyncFollows'
    BY <2>1 DEF SyncFollows, AtRest
  <2> QED BY <2>1, <2>2, OnlySync
<1>4. CASE LibraryDies
  <2>1. /\ sync' = AtRest /\ indexing' = AtRest /\ reader' = AtRest
        /\ UNCHANGED <<hall, feed, receipts, cursor, mirror, generation, passages, jobs, citations>>
    BY <1>4 DEF LibraryDies, remote, index
  <2>2. LibraryTyped' /\ CatalogueGrows' /\ AcknowledgedIsQueued' /\ Quoted' /\ EvidenceStands'
    BY <2>1 DEF LibraryInv, LibraryTyped, CatalogueGrows, AcknowledgedIsQueued, Quoted, EvidenceStands, AtRest
  <2>3. SyncFollows' /\ IndexingTrue'
    BY <2>1 DEF LibraryInv, SyncFollows, IndexingTrue, AtRest
  <2> QED BY <2>2, <2>3 DEF LibraryInv
<1> QED BY <1>1, <1>2, <1>3, <1>4

\* Hisar's steps: a new record of one document, or a request to index it again.
LEMMA CatalogueKeeps ==
  ASSUME LibraryInv, NEW d \in Documents, NEW new \in CatalogueRecord, hall[d] # <<>> => Last(hall[d]).editions \subseteq new.editions,
         Catalogue(d, new)
  PROVE  LibraryInv'
<1> DEFINE n == Len(hall[d])
           event == [document |-> d, version |-> n + 1, requested |-> FALSE]
<1>1. /\ hall' = [hall EXCEPT ![d] = Append(@, new)] /\ feed' = Append(feed, event)
      /\ UNCHANGED <<receipts, cursor, mirror, index, jobs, sync, indexing, reader, citations>>
  BY DEF Catalogue
<1>2. /\ hall \in [Documents -> Seq(CatalogueRecord)] /\ hall[d] \in Seq(CatalogueRecord) /\ n \in Nat /\ n >= 1
      /\ \A c \in Documents : \A v, w \in DOMAIN hall[c] : v <= w => hall[c][v].editions \subseteq hall[c][w].editions
  BY DEF LibraryInv, LibraryTyped, CatalogueGrows
<1>3. event \in FeedEvent
  BY <1>2 DEF FeedEvent
<1>4. hall'[d] = Append(hall[d], new) /\ \A c \in Documents \ {d} : hall'[c] = hall[c]
  BY <1>1, <1>2
<1>5. hall' \in [Documents -> Seq(CatalogueRecord)]
  <2>1. Append(hall[d], new) \in Seq(CatalogueRecord)
    BY <1>2
  <2> QED BY <1>1, <1>2, <2>1
<1>6. /\ Len(hall'[d]) = n + 1 /\ DOMAIN hall'[d] = 1 .. (n + 1) /\ DOMAIN hall[d] = 1 .. n
      /\ hall'[d][n + 1] = new /\ \A v \in 1 .. n : hall'[d][v] = hall[d][v]
  BY <1>2, <1>4
<1>7. \A v \in 1 .. n : hall[d][v].editions \subseteq new.editions
  <2>1. Last(hall[d]) = hall[d][n] /\ hall[d] # <<>>
    BY <1>2 DEF Last
  <2>2. n \in 1 .. n
    BY <1>2
  <2>3. \A v \in 1 .. n : v <= n
    BY <1>2
  <2> QED BY <1>2, <1>6, <2>1, <2>2, <2>3
<1>8. ASSUME NEW c \in Documents
      PROVE  Len(hall[c]) <= Len(hall'[c]) /\ \A v \in 1 .. Len(hall[c]) : hall'[c][v] = hall[c][v]
  <2>1. Len(hall[c]) \in Nat
    BY <1>2
  <2>2. CASE c = d
    BY <1>2, <1>6, <2>2
  <2>3. CASE c # d
    BY <1>4, <2>1, <2>3
  <2> QED BY <2>2, <2>3
<1>9. ASSUME NEW c \in Documents, NEW v \in DOMAIN hall'[c], NEW w \in DOMAIN hall'[c], v <= w
      PROVE  hall'[c][v].editions \subseteq hall'[c][w].editions
  <2>1. CASE c # d
    BY <1>2, <1>4, <1>9, <2>1
  <2>2. CASE c = d /\ w \in 1 .. n
    <3>1. v \in 1 .. n
      BY <1>2, <1>6, <1>9, <2>2
    <3> QED BY <1>2, <1>6, <1>9, <2>2, <3>1
  <2>3. CASE c = d /\ w = n + 1
    <3>1. v \in 1 .. n \/ v = n + 1
      BY <1>2, <1>6, <2>3
    <3> QED BY <1>6, <1>7, <2>3, <3>1
  <2> QED BY <1>2, <1>6, <2>1, <2>2, <2>3
<1>10. event.version \in 1 .. Len(hall'[event.document])
  BY <1>2, <1>6
<1> HIDE DEF event
<1> QED BY <1>1, <1>3, <1>5, <1>8, <1>9, <1>10, FeedGrows

LEMMA HisarKeeps ==
  ASSUME LibraryInv, NEW d \in Documents,
         \/ Withdraw(d) \/ RequestIndex(d) \/ (\E archived \in BOOLEAN : Archive(d, archived))
         \/ \E e \in Editions : EditionOf[e] = d /\ NewEdition(e)
  PROVE  LibraryInv'
<1>1. /\ hall \in [Documents -> Seq(CatalogueRecord)] /\ hall[d] \in Seq(CatalogueRecord)
      /\ Len(hall[d]) \in Nat /\ Len(hall[d]) >= 1
      /\ \A c \in Documents : \A v, w \in DOMAIN hall[c] : v <= w => hall[c][v].editions \subseteq hall[c][w].editions
  BY DEF LibraryInv, LibraryTyped, CatalogueGrows
<1>2. PICK last \in CatalogueRecord : last = Last(hall[d])
  BY <1>1 DEF Last
<1>3. CASE Withdraw(d)
  <2>1. [last EXCEPT !.gone = TRUE] \in CatalogueRecord /\ last.editions \subseteq [last EXCEPT !.gone = TRUE].editions
    BY Zenon DEF CatalogueRecord
  <2> QED BY <1>2, <1>3, <2>1, CatalogueKeeps DEF Withdraw
<1>4. ASSUME NEW archived \in BOOLEAN, Archive(d, archived) PROVE LibraryInv'
  <2>1. [last EXCEPT !.archived = archived] \in CatalogueRecord
        /\ last.editions \subseteq [last EXCEPT !.archived = archived].editions
    BY Zenon DEF CatalogueRecord
  <2> QED BY <1>2, <1>4, <2>1, CatalogueKeeps DEF Archive
<1>5. ASSUME NEW e \in Editions, EditionOf[e] = d, NewEdition(e) PROVE LibraryInv'
  <2> DEFINE new == [last EXCEPT !.active = e, !.editions = @ \cup {e}]
  <2>1. new \in CatalogueRecord /\ last.editions \subseteq new.editions
    <3>1. last \in [active : Editions, editions : SUBSET Editions, archived : BOOLEAN, gone : BOOLEAN]
      BY DEF CatalogueRecord
    <3>2. /\ last.editions \cup {e} \in SUBSET Editions /\ last.archived \in BOOLEAN /\ last.gone \in BOOLEAN
      BY Zenon, <3>1
    <3>3. \A S \in SUBSET Editions : [last EXCEPT !.active = e, !.editions = S]
            \in [active : Editions, editions : SUBSET Editions, archived : BOOLEAN, gone : BOOLEAN]
      BY <3>1
    <3>4. new = [last EXCEPT !.active = e, !.editions = last.editions \cup {e}]
      BY Zenon
    <3>5. new.editions = last.editions \cup {e}
      BY <3>1
    <3>6. new \in CatalogueRecord
      <4> HIDE DEF new
      <4> QED BY Zenon, <3>2, <3>3, <3>4 DEF CatalogueRecord
    <3>7. last.editions \subseteq new.editions
      BY <3>5
    <3> QED BY Zenon, <3>6, <3>7
  <2>2. Catalogue(d, new)
    <3>1. Catalogue(EditionOf[e], [Last(hall[EditionOf[e]]) EXCEPT !.active = e, !.editions = @ \cup {e}])
      BY Zenon, <1>5 DEF NewEdition
    <3> QED BY Zenon, <1>2, <1>5, <3>1
  <2> HIDE DEF new
  <2> QED BY <1>2, <2>1, <2>2, CatalogueKeeps
<1>6. CASE RequestIndex(d)
  <2> DEFINE event == [document |-> d, version |-> Len(hall[d]), requested |-> TRUE]
  <2>1. feed' = Append(feed, event) /\ UNCHANGED <<hall, receipts, cursor, mirror, index, jobs, sync, indexing, reader, citations>>
    BY <1>6 DEF RequestIndex
  <2>2. event \in FeedEvent /\ event.version \in 1 .. Len(hall[event.document])
    BY <1>1 DEF FeedEvent
  <2>3. \A c \in Documents : Len(hall[c]) <= Len(hall[c]) /\ \A v \in 1 .. Len(hall[c]) : hall[c][v] = hall[c][v]
    BY <1>1
  <2> HIDE DEF event
  <2> QED BY <1>1, <2>1, <2>2, <2>3, FeedGrows
<1> QED BY <1>3, <1>4, <1>5, <1>6

LEMMA LibraryStep ==
  ASSUME LibraryInv, [LibraryNext]_libraryVars
  PROVE  LibraryInv'
<1>1. CASE UNCHANGED libraryVars
  <2>1. LibraryTyped' /\ CatalogueGrows' /\ AcknowledgedIsQueued' /\ Quoted' /\ EvidenceStands'
    BY <1>1 DEF LibraryInv, LibraryTyped, CatalogueGrows, AcknowledgedIsQueued, Quoted, EvidenceStands, libraryVars
  <2>2. SyncFollows' /\ IndexingTrue'
    BY <1>1 DEF LibraryInv, SyncFollows, IndexingTrue, libraryVars
  <2> QED BY <2>1, <2>2 DEF LibraryInv
<1>2. ASSUME NEW d \in Documents,
             \/ Withdraw(d) \/ RequestIndex(d)
             \/ \E archived \in BOOLEAN : Archive(d, archived)
             \/ \E event \in 0 .. Len(feed) : SyncFetch(d, event)
             \/ \E e \in Editions : ReaderAsks(d, e)
      PROVE  LibraryInv'
  BY <1>2, HisarKeeps, FetchKeeps, ReadersKeep
<1>3. CASE SyncMirror \/ SyncAdvance \/ SyncStops \/ LibraryDies \/ IndexBegins \/ ReaderReads
  BY <1>3, MirrorKeeps, AdvanceKeeps, BeginKeeps, ReadersKeep
<1>4. ASSUME NEW e \in Editions, NewEdition(e) \/ AcceptEdition(e) \/ TakeIndexing(e) \/ IndexLeaseExpires(e)
      PROVE  LibraryInv'
  <2>1. EditionOf[e] \in Documents
    BY LibraryAssumption DEF Editions
  <2> QED BY <1>4, <2>1, HisarKeeps, AcceptKeeps, TakeKeeps
<1>5. ASSUME NEW outcome \in Extracted \cup {"failed"},
             IF outcome \in Extractions THEN IndexPublishes(outcome) ELSE IndexFails(outcome)
      PROVE  LibraryInv'
  <2>1. CASE outcome \in Extractions
    BY <1>5, <2>1, PublishKeeps
  <2>2. CASE outcome \notin Extractions
    BY <1>5, <2>2, FailKeeps DEF Extracted
  <2> QED BY <2>1, <2>2
<1>6. ASSUME NEW answered \in BOOLEAN, IndexReports(answered) PROVE LibraryInv'
  BY <1>6, ReportKeeps
<1> QED BY <1>1, <1>2, <1>3, <1>4, <1>5, <1>6 DEF LibraryNext

\* The index of the Hall of Records can be relied on: the feed is followed event
\* by event and loses no work, and what is ready or quoted is what was extracted
\* (library_indexer.py reconcile, index_revision; library.py search_keyword).
THEOREM LibraryShape == LibrarySpec => []LibraryInv
<1>1. LibraryInit => LibraryInv
  BY LibraryStarts
<1>2. LibraryInv /\ [LibraryNext]_libraryVars => LibraryInv'
  BY LibraryStep
<1> QED BY <1>1, <1>2, PTL DEF LibrarySpec

\* An acknowledged event is mirrored and its work queued; passages, readiness,
\* receipts and citations agree.
THEOREM LibraryHolds == LibrarySpec => []LibrarySound
<1>1. LibraryInv => LibrarySound
  BY DEF LibraryInv, LibrarySound
<1> QED BY <1>1, LibraryShape, PTL

-----------------------------------------------------------------------------
(* Numbers.                                                                *)

\* Every set of numbers has a least one.
LEMMA SmallestOne ==
  ASSUME NEW T, T \subseteq Nat, T # {} PROVE \E x \in T : \A y \in T : x <= y
<1>1. PICK x \in T : \A y \in T : ~(<<y, x>> \in OpToRel(<, Nat))
  BY ZenonT(60), NatLessThanWellFounded, WFMin
<1>2. \A y \in T : y \in Nat /\ x \in Nat /\ ~(y < x)
  BY <1>1 DEF OpToRel
<1> QED BY <1>2

\* A finite set of integers has a greatest one: take its members one by one.
LEMMA GreatestOne ==
  ASSUME NEW T, T \subseteq Int, T # {}, IsFiniteSet(T)
  PROVE  Max(T) \in T /\ \A y \in T : y <= Max(T)
<1>1. Cardinality(T) \in Nat /\ ExistsBijection(1 .. Cardinality(T), T)
  BY FS_CardinalityType
<1>2. PICK n \in Nat : n = Cardinality(T)
  BY <1>1
<1>3. PICK f \in [1 .. n -> T] : \A y \in T : \E i \in 1 .. n : f[i] = y
  BY <1>1, <1>2 DEF ExistsBijection, Bijection, Surjection
<1> DEFINE Greatest(m, i) == i \in 1 .. m /\ \A j \in 1 .. m : f[j] <= f[i]
           Without == {m \in 1 .. n : ~\E i \in 1 .. n : Greatest(m, i)}
<1>4. Without = {}
  <2> SUFFICES ASSUME Without # {} PROVE FALSE
    OBVIOUS
  <2>1. PICK m \in Without : \A k \in Without : m <= k
    <3>1. Without \subseteq Nat
      BY <1>2
    <3> HIDE DEF Without
    <3> QED BY <3>1, SmallestOne
  <2>2. m \in 1 .. n /\ m \in Nat
    OBVIOUS
  <2>3. CASE m = 1
    <3>0. 1 \in 1 .. n /\ \A j \in 1 .. 1 : j = 1
      BY <2>2, <2>3
    <3>1. f[1] \in Int
      BY <1>3, <3>0
    <3>2. f[1] <= f[1]
      BY <3>1
    <3>3. \A j \in 1 .. m : f[j] <= f[1]
      BY <2>3, <3>0, <3>2
    <3>4. Greatest(m, 1)
      BY <2>2, <2>3, <3>3
    <3> QED BY <2>2, <3>0, <3>4
  <2>4. CASE m # 1
    <3>0. m - 1 \in 1 .. n /\ ~(m <= m - 1)
      BY <1>2, <2>2, <2>4
    <3>1. m - 1 \in 1 .. n /\ m - 1 \notin Without
      <4> HIDE DEF Without
      <4> QED BY <2>1, <3>0
    <3>2. PICK i \in 1 .. n : i \in 1 .. (m - 1) /\ \A j \in 1 .. (m - 1) : f[j] <= f[i]
      BY <3>1
    <3>3. f[i] \in Int /\ f[m] \in Int /\ \A j \in 1 .. n : f[j] \in Int
      BY <1>3, <2>2
    <3>4. \A j \in 1 .. m : j \in 1 .. (m - 1) \/ j = m
      BY <2>2
    <3>5. CASE f[m] <= f[i]
      <4>1. Greatest(m, i)
        BY <2>2, <3>2, <3>4, <3>5
      <4> QED BY <4>1
    <3>6. CASE f[i] <= f[m]
      <4>1. \A j \in 1 .. m : f[j] <= f[m]
        <5> SUFFICES ASSUME NEW j \in 1 .. m PROVE f[j] <= f[m]
          OBVIOUS
        <5>1. j \in 1 .. n /\ (j = m \/ f[j] <= f[i])
          BY <2>2, <3>2, <3>4
        <5> QED BY <3>3, <3>6, <5>1
      <4>2. Greatest(m, m)
        BY <2>2, <4>1
      <4> QED BY <2>2, <4>2
    <3> QED BY <3>3, <3>5, <3>6
  <2> QED BY <2>3, <2>4
<1>5. n \in 1 .. n
  <2>1. PICK y \in T : TRUE
    OBVIOUS
  <2>2. \E i \in 1 .. n : TRUE
    BY <1>3, <2>1
  <2> QED BY <1>2, <2>2
<1>6. PICK i \in 1 .. n : \A j \in 1 .. n : f[j] <= f[i]
  BY <1>4, <1>5
<1>7. f[i] \in T /\ \A y \in T : y <= f[i]
  BY <1>3, <1>6
<1>8. \A y \in T : f[i] >= y
  BY <1>7
<1>9. \A y \in T : Max(T) >= y /\ Max(T) \in T
  BY <1>7, <1>8 DEF Max
<1> QED BY <1>7, <1>9

-----------------------------------------------------------------------------
(* Health.  A day is left alone unless a batch touches it or a corrected   *)
(* sample leaves it, so its rollup goes on saying what its samples say.    *)

Filed(reading) == reading.day \in LocalDays /\ reading.end \in Nat
Upload ==
  [stage : {"idle", "read", "retry", "retrying", "done", "failed"}, batch : Batches \cup {<<>>}, known : SUBSET SampleKeys]
Question ==
  [stage : {"idle", "gate", "waiting", "over"}, live : BOOLEAN, metrics : SUBSET Metrics, age : Int, at : Nat,
   answer : {"none", "numbers", "refused"}]

HealthTyped ==
  /\ samples = [k \in SampleKeys |-> samples[k]] /\ \A k \in SampleKeys : samples[k] = Absent \/ Filed(samples[k])
  /\ daily = [d \in LocalDays \X Metrics |-> daily[d]]
  /\ uploads \in [Uploads -> Upload] /\ demand \in [raised : Nat, served : BOOLEAN]
  /\ askers \in [Askers -> Question] /\ \A a \in Askers : askers[a].stage # "idle" => askers[a].metrics # {}
  /\ now \in Nat /\ acked \subseteq SampleKeys

HealthInv == HealthTyped /\ RollupsMatch /\ AcknowledgedStored /\ NeverStale

\* What a batch says of a sample is a reading of a local day, and is not absent.
LEMMA BatchFiles ==
  ASSUME HealthTyped, NEW u \in Uploads, NEW k \in DOMAIN uploads[u].batch
  PROVE  k \in SampleKeys /\ Filed(uploads[u].batch[k]) /\ uploads[u].batch[k] # Absent
<1>1. uploads[u].batch \in Batches \/ uploads[u].batch = <<>>
  BY DEF HealthTyped, Upload
<1>2. uploads[u].batch \in Batches
  BY <1>1
<1>3. k \in SampleKeys /\ uploads[u].batch[k].day \in LocalDays /\ uploads[u].batch[k].end \in Nat
  BY <1>2, HealthAssumption
<1>4. 0 \notin LocalDays /\ Absent.day = 0
  BY HealthAssumption DEF Absent
<1> QED BY <1>3, <1>4 DEF Filed

\* The rollup of a day depends on its samples alone.
LEMMA RollupSame ==
  ASSUME NEW one, NEW other, NEW day, NEW metric, FiledUnder(one, day, metric) = FiledUnder(other, day, metric),
         \A k \in FiledUnder(one, day, metric) : one[k] = other[k]
  PROVE  Rollup(one, day, metric) = Rollup(other, day, metric)
<1>1. PICK filed : filed = FiledUnder(one, day, metric) /\ filed = FiledUnder(other, day, metric)
  OBVIOUS
<1>2. [k \in filed |-> one[k]] = [k \in filed |-> other[k]]
  BY Zenon, <1>1
<1> QED BY Zenon, <1>1, <1>2 DEF Rollup

\* A step of the uploads that writes no sample.
LEMMA UploadMoves ==
  ASSUME HealthInv, uploads' \in [Uploads -> Upload],
         UNCHANGED <<samples, daily, demand, phone, askers, now, acked, leftDays>>
  PROVE  HealthInv'
<1>1. HealthTyped'
  BY Zenon DEF HealthInv, HealthTyped, Filed
<1>2. RollupsMatch' /\ AcknowledgedStored' /\ NeverStale'
  BY ZenonT(60) DEF HealthInv, RollupsMatch, Rollup, FiledUnder, AcknowledgedStored, HeldSamples, NeverStale
<1> QED BY <1>1, <1>2 DEF HealthInv

LEMMA CommitKeeps ==
  ASSUME HealthInv, NEW u \in Uploads, NEW skipped, skipped \subseteq StoredKeys, CommitUpload(u, skipped),
         UNCHANGED <<phone, askers, now>>
  PROVE  HealthInv'
<1> DEFINE batch == uploads[u].batch
           known == uploads[u].known
           touched == Touched(batch, known)
           moved == {k \in DOMAIN batch \ skipped : HeldSamples(k) /\ samples[k].day # batch[k].day}
<1>1. samples' = [k \in SampleKeys |-> IF k \in DOMAIN batch \ skipped THEN batch[k] ELSE samples[k]]
  BY Zenon DEF CommitUpload, Written
<1>2. daily' = [d \in DOMAIN daily |-> IF d \in touched THEN Rollup(samples', d[1], d[2]) ELSE daily[d]]
  BY Zenon DEF CommitUpload
<1>3. /\ acked' = acked \cup DOMAIN batch
      /\ leftDays' = (leftDays \ touched) \cup ({<<samples[k].day, MetricOf[k]>> : k \in moved} \ touched)
      /\ demand' = [demand EXCEPT !.served = demand.raised > 0]
      /\ uploads' = [uploads EXCEPT ![u].stage = "done"]
  BY Zenon DEF CommitUpload, At
<1>4. \A k \in DOMAIN batch : k \in SampleKeys /\ Filed(batch[k]) /\ batch[k] # Absent
  BY BatchFiles DEF HealthInv
<1>5. \A k \in DOMAIN batch : <<batch[k].day, MetricOf[k]>> \in touched
  BY Zenon DEF Touched
<1>6. \A k \in SampleKeys : samples'[k] = IF k \in DOMAIN batch \ skipped THEN batch[k] ELSE samples[k]
  BY Zenon, <1>1
<1> HIDE DEF batch, known, touched
<1>7. HealthTyped'
  <2>1. samples' = [k \in SampleKeys |-> samples'[k]]
    BY Zenon, <1>1
  <2>2. \A k \in SampleKeys : samples'[k] = Absent \/ Filed(samples'[k])
    BY Zenon, <1>4, <1>6 DEF HealthInv, HealthTyped
  <2>3. DOMAIN daily = LocalDays \X Metrics
    BY Zenon DEF HealthInv, HealthTyped
  <2>4. daily' = [d \in LocalDays \X Metrics |-> daily'[d]]
    BY Zenon, <1>2, <2>3
  <2>5. uploads' \in [Uploads -> Upload]
    <3>1. uploads \in [Uploads -> Upload]
      BY DEF HealthInv, HealthTyped
    <3>2. [uploads[u] EXCEPT !.stage = "done"] \in Upload
      BY <3>1 DEF Upload
    <3>3. PICK done \in Upload : uploads' = [uploads EXCEPT ![u] = done]
      BY Zenon, <1>3, <3>2
    <3> QED BY Zenon, <3>1, <3>3
  <2>6. demand' \in [raised : Nat, served : BOOLEAN]
    <3>1. demand \in [raised : Nat, served : BOOLEAN] /\ (demand.raised > 0) \in BOOLEAN
      BY DEF HealthInv, HealthTyped
    <3>2. PICK served \in BOOLEAN : demand' = [demand EXCEPT !.served = served]
      BY Zenon, <1>3, <3>1
    <3> QED BY <3>1, <3>2
  <2>7. acked' \subseteq SampleKeys
    BY <1>3, <1>4 DEF HealthInv, HealthTyped
  <2> QED BY Zenon, <2>1, <2>2, <2>4, <2>5, <2>6, <2>7 DEF HealthInv, HealthTyped, Filed
<1>8. AcknowledgedStored'
  <2> SUFFICES ASSUME NEW k \in acked' PROVE samples'[k] # Absent
    BY Zenon DEF AcknowledgedStored, HeldSamples
  <2>1. k \in SampleKeys /\ (k \in acked \/ k \in DOMAIN batch)
    BY <1>3, <1>4 DEF HealthInv, HealthTyped
  <2>2. k \in acked => samples[k] # Absent
    BY Zenon DEF HealthInv, AcknowledgedStored, HeldSamples
  <2>3. k \in skipped => samples[k] # Absent
    BY DEF StoredKeys, HeldSamples
  <2> QED BY <1>4, <1>6, <2>1, <2>2, <2>3
<1>9. RollupsMatch'
  <2> SUFFICES ASSUME NEW d \in DOMAIN daily', d \notin leftDays' PROVE daily'[d] = Rollup(samples', d[1], d[2])
    BY Zenon DEF RollupsMatch
  <2>1. d \in DOMAIN daily /\ daily'[d] = IF d \in touched THEN Rollup(samples', d[1], d[2]) ELSE daily[d]
    BY Zenon, <1>2
  <2>2. CASE d \in touched
    BY <2>1, <2>2
  <2>3. CASE d \notin touched
    <3>1. d \notin leftDays /\ \A k \in moved : d # <<samples[k].day, MetricOf[k]>>
      BY <1>3, <2>3
    <3>2. daily[d] = Rollup(samples, d[1], d[2])
      BY Zenon, <2>1, <3>1 DEF HealthInv, RollupsMatch
    <3>3. d = <<d[1], d[2]>>
      <4>1. d \in LocalDays \X Metrics
        BY Zenon, <2>1 DEF HealthInv, HealthTyped
      <4> QED BY <4>1
    <3>4. ASSUME NEW k \in SampleKeys, k \in DOMAIN batch \ skipped
          PROVE  /\ ~(samples'[k].day = d[1] /\ MetricOf[k] = d[2])
                 /\ ~(samples[k] # Absent /\ samples[k].day = d[1] /\ MetricOf[k] = d[2])
      <4>1. samples'[k] = batch[k]
        BY Zenon, <1>6, <3>4
      <4>2. <<batch[k].day, MetricOf[k]>> \in touched
        BY Zenon, <1>5, <3>4
      <4>3. <<batch[k].day, MetricOf[k]>> # d
        BY Zenon, <2>3, <4>2
      <4>4. ~(batch[k].day = d[1] /\ MetricOf[k] = d[2])
        BY Zenon, <3>3, <4>3
      <4>5. ASSUME samples[k] # Absent, samples[k].day = d[1], MetricOf[k] = d[2] PROVE FALSE
        <5>1. samples[k].day # batch[k].day
          BY Zenon, <4>4, <4>5
        <5>2. k \in moved
          BY Zenon, <3>4, <4>5, <5>1 DEF HeldSamples
        <5>3. <<samples[k].day, MetricOf[k]>> = d
          BY Zenon, <3>3, <4>5
        <5> HIDE DEF moved
        <5> QED BY Zenon, <3>1, <5>2, <5>3
      <4> QED BY Zenon, <4>1, <4>4, <4>5
    <3>5. \A k \in SampleKeys : k \notin DOMAIN batch \ skipped => samples'[k] = samples[k]
      BY Zenon, <1>6
    <3> HIDE DEF moved
    <3>6. FiledUnder(samples', d[1], d[2]) = FiledUnder(samples, d[1], d[2])
      BY <3>4, <3>5 DEF FiledUnder
    <3>7. \A k \in FiledUnder(samples, d[1], d[2]) : samples[k] = samples'[k]
      BY <3>4, <3>5 DEF FiledUnder
    <3>8. Rollup(samples, d[1], d[2]) = Rollup(samples', d[1], d[2])
      BY <3>6, <3>7, RollupSame
    <3> QED BY Zenon, <2>1, <2>3, <3>2, <3>8
  <2> QED BY <2>2, <2>3
<1>10. NeverStale'
  BY Zenon DEF HealthInv, NeverStale
<1> QED BY <1>7, <1>8, <1>9, <1>10 DEF HealthInv

\* The newest reading of a metric is a time, and so is its age.
LEMMA AgesAreTimes ==
  ASSUME HealthTyped, NEW x \in Metrics
  PROVE  Newest(x) \in Nat /\ Age(x) \in Nat /\ Budget[x] \in Nat
<1> DEFINE K == {j \in StoredKeys : MetricOf[j] = x}
           E == {samples[k].end : k \in K}
           ends == [k \in K |-> samples[k].end]
<1>1. K \subseteq SampleKeys /\ IsFiniteSet(K)
  <2>1. K \subseteq SampleKeys
    BY DEF StoredKeys
  <2> HIDE DEF K
  <2> QED BY <2>1, HealthAssumption, FS_Subset
<1>2. IsFiniteSet(E)
  <2> HIDE DEF K
  <2>1. ends \in Surjection(K, E)
    BY DEF Surjection
  <2> HIDE DEF ends, E
  <2> QED BY <1>1, <2>1, FS_Surjection
<1>3. E \subseteq Nat
  BY DEF HealthTyped, Filed, StoredKeys, HeldSamples
<1> HIDE DEF E
<1>4. IsFiniteSet({0} \cup E)
  BY <1>2, FS_Singleton, FS_Union
<1>5. Max({0} \cup E) \in {0} \cup E
  <2>1. {0} \cup E \subseteq Int /\ {0} \cup E # {}
    BY <1>3
  <2> QED BY <1>4, <2>1, GreatestOne
<1>6. Newest(x) \in Nat
  <2>1. Newest(x) = Max({0} \cup E)
    BY Zenon DEF Newest, E, K
  <2>2. PICK m \in {0} \cup E : m = Newest(x)
    BY Zenon, <1>5, <2>1
  <2> QED BY <1>3, <2>2
<1>7. PICK old \in Int : old = now - Newest(x)
  BY <1>6 DEF HealthTyped
<1>8. Max({0, old}) \in {0, old} /\ \A y \in {0, old} : y <= Max({0, old})
  <2>1. IsFiniteSet({0, old})
    <3>1. IsFiniteSet({0}) /\ IsFiniteSet({old}) /\ {0, old} = {0} \cup {old}
      BY FS_Singleton
    <3> QED BY <3>1, FS_Union
  <2>2. {0, old} \subseteq Int /\ {0, old} # {}
    OBVIOUS
  <2> QED BY <2>1, <2>2, GreatestOne
<1>9. Age(x) = Max({0, old})
  BY Zenon, <1>7 DEF Age
<1>10. Age(x) \in Nat
  BY <1>8, <1>9
<1>11. Budget[x] \in Nat
  BY HealthAssumption DEF Metrics
<1> QED BY <1>6, <1>10, <1>11

\* What is told of an age is a number, and says so when nothing is stale.
LEMMA AgeTold ==
  ASSUME HealthTyped, NEW metrics \in SUBSET Metrics, metrics # {}
  PROVE  OldestAge(metrics) \in Int /\ (StaleMetrics(metrics) = {} => OldestAge(metrics) <= 0)
<1> DEFINE over(x) == IF Newest(x) = 0 THEN MaxNow + 1 ELSE Age(x) - Budget[x]
           f == [x \in metrics |-> over(x)]
           A == {over(x) : x \in metrics}
<1>1. \A x \in metrics : over(x) \in Int
  BY AgesAreTimes, HealthAssumption
<1>2. IsFiniteSet(metrics)
  <2>1. [k \in SampleKeys |-> MetricOf[k]] \in Surjection(SampleKeys, Metrics)
    BY DEF Surjection, Metrics
  <2>2. IsFiniteSet(Metrics)
    BY <2>1, FS_Surjection, HealthAssumption
  <2> QED BY <2>2, FS_Subset
<1>3. OldestAge(metrics) = Max(A)
  BY Zenon DEF OldestAge
<1>4. StaleMetrics(metrics) = {} => \A x \in metrics : over(x) <= 0
  <2> SUFFICES ASSUME StaleMetrics(metrics) = {}, NEW x \in metrics PROVE over(x) <= 0
    OBVIOUS
  <2>1. FreshMetric(x)
    BY DEF StaleMetrics
  <2>2. Newest(x) \in Nat /\ Age(x) \in Nat /\ Budget[x] \in Nat
    BY AgesAreTimes
  <2> QED BY <2>1, <2>2 DEF FreshMetric
<1>5. f \in Surjection(metrics, A)
  BY DEF Surjection
<1>6. A \subseteq Int /\ A # {} /\ (StaleMetrics(metrics) = {} => \A y \in A : y <= 0)
  BY <1>1, <1>4
<1> HIDE DEF A, f
<1>7. IsFiniteSet(A)
  BY <1>2, <1>5, FS_Surjection
<1>8. Max(A) \in A
  BY <1>6, <1>7, GreatestOne
<1> QED BY <1>3, <1>6, <1>8

\* A turn of the health tool, and what moves beside it.
LEMMA AskerMoves ==
  ASSUME HealthInv, NEW a \in Askers, NEW q \in Question, askers' = [askers EXCEPT ![a] = q],
         q.stage # "idle" => q.metrics # {}, q.answer = "numbers" => q.age <= 0,
         demand' \in [raised : Nat, served : BOOLEAN], NoUploads
  PROVE  HealthInv'
<1>1. UNCHANGED <<samples, daily, uploads, now, acked, leftDays>>
  BY DEF NoUploads
<1>2. askers \in [Askers -> Question] /\ \A b \in Askers : askers[b].stage # "idle" => askers[b].metrics # {}
  BY DEF HealthInv, HealthTyped
<1>3. askers' \in [Askers -> Question] /\ askers'[a] = q /\ \A b \in Askers \ {a} : askers'[b] = askers[b]
  BY <1>2
<1>4. \A b \in Askers : askers'[b].stage # "idle" => askers'[b].metrics # {}
  BY <1>2, <1>3
<1>5. HealthTyped'
  BY Zenon, <1>1, <1>3, <1>4 DEF HealthInv, HealthTyped, Filed
<1>6. RollupsMatch' /\ AcknowledgedStored'
  <2>1. samples' = samples /\ daily' = daily /\ leftDays' = leftDays /\ acked' = acked
    BY <1>1
  <2>2. RollupsMatch /\ AcknowledgedStored
    BY DEF HealthInv
  <2>3. RollupsMatch'
    BY ONLY ZenonT(60), <2>1, <2>2 DEF RollupsMatch, Rollup, FiledUnder
  <2>4. AcknowledgedStored'
    BY ONLY <2>1, <2>2, Zenon DEF AcknowledgedStored, HeldSamples
  <2> QED BY <2>3, <2>4
<1>7. NeverStale'
  BY <1>3 DEF HealthInv, NeverStale
<1> QED BY <1>5, <1>6, <1>7 DEF HealthInv

\* What is told, with the age it is told at.
LEMMA TellsKeeps ==
  ASSUME HealthInv, NEW a \in Askers, NEW answer \in {"numbers", "refused"}, Tells(a, answer),
         askers[a].stage # "idle", answer = "numbers" => StaleMetrics(askers[a].metrics) = {},
         UNCHANGED demand, NoUploads
  PROVE  HealthInv'
<1>1. askers[a] \in Question /\ askers[a].metrics # {} /\ askers[a].metrics \in SUBSET Metrics
  BY DEF HealthInv, HealthTyped, Question
<1>2. PICK age \in Int : age = OldestAge(askers[a].metrics) /\ (answer = "numbers" => age <= 0)
  BY <1>1, AgeTold DEF HealthInv
<1>3. askers' = [askers EXCEPT ![a] = [askers[a] EXCEPT !.stage = "over", !.answer = answer, !.age = age]]
  BY Zenon, <1>2 DEF Tells, Asking
<1>4. PICK q : q = [askers[a] EXCEPT !.stage = "over", !.answer = answer, !.age = age]
  OBVIOUS
<1>5. q \in Question /\ q.stage = "over" /\ q.answer = answer /\ q.age = age /\ q.metrics = askers[a].metrics
  BY <1>1, <1>4 DEF Question
<1>6. askers' = [askers EXCEPT ![a] = q]
  BY Zenon, <1>3, <1>4
<1>7. demand' \in [raised : Nat, served : BOOLEAN]
  BY DEF HealthInv, HealthTyped
<1> QED BY <1>1, <1>2, <1>5, <1>6, <1>7, AskerMoves

LEMMA AskersKeep ==
  ASSUME HealthInv, NEW a \in Askers,
         AskHealth(a) \/ PassesGate(a) \/ RefusesAtOnce(a) \/ DemandsSync(a) \/ SyncServed(a) \/ SyncTimesOut(a)
  PROVE  HealthInv'
<1>0. askers[a] \in Question /\ demand \in [raised : Nat, served : BOOLEAN]
  BY DEF HealthInv, HealthTyped
<1>1. CASE AskHealth(a)
  <2>1. PICK metrics \in (SUBSET Metrics) \ {{}}, live \in BOOLEAN :
          askers' = [askers EXCEPT ![a] = [NoQuestion EXCEPT !.stage = "gate", !.live = live, !.metrics = metrics]]
    BY Zenon, <1>1 DEF AskHealth, Asking
  <2>2. PICK q : q = [NoQuestion EXCEPT !.stage = "gate", !.live = live, !.metrics = metrics]
    OBVIOUS
  <2>3. q \in Question /\ q.metrics # {} /\ q.answer = "none"
    <3>1. NoQuestion \in Question
      BY DEF Question, NoQuestion
    <3>2. q \in Question
      <4>1. PICK none \in Question : none = NoQuestion
        BY Zenon, <3>1
      <4>2. metrics \in SUBSET Metrics /\ live \in BOOLEAN
        OBVIOUS
      <4>3. [none EXCEPT !.stage = "gate", !.live = live, !.metrics = metrics] \in Question
        BY ONLY none \in Question, <4>2, Zenon DEF Question
      <4> QED BY Zenon, <2>2, <4>1, <4>3
    <3>3. q.metrics = metrics /\ q.answer = "none"
      BY <2>2 DEF NoQuestion
    <3>4. metrics # {}
      OBVIOUS
    <3> QED BY Zenon, <3>2, <3>3, <3>4
  <2>4. askers' = [askers EXCEPT ![a] = q] /\ UNCHANGED demand /\ NoUploads
    BY Zenon, <1>1, <2>1, <2>2 DEF AskHealth
  <2> QED BY <1>0, <2>3, <2>4, AskerMoves
<1>2. CASE PassesGate(a)
  BY <1>2, TellsKeeps DEF PassesGate
<1>3. CASE RefusesAtOnce(a)
  BY <1>3, TellsKeeps DEF RefusesAtOnce
<1>4. CASE DemandsSync(a)
  <2>1. /\ askers[a].stage = "gate" /\ demand' = [raised |-> demand.raised + 1, served |-> FALSE] /\ NoUploads
        /\ askers' = [askers EXCEPT ![a] = [askers[a] EXCEPT !.stage = "waiting", !.at = demand.raised + 1]]
    BY Zenon, <1>4 DEF DemandsSync, Asking
  <2>2. PICK q : q = [askers[a] EXCEPT !.stage = "waiting", !.at = demand.raised + 1]
    OBVIOUS
  <2>3. q \in Question /\ q.metrics = askers[a].metrics /\ q.answer = askers[a].answer /\ q.age = askers[a].age
    <3>1. PICK at \in Nat : at = demand.raised + 1
      BY <1>0
    <3>2. q = [askers[a] EXCEPT !.stage = "waiting", !.at = at]
      BY Zenon, <2>2, <3>1
    <3> QED BY <1>0, <3>2 DEF Question
  <2>4. askers[a].metrics # {} /\ (askers[a].answer = "numbers" => askers[a].age <= 0)
    BY <2>1 DEF HealthInv, HealthTyped, NeverStale
  <2>5. askers' = [askers EXCEPT ![a] = q] /\ demand' \in [raised : Nat, served : BOOLEAN]
    <3>1. demand.raised + 1 \in Nat
      BY <1>0
    <3> QED BY Zenon, <2>1, <2>2, <3>1
  <2> QED BY <2>1, <2>3, <2>4, <2>5, AskerMoves
<1>5. CASE SyncServed(a)
  <2>1. PICK answer \in {"numbers", "refused"} :
          answer = AnswerWhenServed(a) /\ (answer = "numbers" => StaleMetrics(askers[a].metrics) = {})
    BY DEF AnswerWhenServed
  <2>2. Tells(a, answer) /\ askers[a].stage = "waiting" /\ UNCHANGED demand /\ NoUploads
    BY Zenon, <1>5, <2>1 DEF SyncServed
  <2> QED BY <2>1, <2>2, TellsKeeps
<1>6. CASE SyncTimesOut(a)
  BY <1>6, TellsKeeps DEF SyncTimesOut
<1> QED BY <1>1, <1>2, <1>3, <1>4, <1>5, <1>6

LEMMA UploadsKeep ==
  ASSUME HealthInv, NEW u \in Uploads,
         SendBatch(u) \/ WriteBatch(u) \/ RetryBatch(u) \/ WriteRetried(u) \/ UploadOver(u)
  PROVE  HealthInv'
<1>1. uploads \in [Uploads -> Upload] /\ uploads[u] \in Upload
  BY DEF HealthInv, HealthTyped
<1>2. StoredKeys \subseteq SampleKeys
  BY DEF StoredKeys
<1>3. ASSUME NEW stage \in {"retry", "done", "failed"}, At(u, stage),
             UNCHANGED <<samples, daily, demand, acked, leftDays>>, NoAnswers
      PROVE  HealthInv'
  <2>1. PICK one \in Upload : one = [uploads[u] EXCEPT !.stage = stage]
    BY <1>1 DEF Upload
  <2>2. uploads' = [uploads EXCEPT ![u] = one]
    BY Zenon, <1>3, <2>1 DEF At
  <2>3. uploads' \in [Uploads -> Upload]
    BY <1>1, <2>2
  <2>4. UNCHANGED <<phone, askers, now>>
    BY <1>3 DEF NoAnswers
  <2> QED BY <1>3, <2>3, <2>4, UploadMoves
<1>4. CASE SendBatch(u)
  <2>1. PICK b \in Batches :
          uploads' = [uploads EXCEPT ![u] = [stage |-> "read", batch |-> b, known |-> StoredKeys \cap DOMAIN b]]
    BY <1>4 DEF SendBatch
  <2>2. PICK one \in Upload : one = [stage |-> "read", batch |-> b, known |-> StoredKeys \cap DOMAIN b]
    BY <1>2 DEF Upload
  <2>3. uploads' = [uploads EXCEPT ![u] = one]
    BY Zenon, <2>1, <2>2
  <2>4. uploads' \in [Uploads -> Upload]
    BY <1>1, <2>3
  <2>5. UNCHANGED <<samples, daily, demand, phone, askers, now, acked, leftDays>>
    BY <1>4 DEF SendBatch
  <2> QED BY <2>4, <2>5, UploadMoves
<1>5. CASE WriteBatch(u)
  <2>1. UNCHANGED <<phone, askers, now>>
    BY <1>5 DEF WriteBatch, NoAnswers
  <2>2. CASE CommitUpload(u, {})
    BY <2>1, <2>2, CommitKeeps
  <2>3. CASE \E stage \in {"retry", "failed"} :
               At(u, stage) /\ UNCHANGED <<samples, daily, demand, acked, leftDays>> /\ NoAnswers
    BY <1>3, <2>3
  <2> QED BY Zenon, <1>5, <2>2, <2>3 DEF WriteBatch
<1>6. CASE RetryBatch(u)
  <2>1. PICK known \in SUBSET SampleKeys : known = StoredKeys \cap DOMAIN uploads[u].batch
    BY <1>2
  <2>2. PICK one \in Upload : one = [uploads[u] EXCEPT !.stage = "retrying", !.known = known]
    BY <1>1 DEF Upload
  <2>3. uploads' = [uploads EXCEPT ![u] = one]
    BY Zenon, <1>6, <2>1, <2>2 DEF RetryBatch
  <2>4. uploads' \in [Uploads -> Upload]
    BY <1>1, <2>3
  <2>5. UNCHANGED <<samples, daily, demand, phone, askers, now, acked, leftDays>>
    BY <1>6 DEF RetryBatch, NoAnswers
  <2> QED BY <2>4, <2>5, UploadMoves
<1>7. CASE WriteRetried(u)
  <2>1. UNCHANGED <<phone, askers, now>>
    BY <1>7 DEF WriteRetried, NoAnswers
  <2>2. ASSUME NEW skipped \in {{}} \cup {{k} : k \in (DOMAIN uploads[u].batch \ uploads[u].known) \cap StoredKeys},
               CommitUpload(u, skipped)
        PROVE  HealthInv'
    <3>1. skipped \subseteq StoredKeys
      OBVIOUS
    <3> QED BY <2>1, <2>2, <3>1, CommitKeeps
  <2>3. CASE At(u, "failed") /\ UNCHANGED <<samples, daily, demand, acked, leftDays>> /\ NoAnswers
    BY <1>3, <2>3
  <2> QED BY Zenon, <1>7, <2>2, <2>3 DEF WriteRetried
<1>8. CASE UploadOver(u)
  <2>1. NoUpload \in Upload
    BY DEF NoUpload, Upload
  <2>2. uploads' \in [Uploads -> Upload]
    BY <1>1, <1>8, <2>1 DEF UploadOver
  <2>3. UNCHANGED <<samples, daily, demand, phone, askers, now, acked, leftDays>>
    BY <1>8 DEF UploadOver, NoAnswers
  <2> QED BY <2>2, <2>3, UploadMoves
<1> QED BY <1>4, <1>5, <1>6, <1>7, <1>8

\* Without samples there is no rollup.
LEMMA NothingFiled ==
  ASSUME NEW table, \A k \in SampleKeys : table[k] = Absent, NEW day, NEW metric
  PROVE  Rollup(table, day, metric) = NoRollup
<1>1. FiledUnder(table, day, metric) = {}
  BY DEF FiledUnder
<1> QED BY Zenon, <1>1 DEF Rollup

\* The tables are empty: at first, and after a wipe.
LEMMA EmptyTables ==
  ASSUME samples = [k \in SampleKeys |-> Absent], NEW S, daily = [d \in S |-> NoRollup], acked = {}
  PROVE  RollupsMatch /\ AcknowledgedStored
<1>1. \A k \in SampleKeys : samples[k] = Absent
  BY Zenon
<1>2. \A d \in DOMAIN daily : daily[d] = NoRollup
  BY Zenon
<1>3. \A d \in DOMAIN daily : Rollup(samples, d[1], d[2]) = NoRollup
  BY <1>1, NothingFiled
<1> QED BY Zenon, <1>2, <1>3 DEF RollupsMatch, AcknowledgedStored

LEMMA HealthStep ==
  ASSUME HealthInv, [HealthNext]_healthVars
  PROVE  HealthInv'
<1>1. CASE UNCHANGED healthVars
  <2>1. uploads' \in [Uploads -> Upload]
    BY <1>1 DEF HealthInv, HealthTyped, healthVars
  <2> QED BY <1>1, <2>1, UploadMoves DEF healthVars
<1>2. CASE Wipe
  <2>1. /\ samples' = [k \in SampleKeys |-> Absent] /\ daily' = [d \in DOMAIN daily |-> NoRollup] /\ acked' = {}
        /\ UNCHANGED <<uploads, demand, askers, now>>
    BY <1>2 DEF Wipe
  <2>2. RollupsMatch' /\ AcknowledgedStored'
    <3>1. \A k \in SampleKeys : samples'[k] = Absent
      BY Zenon, <2>1
    <3>2. \A d \in DOMAIN daily' : daily'[d] = NoRollup
      BY Zenon, <2>1
    <3>3. \A d \in DOMAIN daily' : Rollup(samples', d[1], d[2]) = NoRollup
      BY <3>1, NothingFiled
    <3>4. RollupsMatch'
      BY Zenon, <3>2, <3>3 DEF RollupsMatch, Rollup, FiledUnder
    <3> QED BY Zenon, <2>1, <3>4 DEF AcknowledgedStored
  <2>3. DOMAIN daily = LocalDays \X Metrics
    BY Zenon DEF HealthInv, HealthTyped
  <2>4. daily' = [d \in LocalDays \X Metrics |-> daily'[d]] /\ samples' = [k \in SampleKeys |-> samples'[k]]
    BY Zenon, <2>1, <2>3
  <2>5. \A k \in SampleKeys : samples'[k] = Absent
    BY Zenon, <2>1
  <2>6. HealthTyped'
    BY Zenon, <2>1, <2>4, <2>5 DEF HealthInv, HealthTyped
  <2>7. NeverStale'
    BY Zenon, <2>1 DEF HealthInv, NeverStale
  <2> QED BY <2>2, <2>6, <2>7 DEF HealthInv
<1>3. ASSUME NEW now1 \in Nat, now' = now1, UNCHANGED <<samples, daily, uploads, demand, askers, acked, leftDays>>
      PROVE  HealthInv'
  <2>1. HealthTyped'
    BY Zenon, <1>3 DEF HealthInv, HealthTyped, Filed
  <2>2. samples' = samples /\ daily' = daily /\ leftDays' = leftDays /\ acked' = acked /\ askers' = askers
    BY <1>3
  <2>3. RollupsMatch /\ AcknowledgedStored /\ NeverStale
    BY DEF HealthInv
  <2>4. RollupsMatch'
    BY ONLY ZenonT(60), <2>2, <2>3 DEF RollupsMatch, Rollup, FiledUnder
  <2>5. AcknowledgedStored' /\ NeverStale'
    BY ONLY <2>2, <2>3, Zenon DEF AcknowledgedStored, HeldSamples, NeverStale
  <2> QED BY <2>1, <2>4, <2>5 DEF HealthInv
<1>4. CASE PhoneReinstalled \/ PhoneRegisters
  <2>1. now \in Nat
    BY DEF HealthInv, HealthTyped
  <2> QED BY <1>3, <1>4, <2>1 DEF PhoneReinstalled, PhoneRegisters, NoUploads
<1>5. CASE ClockTicks
  <2>1. now + 1 \in Nat
    BY DEF HealthInv, HealthTyped
  <2> QED BY <1>3, <1>5, <2>1 DEF ClockTicks
<1>6. ASSUME NEW u \in Uploads, SendBatch(u) \/ WriteBatch(u) \/ RetryBatch(u) \/ WriteRetried(u) \/ UploadOver(u)
      PROVE  HealthInv'
  BY <1>6, UploadsKeep
<1>7. ASSUME NEW a \in Askers,
             AskHealth(a) \/ PassesGate(a) \/ RefusesAtOnce(a) \/ DemandsSync(a) \/ SyncServed(a) \/ SyncTimesOut(a)
      PROVE  HealthInv'
  BY <1>7, AskersKeep
<1> QED BY <1>1, <1>2, <1>4, <1>5, <1>6, <1>7 DEF HealthNext

LEMMA HealthStarts ==
  ASSUME HealthInit
  PROVE  HealthInv
<1>1. RollupsMatch /\ AcknowledgedStored
  BY EmptyTables DEF HealthInit
<1>2. NoUpload \in Upload /\ NoQuestion \in Question /\ NoQuestion.stage = "idle" /\ NoQuestion.answer = "none"
  BY DEF NoUpload, NoQuestion, Upload, Question
<1>3. samples = [k \in SampleKeys |-> samples[k]] /\ \A k \in SampleKeys : samples[k] = Absent
  BY Zenon DEF HealthInit
<1>4. daily = [d \in LocalDays \X Metrics |-> daily[d]]
  BY Zenon DEF HealthInit
<1>5. uploads \in [Uploads -> Upload] /\ demand \in [raised : Nat, served : BOOLEAN] /\ now \in Nat /\ acked \subseteq SampleKeys
  BY <1>2 DEF HealthInit
<1>6. /\ askers \in [Askers -> Question] /\ \A a \in Askers : askers[a].stage = "idle"
      /\ \A a \in Askers : askers[a].answer # "numbers"
  BY <1>2 DEF HealthInit
<1>7. HealthTyped
  BY <1>3, <1>4, <1>5, <1>6 DEF HealthTyped
<1>8. NeverStale
  BY <1>6 DEF NeverStale
<1> QED BY <1>1, <1>7, <1>8 DEF HealthInv

\* The ranges compared are days in a row, so no day is in both.
LEMMA TrendsHold ==
  ASSUME HealthTyped
  PROVE  TrendsCompare
<1> SUFFICES ASSUME NEW spec \in [kind : {"today", "yesterday", "days"}, n : 0 .. 3], NEW today0 \in LocalDays
             PROVE  LET range == ParseRange(spec, today0)
                        before == WindowBefore(range)
                    IN /\ before[2] + 1 = range[1] /\ before[2] - before[1] = range[2] - range[1]
                       /\ \A x \in Metrics : HasTrend(range, x) => RollupsIn(range, x) \cap RollupsIn(before, x) = {}
  BY Zenon DEF TrendsCompare
<1>1. today0 \in Nat /\ spec.n \in 0 .. 3 /\ spec.kind \in {"today", "yesterday", "days"}
  BY HealthAssumption
<1>2. Max({1, spec.n}) \in {1, spec.n}
  <2>1. PICK n \in Int : n = spec.n
    BY <1>1
  <2>2. IsFiniteSet({1, n})
    <3>1. IsFiniteSet({1}) /\ IsFiniteSet({n})
      BY FS_Singleton
    <3>2. IsFiniteSet({1} \cup {n})
      BY Zenon, <3>1, FS_Union
    <3>3. {1} \cup {n} = {1, n}
      BY Zenon
    <3> QED BY Zenon, <3>2, <3>3
  <2>3. {1, n} \subseteq Int /\ {1, n} # {}
    OBVIOUS
  <2>4. Max({1, n}) \in {1, n}
    BY <2>2, <2>3, GreatestOne
  <2> QED BY Zenon, <2>1, <2>4
<1>3. PICK from \in Int, to \in Int : ParseRange(spec, today0) = <<from, to>>
  <2>1. PICK m \in Int : m = Max({1, spec.n})
    BY <1>1, <1>2
  <2>2. today0 \in Int /\ today0 - 1 \in Int /\ today0 - (m - 1) \in Int
    BY <1>1
  <2>3. CASE spec.kind = "today"
    BY <2>2, <2>3 DEF ParseRange
  <2>4. CASE spec.kind = "yesterday"
    BY <2>2, <2>4 DEF ParseRange
  <2>5. CASE spec.kind = "days"
    BY <2>1, <2>2, <2>5 DEF ParseRange
  <2> QED BY <1>1, <2>3, <2>4, <2>5
<1>4. PICK first \in Int : WindowBefore(<<from, to>>) = <<first, from - 1>> /\ first = from - (to - from + 1)
  BY DEF WindowBefore
<1>5. ASSUME NEW x \in Metrics PROVE RollupsIn(<<from, to>>, x) \cap RollupsIn(<<first, from - 1>>, x) = {}
  <2>1. \A i : ~(i \in from .. to /\ i \in first .. (from - 1))
    OBVIOUS
  <2> QED BY <2>1 DEF RollupsIn
<1> QED BY <1>3, <1>4, <1>5

\* Readings are kept, added up and told as they are: the shape of it, for any
\* batches, requests and turns (services/health.py ingest_samples, recompute_daily;
\* skills/health.py _freshness_gate).
THEOREM HealthShape == HealthSpec => []HealthInv
<1>1. HealthInit => HealthInv
  BY HealthStarts
<1>2. HealthInv /\ [HealthNext]_healthVars => HealthInv'
  BY HealthStep
<1> QED BY <1>1, <1>2, PTL DEF HealthSpec

\* The library and the readings of the phone can be relied on, at every moment.
THEOREM MirrorsHold == LibrarySpec /\ HealthSpec => []MirrorsSound
<1>1. HealthInv => HealthSound
  BY TrendsHold DEF HealthInv, HealthSound
<1>2. LibrarySound /\ HealthSound => MirrorsSound
  BY DEF MirrorsSound
<1> QED BY <1>1, <1>2, HealthShape, LibraryHolds, PTL

-----------------------------------------------------------------------------
(* Accounts.  The code of a ticket is consumed before it is exchanged; only *)
(* the holder of the token's lock refreshes, and nothing replaces or drops  *)
(* a credential while it does; a call of an epoch that is over is refused.  *)

Credential == [login : Nat, rotation : Nat, config : Nat]
WaitingCall == [pc : {"admitted", "refused"}, tool : CallTools, epoch : Nat, account : Nat]
RefreshingCall == [pc : {"refreshing", "refused"}, tool : CallTools, epoch : Nat, account : Nat, used : Credential]
SentCall == [pc : {"sending", "ok", "unknown", "refused"}, tool : CallTools, step : Nat, wrote : Nat,
             account : Nat, token : Nat, replacing : BOOLEAN]
Linking == [pc : {"exchanging", "exchanged", "storing", "connecting"}, ticket : 1 .. signIns, config : Nat]

LinkTyped ==
  /\ config \in Nat /\ signIns \in 0 .. MaxSignIns /\ linked \in Nat
  /\ attempt \in {None} \cup [ticket : 1 .. signIns, browser : BOOLEAN, config : Nat]
  /\ credential \in Credential /\ cached \in [login : Nat, fresh : BOOLEAN, failed : BOOLEAN]
  /\ linking \in {Still} \cup Linking
  /\ leaving \in [pc : {"idle", "forgetting", "clearing", "dropping"}]
  /\ client \in [connected : BOOLEAN, epoch : Nat]
  /\ calls \in [AccountCalls -> {Still} \cup WaitingCall \cup RefreshingCall \cup SentCall]
  /\ exchanged \in [1 .. MaxSignIns -> Nat]

\* A ticket whose code was exchanged can be presented no more.
TicketsSpent ==
  /\ \A t \in 1 .. MaxSignIns :
       /\ exchanged[t] <= 1
       /\ exchanged[t] = 1 => t <= signIns /\ attempt.ticket # t /\ ~(linking.pc = "exchanging" /\ linking.ticket = t)
  /\ linking.pc = "exchanging" => attempt.ticket # linking.ticket

\* The lock on the link and the lock on the token keep the account in one hand.
LocksHeld ==
  /\ \A c \in AccountCalls : calls[c].pc = "refreshing" => tokenHolder = c /\ calls[c].used.login = linked
  /\ leaving.pc # "idle" => linking.pc = "idle"
  /\ leaving.pc = "dropping" => /\ credential = NoCredential /\ ~cached.fresh
                                /\ \A c \in AccountCalls : calls[c].pc # "refreshing"

\* A call that is still admitted was admitted under the account of now, unless the
\* client is about to be replaced.
AdmittedUnder ==
  \A c \in AccountCalls :
    calls[c].pc \in {"admitted", "refreshing"} =>
      /\ calls[c].epoch <= client.epoch
      /\ calls[c].epoch = client.epoch =>
           calls[c].account = linked \/ linking.pc = "connecting" \/ leaving.pc = "dropping"

\* What a call wrote are the writes among the requests it has behind it.
WritesBefore(tool, n) == {i \in DOMAIN RequestsOf(tool) : i < n /\ RequestsOf(tool)[i] = "write"}
WritesCounted(call) ==
  /\ call.pc = "sending" => /\ call.step \in 1 .. Len(RequestsOf(call.tool)) + 1
                            /\ call.wrote = Cardinality(WritesBefore(call.tool, call.step))
  /\ call.pc = "refused" => call.wrote = 0
  /\ call.pc = "ok" => call.wrote = Writes(call.tool)
  /\ call.tool \in READ_ONLY_TOOLS => call.wrote = 0
CallsCounted == \A c \in AccountCalls : calls[c] \in SentCall => WritesCounted(calls[c])

LinkInv ==
  LinkTyped /\ TicketsSpent /\ LocksHeld /\ AdmittedUnder /\ CallsCounted /\ AccountIsLinked /\ CallsKeepAccount

\* Rules do not overlap, and a rule that counts comes after all others.
Apart(rules) ==
  \A r, q \in rules : r # q =>
    /\ \A x \in OccursAt(r) : x \notin OccursAt(q)
    /\ r.count # 0 => \A x \in OccursAt(q) : x < r.first

Parted(rules, parent, k) == (rules \ {parent}) \cup {ApplyUntil(parent, UntilBefore(k))}
Split == [pc : {"read", "trimmed", "done", "unknown"}, kind : {"update", "delete"}, parent : Rules, at : Nat,
          before : SUBSET Rules]

\* While a split is under way the series is what it read, trimmed, or trimmed and
\* followed by its tail.
SplitUnderWay(s) ==
  LET parted == Parted(s.before, s.parent, s.at)
      both == parted \cup {TailOf(s.parent, s.at)}
  IN /\ s \in Split /\ s.parent \in s.before /\ s.at \in OccursAt(s.parent) /\ Apart(s.before)
     /\ s.pc = "read" => series = s.before
     /\ s.pc = "trimmed" => series = parted /\ s.kind = "update"
     /\ s.pc = "done" => series = IF s.kind = "update" THEN both ELSE parted
     /\ s.pc = "unknown" => series \in {s.before, parted, both}

SplitInv ==
  /\ series \in SUBSET Rules /\ Apart(series)
  /\ splitting = Still \/ SplitUnderWay(splitting)

\* The smaller of two numbers.
LEMMA SmallerOfTwo ==
  ASSUME NEW a \in Int, NEW b \in Int
  PROVE  Min({a, b}) = IF a <= b THEN a ELSE b
<1> DEFINE m == IF a <= b THEN a ELSE b
<1>1. m \in {a, b} /\ \A y \in {a, b} : m <= y
  OBVIOUS
<1>2. \A x : x \in {a, b} /\ (\A y \in {a, b} : x <= y) => x = m
  BY <1>1
<1> QED BY <1>1, <1>2 DEF Min

\* The occurrences of a rule.
LEMMA OccurrencesOf ==
  ASSUME NEW r \in Rules
  PROVE  /\ r.count = 0 => OccursAt(r) = r.first .. r.until
         /\ r.count # 0 => OccursAt(r) = {x \in r.first .. Horizon : x < r.first + r.count}
         /\ OccursAt(r) \subseteq r.first .. Horizon
         /\ r.first \in 1 .. Horizon /\ r.until \in 0 .. Horizon /\ r.count \in 0 .. Horizon
         /\ r.settings \in {"old", "new"}
<1>1. /\ r.first \in 1 .. Horizon /\ r.until \in 0 .. Horizon /\ r.count \in 0 .. Horizon
      /\ r.settings \in {"old", "new"} /\ Horizon \in Nat
  BY AccountsAssumption DEF Rules
<1>2. CASE r.count = 0
  BY <1>1, <1>2 DEF OccursAt
<1>3. CASE r.count # 0
  <2>1. OccursAt(r) = r.first .. Min({Horizon, r.first + r.count - 1})
    BY <1>3 DEF OccursAt
  <2>2. Min({Horizon, r.first + r.count - 1}) =
          IF Horizon <= r.first + r.count - 1 THEN Horizon ELSE r.first + r.count - 1
    BY <1>1, SmallerOfTwo
  <2> DEFINE m == IF Horizon <= r.first + r.count - 1 THEN Horizon ELSE r.first + r.count - 1
  <2>3. \A x : x \in r.first .. m <=> x \in r.first .. Horizon /\ x < r.first + r.count
    BY <1>1
  <2>4. OccursAt(r) = r.first .. m
    BY <2>1, <2>2
  <2> HIDE DEF m
  <2>5. OccursAt(r) = {x \in r.first .. Horizon : x < r.first + r.count}
    BY <2>3, <2>4
  <2> QED BY <1>1, <1>3, <2>5
<1> QED BY <1>1, <1>2, <1>3

\* What a trim leaves of the parent, and where the tail goes on.
LEMMA TrimAndTail ==
  ASSUME NEW p \in Rules, NEW k \in OccursAt(p)
  PROVE  /\ ApplyUntil(p, UntilBefore(k)) \in Rules /\ TailOf(p, k) \in Rules
         /\ OccursAt(ApplyUntil(p, UntilBefore(k))) = {x \in OccursAt(p) : x < k}
         /\ {x \in OccursAt(p) : x >= k} \subseteq OccursAt(TailOf(p, k))
         /\ p.count = 0 => OccursAt(TailOf(p, k)) = {x \in OccursAt(p) : x >= k}
         /\ \A x \in OccursAt(TailOf(p, k)) : x >= k
         /\ ApplyUntil(p, UntilBefore(k)).settings = p.settings /\ ApplyUntil(p, UntilBefore(k)).count = 0
         /\ TailOf(p, k).settings = "new" /\ TailOf(p, k).count = p.count /\ TailOf(p, k).first = k
         /\ k \in p.first .. Horizon
<1> DEFINE trim == [first |-> p.first, until |-> k - 1, count |-> 0, settings |-> p.settings]
           tail == [first |-> k, until |-> p.until, count |-> p.count, settings |-> "new"]
<1>1. k \in p.first .. Horizon /\ p.first \in 1 .. Horizon /\ Horizon \in Nat
  BY OccurrencesOf, AccountsAssumption
<1>3. trim \in Rules /\ tail \in Rules
  BY <1>1, OccurrencesOf DEF Rules
<1>4. ApplyUntil(p, UntilBefore(k)) = trim /\ TailOf(p, k) = tail
  BY DEF ApplyUntil, UntilBefore, TailOf
<1>5. /\ OccursAt(trim) = p.first .. k - 1
      /\ tail.count = 0 => OccursAt(tail) = k .. p.until
      /\ tail.count # 0 => OccursAt(tail) = {x \in k .. Horizon : x < k + p.count}
  <2>1. /\ trim.count = 0 => OccursAt(trim) = trim.first .. trim.until
        /\ tail.count = 0 => OccursAt(tail) = tail.first .. tail.until
        /\ tail.count # 0 => OccursAt(tail) = {x \in tail.first .. Horizon : x < tail.first + tail.count}
    BY <1>3, OccurrencesOf
  <2> QED BY <2>1
<1>6. /\ p.count = 0 => OccursAt(p) = p.first .. p.until
      /\ p.count # 0 => OccursAt(p) = {x \in p.first .. Horizon : x < p.first + p.count}
      /\ p.count \in Nat /\ p.until \in Nat
  BY OccurrencesOf
<1>7. CASE p.count = 0
  BY <1>1, <1>3, <1>4, <1>5, <1>6, <1>7
<1>8. CASE p.count # 0
  BY SMTT(60), <1>1, <1>3, <1>4, <1>5, <1>6, <1>8
<1> QED BY <1>7, <1>8

\* Cutting a rule off keeps the rules apart.
LEMMA TrimApart ==
  ASSUME NEW rules \in SUBSET Rules, Apart(rules), NEW p \in rules, NEW k \in OccursAt(p)
  PROVE  Parted(rules, p, k) \in SUBSET Rules /\ Apart(Parted(rules, p, k))
<1> DEFINE trim == ApplyUntil(p, UntilBefore(k))
<1>1. trim \in Rules /\ OccursAt(trim) = {x \in OccursAt(p) : x < k} /\ trim.count = 0
  BY TrimAndTail
<1>2. Parted(rules, p, k) = (rules \ {p}) \cup {trim}
  BY DEF Parted
<1> HIDE DEF trim
<1>3. Apart((rules \ {p}) \cup {trim})
  BY <1>1 DEF Apart
<1> QED BY <1>1, <1>2, <1>3

\* So does adding the tail, which is the last rule if it counts.
LEMMA TailApart ==
  ASSUME NEW rules \in SUBSET Rules, Apart(rules), NEW p \in rules, NEW k \in OccursAt(p)
  PROVE  LET both == Parted(rules, p, k) \cup {TailOf(p, k)}
         IN  both \in SUBSET Rules /\ Apart(both)
<1> DEFINE tail == TailOf(p, k)
           parted == Parted(rules, p, k)
<1>1. /\ tail \in Rules /\ tail.count = p.count /\ tail.first = k
      /\ p.count = 0 => OccursAt(tail) = {x \in OccursAt(p) : x >= k}
      /\ \A x \in OccursAt(tail) : x >= k
      /\ k \in p.first .. Horizon
  BY TrimAndTail
<1>2. parted \in SUBSET Rules /\ Apart(parted)
  BY TrimApart
<1>3. \A q \in Rules : OccursAt(q) \subseteq Nat /\ q.first \in Nat /\ p.first \in Nat /\ k \in Nat
  BY <1>1, OccurrencesOf
<1>4. ASSUME NEW q \in parted, q # tail
      PROVE  /\ \A x \in OccursAt(tail) : x \notin OccursAt(q)
             /\ tail.count # 0 => \A x \in OccursAt(q) : x < tail.first
             /\ q.count # 0 => \A x \in OccursAt(tail) : x < q.first
  <2>1. CASE q = ApplyUntil(p, UntilBefore(k))
    <3>1. OccursAt(q) = {x \in OccursAt(p) : x < k} /\ q.count = 0
      BY <2>1, TrimAndTail
    <3> QED BY <1>1, <1>3, <3>1
  <2>2. CASE q \in rules \ {p}
    <3>1. /\ \A x \in OccursAt(q) : x \notin OccursAt(p)
          /\ p.count # 0 => \A x \in OccursAt(q) : x < p.first
          /\ q.count # 0 => \A x \in OccursAt(p) : x < q.first
      BY <2>2 DEF Apart
    <3>2. CASE p.count = 0
      BY <1>1, <1>3, <3>1, <3>2
    <3>3. CASE p.count # 0
      <4>1. q.count = 0
        <5>1. SUFFICES ASSUME q.count # 0 PROVE FALSE
          OBVIOUS
        <5>2. q.first \in OccursAt(q)
          <6>1. OccursAt(q) = {x \in q.first .. Horizon : x < q.first + q.count} /\ q.first \in 1 .. Horizon
                /\ q.count \in 0 .. Horizon
            BY <2>2, <5>1, OccurrencesOf
          <6> QED BY <5>1, <6>1, AccountsAssumption
        <5>3. q.first < p.first
          BY <3>1, <3>3, <5>2
        <5>4. k < q.first
          BY <3>1, <5>1
        <5>5. p.first <= k
          BY <1>1, <1>3
        <5> QED BY <1>3, <2>2, <5>3, <5>4, <5>5
      <4> QED BY <1>1, <1>3, <2>2, <3>1, <3>3, <4>1
    <3> QED BY <3>2, <3>3
  <2> QED BY <2>1, <2>2 DEF Parted
<1> HIDE DEF tail, parted
<1>5. Apart(parted \cup {tail})
  BY <1>2, <1>4 DEF Apart
<1> QED BY <1>1, <1>2, <1>5 DEF tail, parted

\* Every change of this occurrence and the following ones is one of the three.
LEMMA SplitFollows ==
  ASSUME SplitInv, [AccountsNext]_accountVars
  PROVE  SplitInv'
<1>1. CASE UNCHANGED calendarVars
  BY <1>1 DEF SplitInv, SplitUnderWay, calendarVars
<1>2. ASSUME NEW parent \in series, NEW k \in 1 .. Horizon, NEW kind \in {"update", "delete"},
             SplitReads(parent, k, kind)
      PROVE  SplitInv'
  <2>1. /\ series' = series /\ k \in OccursAt(parent)
        /\ splitting' = [pc |-> "read", kind |-> kind, parent |-> parent, at |-> k, before |-> series]
    BY <1>2 DEF SplitReads, SplitStep
  <2>2. series \in SUBSET Rules /\ Apart(series)
    BY DEF SplitInv
  <2>3. splitting' \in Split
    BY <2>1, <2>2, AccountsAssumption DEF Split
  <2>4. SplitUnderWay(splitting)'
    BY <2>1, <2>2, <2>3 DEF SplitUnderWay
  <2> QED BY <2>1, <2>2, <2>4 DEF SplitInv
<1>3. ASSUME splitting.pc # "idle"
      PROVE  /\ SplitUnderWay(splitting) /\ splitting \in Split
             /\ LET parted == Parted(splitting.before, splitting.parent, splitting.at)
                    both == parted \cup {TailOf(splitting.parent, splitting.at)}
                IN \A rules \in {splitting.before, parted, both} : rules \in SUBSET Rules /\ Apart(rules)
  <2>1. SplitUnderWay(splitting)
    BY <1>3 DEF SplitInv, Still
  <2>2. /\ splitting \in Split /\ splitting.before \in SUBSET Rules /\ Apart(splitting.before)
        /\ splitting.parent \in splitting.before /\ splitting.at \in OccursAt(splitting.parent)
    BY <2>1 DEF SplitUnderWay, Split
  <2> QED BY <2>1, <2>2, TrimApart, TailApart
<1>4. ASSUME NEW landed \in BOOLEAN, NEW answered \in BOOLEAN, SplitTrims(landed, answered)
      PROVE  SplitInv'
  <2> DEFINE s == splitting
             parted == Parted(s.before, s.parent, s.at)
             to == IF ~answered THEN "unknown" ELSE IF s.kind = "update" THEN "trimmed" ELSE "done"
  <2>1. /\ s.pc = "read" /\ (answered => landed)
        /\ splitting' = [s EXCEPT !.pc = to]
        /\ series' = IF landed THEN (series \ {s.parent}) \cup {ApplyUntil(s.parent, UntilBefore(s.at))} ELSE series
    BY <1>4 DEF SplitTrims, SplitStep
  <2>2. series = s.before /\ SplitUnderWay(s) /\ s \in Split
    BY <1>3, <2>1 DEF SplitUnderWay
  <2>3. series' = (IF landed THEN parted ELSE s.before) /\ parted \in SUBSET Rules /\ Apart(parted)
    BY <1>3, <2>1, <2>2 DEF Parted
  <2>4. /\ splitting' \in Split /\ splitting'.pc = to /\ splitting'.kind = s.kind /\ splitting'.parent = s.parent
        /\ splitting'.at = s.at /\ splitting'.before = s.before
    BY <2>1, <2>2 DEF Split
  <2>5. series' \in SUBSET Rules /\ Apart(series')
    BY <1>3, <2>1, <2>3
  <2>6. s.kind \in {"update", "delete"}
    BY <2>2 DEF Split
  <2>7. SplitUnderWay(splitting)'
    BY <2>1, <2>2, <2>3, <2>4, <2>6 DEF SplitUnderWay
  <2> QED BY <2>5, <2>7 DEF SplitInv
<1>5. ASSUME NEW landed \in BOOLEAN, NEW answered \in BOOLEAN, SplitCreates(landed, answered)
      PROVE  SplitInv'
  <2> DEFINE s == splitting
             parted == Parted(s.before, s.parent, s.at)
             both == parted \cup {TailOf(s.parent, s.at)}
             to == IF answered THEN "done" ELSE "unknown"
  <2>1. /\ s.pc = "trimmed" /\ (answered => landed)
        /\ splitting' = [s EXCEPT !.pc = to]
        /\ series' = IF landed THEN series \cup {TailOf(s.parent, s.at)} ELSE series
    BY <1>5 DEF SplitCreates, SplitStep
  <2>2. series = parted /\ s.kind = "update" /\ SplitUnderWay(s) /\ s \in Split
    BY <1>3, <2>1 DEF SplitUnderWay
  <2>3. series' = IF landed THEN both ELSE parted
    BY <2>1, <2>2
  <2>4. /\ splitting' \in Split /\ splitting'.pc = to /\ splitting'.kind = s.kind /\ splitting'.parent = s.parent
        /\ splitting'.at = s.at /\ splitting'.before = s.before
    BY <2>1, <2>2 DEF Split
  <2>5. series' \in SUBSET Rules /\ Apart(series')
    BY <1>3, <2>1, <2>3
  <2>7. SplitUnderWay(splitting)'
    BY <2>1, <2>2, <2>3, <2>4 DEF SplitUnderWay
  <2> QED BY <2>5, <2>7 DEF SplitInv
<1> QED BY ZenonT(60), <1>1, <1>2, <1>4, <1>5 DEF AccountsNext, accountVars, calendarVars, SignIn, StartSignIn, AttemptExpires,
      CallbackRotates, CallbackStores, CallbackBegins, CallbackExchanges, CallbackConnects, DisconnectBegins,
      DisconnectForgets, DisconnectClears, DisconnectDrops, Toggle, AccountsRestart, AccessExpires, BackoffOver,
      CallAdmitted, CallTakesToken, CallRefreshFails, CallReturns, CallRead, CallRefreshed, CallChecks, CallRequest,
      Sending

\* An occurrence of the rules with these settings.
LEMMA OccurrenceIn ==
  ASSUME NEW rules \in SUBSET Rules, NEW s \in {"old", "new"}, NEW x
  PROVE  x \in Occurrences(rules)[s] <=> \E r \in rules : r.settings = s /\ x \in OccursAt(r)
BY DEF Occurrences

\* What a split leaves is what SplitKeeps asks of it.
LEMMA SplitHolds ==
  ASSUME SplitInv
  PROVE  SplitKeeps
<1> SUFFICES ASSUME splitting.pc # "idle" PROVE SplitKeeps
  BY DEF SplitKeeps
<1> DEFINE b == splitting.before
           p == splitting.parent
           k == splitting.at
           trim == ApplyUntil(p, UntilBefore(k))
           tail == TailOf(p, k)
           parted == (b \ {p}) \cup {trim}
           both == parted \cup {tail}
           later == OccursAt(p) \cap (k .. Horizon)
           all(rules) == UNION {OccursAt(r) : r \in rules}
<1>1. /\ b \in SUBSET Rules /\ p \in b /\ k \in OccursAt(p) /\ Apart(b)
      /\ splitting.pc \in {"read", "trimmed", "done", "unknown"} /\ splitting.kind \in {"update", "delete"}
      /\ splitting.pc = "done" => series = IF splitting.kind = "update" THEN both ELSE parted
      /\ series \in {b, parted, both}
  BY DEF SplitInv, SplitUnderWay, Still, Split, Parted
<1>2. /\ trim \in Rules /\ tail \in Rules /\ trim.settings = p.settings /\ tail.settings = "new"
      /\ OccursAt(trim) = {x \in OccursAt(p) : x < k}
      /\ {x \in OccursAt(p) : x >= k} \subseteq OccursAt(tail)
      /\ p.count = 0 => OccursAt(tail) = {x \in OccursAt(p) : x >= k}
      /\ \A x \in OccursAt(tail) : x >= k
      /\ k \in Nat
  BY <1>1, TrimAndTail, OccurrencesOf
<1>3. /\ OccursAt(p) \subseteq 1 .. Horizon /\ Horizon \in Nat
      /\ later = {x \in OccursAt(p) : x >= k}
  BY <1>1, <1>2, OccurrencesOf, AccountsAssumption
<1>4. /\ \A q \in b \ {p} : \A x \in OccursAt(q) : x \notin OccursAt(p)
  BY <1>1 DEF Apart
<1> HIDE DEF b, p, k, trim, tail, later
<1>5. ASSUME NEW s \in {"old", "new"}, NEW x \in 1 .. k - 1
      PROVE  x \in Occurrences(series)[s] <=> x \in Occurrences(b)[s]
  <2>1. (\E r \in parted : r.settings = s /\ x \in OccursAt(r)) <=> \E r \in b : r.settings = s /\ x \in OccursAt(r)
    BY <1>1, <1>2
  <2>2. x \notin OccursAt(tail)
    BY <1>2
  <2>3. series \in SUBSET Rules
    BY <1>1, <1>2
  <2>4. (\E r \in series : r.settings = s /\ x \in OccursAt(r)) <=> \E r \in b : r.settings = s /\ x \in OccursAt(r)
    BY <1>1, <2>1, <2>2
  <2> QED BY <1>1, <2>3, <2>4, OccurrenceIn
<1>6. \A s \in {"old", "new"} : Occurrences(series)[s] \cap (1 .. k - 1) = Occurrences(b)[s] \cap (1 .. k - 1)
  BY <1>5
<1>7. ASSUME splitting.pc = "done", splitting.kind = "update"
      PROVE  later \subseteq Occurrences(series)["new"]
  <2>1. series = both /\ both \in SUBSET Rules
    BY <1>1, <1>2, <1>7
  <2>2. \A x \in later : \E r \in both : r.settings = "new" /\ x \in OccursAt(r)
    BY <1>2, <1>3
  <2> QED BY <2>1, <2>2, OccurrenceIn
<1>8. ASSUME splitting.pc = "done", p.count = 0
      PROVE  all(series) = IF splitting.kind = "update" THEN all(b) ELSE all(b) \ later
  <2>1. CASE splitting.kind = "update"
    <3>1. \A x : (\E r \in both : x \in OccursAt(r)) <=> \E r \in b : x \in OccursAt(r)
      <4>1. \A x : x \in OccursAt(p) <=> x \in OccursAt(trim) \/ x \in OccursAt(tail)
        BY <1>2, <1>3, <1>8
      <4> QED BY <1>1, <4>1
    <3> QED BY <1>1, <1>8, <2>1, <3>1
  <2>2. CASE splitting.kind = "delete"
    <3>1. \A x : (\E r \in parted : x \in OccursAt(r)) <=> (\E r \in b : x \in OccursAt(r)) /\ x \notin later
      <4>1. \A x : x \in OccursAt(trim) <=> x \in OccursAt(p) /\ x \notin later
        BY <1>2, <1>3
      <4>2. \A q \in b \ {p} : \A x \in OccursAt(q) : x \notin later
        BY <1>3, <1>4
      <4> QED BY <1>1, <4>1, <4>2
    <3> QED BY <1>1, <1>8, <2>2, <3>1
  <2> QED BY <1>1, <2>1, <2>2
<1>9. (~ \E r \in b : r.count # 0) => p.count = 0
  BY <1>1
<1> QED BY <1>6, <1>7, <1>8, <1>9 DEF SplitKeeps, b, p, k, later

\* What is true of each tool: what it sends is of the four kinds, it refuses only
\* before it writes, and one that needs no receipt does not write.
Honest(tool, requests) ==
  /\ requests \in Seq({"read", "try", "write", "refuse"})
  /\ \A i, j \in DOMAIN requests : requests[i] = "write" /\ i < j => requests[j] # "refuse"
  /\ tool \in READ_ONLY_TOOLS => \A i \in DOMAIN requests : requests[i] # "write"

LEMMA ListsHonest ==
  ASSUME NEW tool
  PROVE  /\ Honest(tool, <<"read">>) /\ Honest(tool, <<"read", "try">>) /\ Honest(tool, <<"read", "read">>)
         /\ tool \notin READ_ONLY_TOOLS =>
              /\ Honest(tool, <<"write">>) /\ Honest(tool, <<"refuse", "write">>) /\ Honest(tool, <<"read", "write">>)
              /\ Honest(tool, <<"refuse", "read", "write">>) /\ Honest(tool, <<"read", "try", "refuse", "write">>)
              /\ Honest(tool, <<"read", "refuse", "read", "refuse", "write">>)
              /\ Honest(tool, <<"refuse", "read", "refuse", "read", "refuse", "write", "write">>)
BY DEF Honest

LEMMA CatalogueHonest ==
  ASSUME NEW listed \in Catalogues, NEW tool \in DOMAIN listed
  PROVE  Honest(tool, listed[tool])
<1>1. \A t \in DOMAIN GmailRequests : Honest(t, GmailRequests[t])
  BY ListsHonest DEF GmailRequests, READ_ONLY_TOOLS
<1>2. \A t \in DOMAIN CalendarReads : Honest(t, CalendarReads[t])
  BY ListsHonest DEF CalendarReads, READ_ONLY_TOOLS
<1>3. \A t \in DOMAIN CalendarChanges : Honest(t, CalendarChanges[t])
  BY SMTT(60), ListsHonest DEF CalendarChanges, READ_ONLY_TOOLS
<1>4. \A t \in DOMAIN TasksRequests : Honest(t, TasksRequests[t])
  BY SMTT(60), ListsHonest DEF TasksRequests, READ_ONLY_TOOLS
<1>5. \A t \in DOMAIN DriveRequests : Honest(t, DriveRequests[t])
  BY ListsHonest DEF DriveRequests, READ_ONLY_TOOLS
<1>6. \A t \in DOMAIN PeopleRequests : Honest(t, PeopleRequests[t])
  BY ListsHonest DEF PeopleRequests, READ_ONLY_TOOLS
<1>7. \A t \in DOMAIN OutlookRequests : Honest(t, OutlookRequests[t])
  BY SMTT(60), ListsHonest DEF OutlookRequests, READ_ONLY_TOOLS
<1> QED BY <1>1, <1>2, <1>3, <1>4, <1>5, <1>6, <1>7 DEF Catalogues

LEMMA ToolsHonest ==
  ASSUME NEW tool \in CallTools
  PROVE  Honest(tool, RequestsOf(tool))
<1>1. PICK listed \in Catalogues : tool \in DOMAIN listed
  BY ToolsAssumption DEF Tools
<1> DEFINE chosen == CHOOSE other \in Catalogues : tool \in DOMAIN other
<1>2. chosen \in Catalogues /\ tool \in DOMAIN chosen
  BY <1>1
<1>3. Honest(tool, chosen[tool])
  BY <1>2, CatalogueHonest
<1> QED BY <1>3 DEF RequestsOf

\* Counting what a call has written, request by request.
LEMMA WritesAdvance ==
  ASSUME NEW tool \in CallTools
  PROVE  LET requests == RequestsOf(tool) IN
         /\ Len(requests) \in Nat /\ Cardinality(WritesBefore(tool, 1)) = 0
         /\ \A n \in 1 .. Len(requests) :
              /\ requests[n] # "write" => Cardinality(WritesBefore(tool, n + 1)) = Cardinality(WritesBefore(tool, n))
              /\ requests[n] = "write" => /\ Cardinality(WritesBefore(tool, n + 1)) = Cardinality(WritesBefore(tool, n)) + 1
                                          /\ tool \notin READ_ONLY_TOOLS
              /\ requests[n] = "refuse" => Cardinality(WritesBefore(tool, n)) = 0
              /\ Cardinality(WritesBefore(tool, n)) \in Nat
         /\ Cardinality(WritesBefore(tool, Len(requests) + 1)) = Writes(tool)
<1> DEFINE requests == RequestsOf(tool)
<1>1. /\ requests \in Seq({"read", "try", "write", "refuse"}) /\ DOMAIN requests = 1 .. Len(requests)
      /\ Len(requests) \in Nat
      /\ \A i, j \in DOMAIN requests : requests[i] = "write" /\ i < j => requests[j] # "refuse"
      /\ tool \in READ_ONLY_TOOLS => \A i \in DOMAIN requests : requests[i] # "write"
  BY ToolsHonest DEF Honest
<1>2. \A n : WritesBefore(tool, n) = {i \in DOMAIN requests : i < n /\ requests[i] = "write"}
  BY DEF WritesBefore
<1>3. Writes(tool) = Cardinality({i \in DOMAIN requests : requests[i] = "write"})
  BY DEF Writes
<1> HIDE DEF requests
<1>4. \A n : WritesBefore(tool, n) \subseteq 1 .. Len(requests)
  BY <1>1, <1>2
<1>5. \A n : IsFiniteSet(WritesBefore(tool, n))
  <2>1. IsFiniteSet(1 .. Len(requests))
    BY <1>1, FS_Interval
  <2> QED BY <1>4, <2>1, FS_Subset
<1>6. WritesBefore(tool, 1) = {}
  BY <1>1, <1>2
<1>7. ASSUME NEW n \in 1 .. Len(requests)
      PROVE  /\ requests[n] # "write" => WritesBefore(tool, n + 1) = WritesBefore(tool, n)
             /\ requests[n] = "write" => /\ WritesBefore(tool, n + 1) = WritesBefore(tool, n) \cup {n}
                                         /\ n \notin WritesBefore(tool, n) /\ tool \notin READ_ONLY_TOOLS
             /\ requests[n] = "refuse" => WritesBefore(tool, n) = {}
  <2>1. \A i \in DOMAIN requests : i < n + 1 <=> i < n \/ i = n
    BY <1>1
  <2>2. n \in DOMAIN requests /\ ~(n < n)
    BY <1>1
  <2> QED BY ZenonT(60), <1>1, <1>2, <2>1, <2>2
<1>8. WritesBefore(tool, Len(requests) + 1) = {i \in DOMAIN requests : requests[i] = "write"}
  BY <1>1, <1>2
<1>9. \A n \in 1 .. Len(requests) :
        /\ requests[n] = "write" => Cardinality(WritesBefore(tool, n + 1)) = Cardinality(WritesBefore(tool, n)) + 1
        /\ Cardinality(WritesBefore(tool, n)) \in Nat
  BY <1>5, <1>7, FS_AddElement, FS_CardinalityType
<1> QED BY <1>1, <1>3, <1>6, <1>7, <1>8, <1>9, FS_EmptySet DEF requests

\* While the calls, the account and the client stay, so does what is known of them.
LEMMA CallsStand ==
  ASSUME LinkInv, UNCHANGED <<calls, linked, client, tokenHolder, credential>>,
         cached'.fresh => cached.fresh /\ cached'.login = cached.login,
         linking.pc = "connecting" => linking'.pc = "connecting",
         leaving'.pc = "dropping" <=> leaving.pc = "dropping",
         leaving'.pc # "idle" => linking'.pc = "idle"
  PROVE  LocksHeld' /\ AdmittedUnder' /\ CallsCounted' /\ AccountIsLinked' /\ CallsKeepAccount'
<1>1. LocksHeld' /\ AccountIsLinked'
  BY DEF LinkInv, LocksHeld, AccountIsLinked
<1>2. AdmittedUnder'
  BY DEF LinkInv, AdmittedUnder
<1>3. CallsCounted' /\ CallsKeepAccount'
  BY DEF LinkInv, CallsCounted, CallsKeepAccount
<1> QED BY <1>1, <1>2, <1>3

\* login(), start(), the attempt's expiry, the callback before it stores anything.
LEMMA SigningIn ==
  ASSUME LinkInv,
         \/ SignIn \/ StartSignIn \/ AttemptExpires \/ CallbackRotates
         \/ (\E t \in 1 .. MaxSignIns : CallbackBegins(t)) \/ \E yes \in BOOLEAN : CallbackExchanges(yes)
  PROVE  LinkInv'
<1>0. /\ attempt \in {None} \cup [ticket : 1 .. signIns, browser : BOOLEAN, config : Nat]
      /\ linking \in {Still} \cup Linking /\ signIns \in 0 .. MaxSignIns /\ config \in Nat /\ MaxSignIns \in Nat
      /\ exchanged \in [1 .. MaxSignIns -> Nat]
  BY AccountsAssumption DEF LinkInv, LinkTyped
<1>1. CASE SignIn
  <2>1. /\ signIns' = signIns + 1 /\ signIns < MaxSignIns
        /\ attempt' = [ticket |-> signIns + 1, browser |-> FALSE, config |-> config]
        /\ UNCHANGED <<config, credential, cached, linking, leaving, tokenHolder, client, calls, exchanged, linked>>
    BY <1>1 DEF SignIn
  <2>2. LinkTyped'
    BY <1>0, <2>1 DEF LinkInv, LinkTyped, Linking
  <2>3. TicketsSpent'
    BY <1>0, <2>1 DEF LinkInv, TicketsSpent, Linking, None, Still
  <2> QED BY <2>1, <2>2, <2>3, CallsStand DEF LinkInv, LocksHeld
<1>2. CASE StartSignIn \/ AttemptExpires
  <2>1. /\ attempt' \in {None} \cup [ticket : 1 .. signIns, browser : BOOLEAN, config : Nat]
        /\ attempt'.ticket \in {0, attempt.ticket}
        /\ UNCHANGED <<signIns, config, credential, cached, linking, leaving, tokenHolder, client, calls, exchanged, linked>>
    <3>1. CASE StartSignIn
      <4>1. attempt # None /\ attempt' = [attempt EXCEPT !.browser = TRUE]
        BY <3>1 DEF StartSignIn
      <4>2. attempt \in [ticket : 1 .. signIns, browser : BOOLEAN, config : Nat]
        BY <1>0, <4>1
      <4>3. attempt' \in [ticket : 1 .. signIns, browser : BOOLEAN, config : Nat] /\ attempt'.ticket = attempt.ticket
        BY <4>1, <4>2, Zenon
      <4> QED BY <3>1, <4>3 DEF StartSignIn
    <3>2. CASE AttemptExpires
      BY <3>2 DEF AttemptExpires, None
    <3> QED BY <1>2, <3>1, <3>2
  <2>2. LinkTyped'
    BY <1>0, <2>1 DEF LinkInv, LinkTyped, Linking
  <2>3. TicketsSpent'
    BY SMTT(60), <1>0, <2>1 DEF LinkInv, TicketsSpent, Linking, None, Still
  <2> QED BY <2>1, <2>2, <2>3, CallsStand DEF LinkInv, LocksHeld
<1>3. ASSUME NEW t \in 1 .. MaxSignIns, CallbackBegins(t) PROVE LinkInv'
  <2>1. /\ attempt' = None /\ attempt.ticket = t /\ linking.pc = "idle" /\ leaving.pc = "idle" /\ attempt # None
        /\ linking' = [pc |-> "exchanging", ticket |-> t, config |-> config]
        /\ UNCHANGED <<signIns, config, credential, cached, leaving, tokenHolder, client, calls, exchanged, linked>>
    BY <1>3 DEF CallbackBegins, Consumed, LinkFree, None
  <2>2. t \in 1 .. signIns
    BY <1>0, <2>1
  <2>3. LinkTyped'
    BY <1>0, <2>1, <2>2 DEF LinkInv, LinkTyped, Linking
  <2>4. TicketsSpent'
    BY <1>0, <2>1 DEF LinkInv, TicketsSpent, Linking, None, Still
  <2> QED BY <2>1, <2>3, <2>4, CallsStand DEF LinkInv
<1>4. ASSUME NEW yes \in BOOLEAN, CallbackExchanges(yes) PROVE LinkInv'
  <2>1. /\ linking.pc = "exchanging" /\ exchanged' = [exchanged EXCEPT ![linking.ticket] = @ + 1]
        /\ linking' = IF yes THEN [linking EXCEPT !.pc = "exchanged"] ELSE Still
        /\ UNCHANGED <<signIns, attempt, config, credential, cached, leaving, tokenHolder, client, calls, linked>>
    BY <1>4 DEF CallbackExchanges
  <2>2. linking \in Linking
    BY <1>0, <2>1 DEF Still
  <2>3. /\ linking' \in {Still} \cup Linking /\ linking'.pc \in {"idle", "exchanged"}
    BY <2>1, <2>2 DEF Linking, Still
  <2>4. linking.ticket \in 1 .. signIns /\ linking.ticket \in 1 .. MaxSignIns
    BY <1>0, <2>2 DEF Linking
  <2>5. exchanged[linking.ticket] = 0 /\ attempt.ticket # linking.ticket
    BY <1>0, <2>1, <2>4 DEF LinkInv, TicketsSpent
  <2>6. exchanged' = [exchanged EXCEPT ![linking.ticket] = 1]
    BY <1>0, <2>1, <2>4, <2>5
  <2>7. LinkTyped'
    <3>1. exchanged' \in [1 .. MaxSignIns -> Nat]
      BY <1>0, <2>4, <2>6
    <3>2. linking' \in {Still} \cup Linking'
      BY <2>1, <2>3 DEF Linking
    <3> QED BY <2>1, <3>1, <3>2 DEF LinkInv, LinkTyped
  <2>8. TicketsSpent'
    BY <1>0, <2>1, <2>3, <2>4, <2>5, <2>6 DEF LinkInv, TicketsSpent
  <2>9. leaving.pc = "idle"
    BY <2>1 DEF LinkInv, LocksHeld
  <2> QED BY <2>1, <2>3, <2>7, <2>8, <2>9, CallsStand DEF LinkInv
<1>5. CASE CallbackRotates
  <2>1. /\ linking.pc = "exchanged" /\ linking' \in {Still, [linking EXCEPT !.pc = "storing"]}
        /\ UNCHANGED <<signIns, attempt, config, credential, cached, leaving, tokenHolder, client, calls, exchanged, linked>>
    BY <1>5 DEF CallbackRotates
  <2>2. linking \in Linking
    BY <1>0, <2>1 DEF Still
  <2>3. /\ linking' \in {Still} \cup Linking /\ linking'.pc \in {"idle", "storing"}
    BY <2>1, <2>2 DEF Linking, Still
  <2>4. LinkTyped'
    BY <1>0, <2>1, <2>3 DEF LinkInv, LinkTyped, Linking
  <2>5. TicketsSpent'
    BY <1>0, <2>1, <2>3 DEF LinkInv, TicketsSpent
  <2>6. leaving.pc = "idle"
    BY <2>1 DEF LinkInv, LocksHeld
  <2> QED BY <2>1, <2>3, <2>4, <2>5, <2>6, CallsStand DEF LinkInv
<1> QED BY <1>1, <1>2, <1>3, <1>4, <1>5

\* Once the client is replaced or paused, every call from before is refused.
LEMMA EpochOver ==
  ASSUME LinkInv, UNCHANGED <<calls, linked, tokenHolder, credential, cached>>,
         client' \in [connected : BOOLEAN, epoch : Nat], client'.epoch = client.epoch + 1,
         leaving'.pc = "dropping" => leaving.pc = "dropping",
         leaving'.pc # "idle" => linking'.pc = "idle"
  PROVE  LocksHeld' /\ AdmittedUnder' /\ CallsCounted' /\ AccountIsLinked' /\ CallsKeepAccount'
<1>1. LocksHeld' /\ AccountIsLinked'
  BY DEF LinkInv, LocksHeld, AccountIsLinked
<1>2. AdmittedUnder'
  <2>1. SUFFICES ASSUME NEW c \in AccountCalls, calls[c].pc \in {"admitted", "refreshing"}
                 PROVE  calls[c].epoch <= client'.epoch /\ calls[c].epoch # client'.epoch
    BY DEF AdmittedUnder
  <2>2. calls[c].epoch <= client.epoch /\ calls[c].epoch \in Nat
    BY <2>1 DEF LinkInv, LinkTyped, AdmittedUnder, Still, WaitingCall, RefreshingCall, SentCall
  <2>3. client.epoch \in Nat
    BY DEF LinkInv, LinkTyped
  <2> QED BY <2>2, <2>3
<1>3. CallsCounted' /\ CallsKeepAccount'
  BY DEF LinkInv, CallsCounted, CallsKeepAccount
<1> QED BY <1>1, <1>2, <1>3

\* The account is stored, cleared, its client replaced or paused; the process restarts.
LEMMA AccountChanges ==
  ASSUME LinkInv,
         \/ CallbackStores \/ (\E yes \in BOOLEAN : CallbackConnects(yes))
         \/ DisconnectBegins \/ DisconnectForgets \/ DisconnectClears \/ DisconnectDrops
         \/ Toggle \/ AccountsRestart \/ AccessExpires \/ BackoffOver
  PROVE  LinkInv'
<1>0. /\ attempt \in {None} \cup [ticket : 1 .. signIns, browser : BOOLEAN, config : Nat]
      /\ linking \in {Still} \cup Linking /\ signIns \in 0 .. MaxSignIns /\ config \in Nat /\ MaxSignIns \in Nat
      /\ client \in [connected : BOOLEAN, epoch : Nat] /\ cached \in [login : Nat, fresh : BOOLEAN, failed : BOOLEAN]
  BY AccountsAssumption DEF LinkInv, LinkTyped
<1>n. tokenHolder = "none" => \A c \in AccountCalls : calls[c].pc # "refreshing"
  BY AccountsAssumption DEF LinkInv, LocksHeld
<1>1. CASE CallbackStores
  <2>1. /\ linking.pc = "storing" /\ tokenHolder = "none"
        /\ credential' = [login |-> linking.ticket, rotation |-> 0, config |-> linking.config]
        /\ cached' = [login |-> linking.ticket, fresh |-> TRUE, failed |-> FALSE]
        /\ linked' = linking.ticket /\ linking' = [linking EXCEPT !.pc = "connecting"]
        /\ UNCHANGED <<config, signIns, attempt, leaving, tokenHolder, client, calls, exchanged>>
    BY <1>1 DEF CallbackStores
  <2>2. linking \in Linking
    BY <1>0, <2>1 DEF Still
  <2>3. linking' \in Linking' /\ linking'.pc = "connecting" /\ linking.ticket \in Nat /\ linking.config \in Nat
    BY <1>0, <2>1, <2>2 DEF Linking
  <2>4. credential' \in Credential /\ cached' \in [login : Nat, fresh : BOOLEAN, failed : BOOLEAN]
    BY <2>1, <2>3 DEF Credential
  <2>5. LinkTyped'
    BY <2>1, <2>3, <2>4 DEF LinkInv, LinkTyped
  <2>6. TicketsSpent'
    BY <2>1, <2>3 DEF LinkInv, TicketsSpent
  <2>7. LocksHeld' /\ AccountIsLinked'
    BY <1>n, <2>1, <2>3 DEF LinkInv, LocksHeld, AccountIsLinked
  <2>8. AdmittedUnder'
    BY <2>1, <2>3 DEF LinkInv, AdmittedUnder
  <2>9. CallsCounted' /\ CallsKeepAccount'
    BY <2>1 DEF LinkInv, CallsCounted, CallsKeepAccount
  <2> QED BY <2>5, <2>6, <2>7, <2>8, <2>9 DEF LinkInv
<1>2. CASE DisconnectClears
  <2>1. /\ leaving.pc = "clearing" /\ tokenHolder = "none"
        /\ credential' = NoCredential /\ cached' = NoAccess /\ linked' = 0 /\ leaving' = [pc |-> "dropping"]
        /\ UNCHANGED <<config, signIns, attempt, linking, tokenHolder, client, calls, exchanged>>
    BY <1>2 DEF DisconnectClears
  <2>2. LinkTyped'
    BY <2>1 DEF LinkInv, LinkTyped, Linking, NoCredential, NoAccess, Credential
  <2>3. TicketsSpent'
    BY <2>1 DEF LinkInv, TicketsSpent
  <2>4. LocksHeld' /\ AccountIsLinked'
    BY <1>n, <2>1 DEF LinkInv, LocksHeld, AccountIsLinked, NoCredential, NoAccess
  <2>5. AdmittedUnder'
    BY <2>1 DEF LinkInv, AdmittedUnder
  <2>6. CallsCounted' /\ CallsKeepAccount'
    BY <2>1 DEF LinkInv, CallsCounted, CallsKeepAccount
  <2> QED BY <2>2, <2>3, <2>4, <2>5, <2>6 DEF LinkInv
<1>3. CASE AccountsRestart
  <2>1. /\ cached' = NoAccess /\ linking' = Still /\ leaving' = Still /\ tokenHolder' = "none"
        /\ client' = [connected |-> FALSE, epoch |-> client.epoch + 1]
        /\ calls' = [c \in AccountCalls |-> Still]
        /\ UNCHANGED <<signIns, attempt, credential, exchanged, linked>> /\ config' \in Nat
    BY <1>0, <1>3 DEF AccountsRestart
  <2>2. LinkTyped'
    BY <1>0, <2>1 DEF LinkInv, LinkTyped, NoAccess, Still
  <2>3. TicketsSpent'
    BY <2>1 DEF LinkInv, TicketsSpent, Still
  <2>4. LocksHeld' /\ AccountIsLinked' /\ AdmittedUnder' /\ CallsKeepAccount'
    BY <2>1 DEF LinkInv, LocksHeld, AccountIsLinked, AdmittedUnder, CallsKeepAccount, NoAccess, Still
  <2>5. CallsCounted'
    BY <2>1 DEF CallsCounted, SentCall, Still
  <2> QED BY <2>2, <2>3, <2>4, <2>5 DEF LinkInv
<1>4. CASE (\E yes \in BOOLEAN : CallbackConnects(yes)) \/ DisconnectDrops \/ Toggle
  <2>1. /\ client' \in [connected : BOOLEAN, epoch : Nat] /\ client'.epoch = client.epoch + 1
        /\ UNCHANGED <<config, signIns, attempt, credential, cached, tokenHolder, calls, exchanged, linked>>
    <3>1. /\ \E on \in BOOLEAN : client' = [connected |-> on, epoch |-> client.epoch + 1]
          /\ UNCHANGED <<config, signIns, attempt, credential, cached, tokenHolder, calls, exchanged, linked>>
      BY <1>0, <1>4 DEF CallbackConnects, DisconnectDrops, Toggle
    <3> QED BY <1>0, <3>1
  <2>2. linking' \in {Still, linking} /\ leaving' \in {Still, leaving}
    BY <1>4 DEF CallbackConnects, DisconnectDrops, Toggle
  <2>3. LinkTyped'
    BY <2>1, <2>2 DEF LinkInv, LinkTyped, Linking, Still
  <2>4. TicketsSpent'
    BY <2>1, <2>2 DEF LinkInv, TicketsSpent, Still
  <2>5. /\ leaving'.pc = "dropping" => leaving.pc = "dropping"
        /\ leaving'.pc # "idle" => linking'.pc = "idle"
    BY <2>2 DEF LinkInv, LocksHeld, Still
  <2> QED BY <2>1, <2>3, <2>4, <2>5, EpochOver DEF LinkInv
<1>5. CASE AccessExpires \/ BackoffOver
  <2>1. /\ cached' \in [login : Nat, fresh : BOOLEAN, failed : BOOLEAN]
        /\ cached'.fresh => cached.fresh /\ cached'.login = cached.login
        /\ UNCHANGED <<config, signIns, attempt, credential, linking, leaving, tokenHolder, client, calls, exchanged, linked>>
    BY <1>0, <1>5 DEF AccessExpires, BackoffOver
  <2>2. LinkTyped'
    BY <2>1 DEF LinkInv, LinkTyped, Linking
  <2>3. TicketsSpent'
    BY <2>1 DEF LinkInv, TicketsSpent
  <2> QED BY <2>1, <2>2, <2>3, CallsStand DEF LinkInv, LocksHeld
<1>6. CASE DisconnectBegins \/ DisconnectForgets
  <2>1. /\ attempt' \in {None, attempt} /\ leaving' \in {[pc |-> "forgetting"], [pc |-> "clearing"]}
        /\ linking.pc = "idle" /\ leaving.pc \in {"idle", "forgetting"}
        /\ UNCHANGED <<config, signIns, credential, cached, linking, tokenHolder, client, calls, exchanged, linked>>
    BY <1>6 DEF DisconnectBegins, DisconnectForgets, LinkFree, LinkInv, LocksHeld
  <2>2. LinkTyped'
    BY <2>1 DEF LinkInv, LinkTyped, Linking
  <2>3. TicketsSpent'
    BY <2>1 DEF LinkInv, TicketsSpent, None
  <2> QED BY <2>1, <2>2, <2>3, CallsStand DEF LinkInv
<1> QED BY <1>1, <1>2, <1>3, <1>4, <1>5, <1>6

\* One call moves; the link, the leave and the account stay.
LEMMA OneCallMoves ==
  ASSUME LinkInv, NEW c \in AccountCalls, NEW to \in {Still} \cup WaitingCall \cup RefreshingCall \cup SentCall,
         calls' = [calls EXCEPT ![c] = to],
         UNCHANGED <<config, signIns, attempt, linking, leaving, exchanged, linked>>,
         client' \in [connected : BOOLEAN, epoch : Nat], client'.epoch = client.epoch,
         cached' \in [login : Nat, fresh : BOOLEAN, failed : BOOLEAN], credential' \in Credential,
         credential'.login = linked, cached'.fresh => cached'.login = linked,
         leaving.pc = "dropping" => UNCHANGED credential /\ ~cached'.fresh /\ to.pc # "refreshing",
         \A d \in AccountCalls \ {c} : calls[d].pc = "refreshing" => tokenHolder' = d,
         to.pc = "refreshing" => tokenHolder' = c /\ to.used.login = linked,
         to.pc \in {"admitted", "refreshing"} =>
           /\ to.epoch <= client.epoch
           /\ to.epoch = client.epoch => to.account = linked \/ linking.pc = "connecting" \/ leaving.pc = "dropping",
         to.pc = "sending" => to.token = to.account \/ to.replacing,
         to \in SentCall => WritesCounted(to)
  PROVE  LinkInv'
<1>1. calls' \in [AccountCalls -> {Still} \cup WaitingCall \cup RefreshingCall \cup SentCall]
      /\ calls'[c] = to /\ \A d \in AccountCalls \ {c} : calls'[d] = calls[d]
  BY DEF LinkInv, LinkTyped
<1>2. LinkTyped'
  BY <1>1 DEF LinkInv, LinkTyped, Linking
<1>3. TicketsSpent'
  BY DEF LinkInv, TicketsSpent
<1>4. LocksHeld'
  BY <1>1 DEF LinkInv, LocksHeld
<1>5. AdmittedUnder'
  BY <1>1 DEF LinkInv, AdmittedUnder
<1>6. CallsCounted'
  BY <1>1 DEF LinkInv, CallsCounted, WritesCounted
<1>7. AccountIsLinked' /\ CallsKeepAccount'
  BY <1>1 DEF LinkInv, AccountIsLinked, CallsKeepAccount
<1> QED BY <1>2, <1>3, <1>4, <1>5, <1>6, <1>7 DEF LinkInv

\* What a call in each of its phases looks like.
LEMMA CallShape ==
  ASSUME LinkInv, NEW c \in AccountCalls
  PROVE  /\ calls[c].pc = "admitted" => calls[c] \in WaitingCall
         /\ calls[c].pc = "refreshing" => calls[c] \in RefreshingCall
         /\ calls[c].pc \in {"sending", "ok", "unknown"} => calls[c] \in SentCall
         /\ calls[c].pc = "refused" => calls[c] \in WaitingCall \cup RefreshingCall \cup SentCall
BY DEF LinkInv, LinkTyped, Still, WaitingCall, RefreshingCall, SentCall

\* What a dispatch makes of a call that has a token of the account linked now.
LEMMA DispatchFits ==
  ASSUME LinkInv, NEW c \in AccountCalls, calls[c].pc \in {"admitted", "refreshing"}, leaving.pc # "dropping"
  PROVE  /\ Dispatched(c, linked) \in WaitingCall \cup RefreshingCall \cup SentCall
         /\ Dispatched(c, linked).pc \in {"sending", "refused"}
         /\ Dispatched(c, linked).pc = "sending" => Dispatched(c, linked).token = Dispatched(c, linked).account
                                                    \/ Dispatched(c, linked).replacing
         /\ Dispatched(c, linked) \in SentCall => WritesCounted(Dispatched(c, linked))
<1>1. calls[c] \in WaitingCall \cup RefreshingCall
  BY CallShape
<1>2. linked \in Nat /\ calls[c].tool \in CallTools /\ calls[c].account \in Nat
  BY <1>1 DEF LinkInv, LinkTyped, WaitingCall, RefreshingCall
<1>3. CASE Admitted(calls[c])
  <2> DEFINE to == [pc |-> "sending", tool |-> calls[c].tool, step |-> 1, wrote |-> 0, account |-> calls[c].account,
                    token |-> linked, replacing |-> linking.pc = "connecting"]
  <2>1. Dispatched(c, linked) = to
    BY <1>3 DEF Dispatched
  <2>2. (linking.pc = "connecting") \in BOOLEAN
    BY Zenon
  <2>3. to \in SentCall
    BY <1>2, <2>2 DEF SentCall
  <2>4. calls[c].account = linked \/ linking.pc = "connecting"
    BY <1>3 DEF Admitted, LinkInv, AdmittedUnder
  <2>5. to.token = to.account \/ to.replacing
    BY <2>4
  <2>6. /\ Cardinality(WritesBefore(calls[c].tool, 1)) = 0 /\ Len(RequestsOf(calls[c].tool)) \in Nat
    BY <1>2, WritesAdvance
  <2>7. WritesCounted(to)
    BY <2>6 DEF WritesCounted
  <2> QED BY <2>1, <2>3, <2>5, <2>7
<1>4. CASE ~Admitted(calls[c])
  <2>1. Dispatched(c, linked) = [calls[c] EXCEPT !.pc = "refused"]
    BY <1>4 DEF Dispatched, Ended
  <2>2. [calls[c] EXCEPT !.pc = "refused"] \in WaitingCall \cup RefreshingCall
        /\ [calls[c] EXCEPT !.pc = "refused"].pc = "refused"
    BY <1>1 DEF WaitingCall, RefreshingCall
  <2>3. [calls[c] EXCEPT !.pc = "refused"] \notin SentCall
    BY <2>2 DEF WaitingCall, RefreshingCall, SentCall
  <2> QED BY <2>1, <2>2, <2>3
<1> QED BY <1>3, <1>4

\* A call is admitted, takes its token, refreshes it or fails to.
LEMMA TokensTaken ==
  ASSUME LinkInv, NEW c \in AccountCalls,
         \/ (\E tool \in CallTools : CallAdmitted(c, tool)) \/ CallTakesToken(c) \/ CallRefreshFails(c)
         \/ \E yes \in BOOLEAN : CallRefreshed(c, yes)
  PROVE  LinkInv'
<1>0. /\ client \in [connected : BOOLEAN, epoch : Nat] /\ cached \in [login : Nat, fresh : BOOLEAN, failed : BOOLEAN]
      /\ credential \in Credential /\ linked \in Nat /\ "none" \notin AccountCalls
      /\ credential.login = linked /\ (cached.fresh => cached.login = linked)
  BY AccountsAssumption DEF LinkInv, LinkTyped, AccountIsLinked
<1>1. /\ \A d \in AccountCalls : calls[d].pc = "refreshing" => tokenHolder = d /\ calls[d].used.login = linked
      /\ leaving.pc = "dropping" => /\ credential = NoCredential /\ ~cached.fresh
                                    /\ \A d \in AccountCalls : calls[d].pc # "refreshing"
  BY DEF LinkInv, LocksHeld
<1>r. ASSUME calls[c].pc \in {"admitted", "refreshing"}
      PROVE  /\ Ended(c, "refused") \in WaitingCall \cup RefreshingCall /\ Ended(c, "refused").pc = "refused"
             /\ Ended(c, "refused") \notin SentCall
  <2>1. calls[c] \in WaitingCall \cup RefreshingCall
    BY <1>r, CallShape
  <2>2. [calls[c] EXCEPT !.pc = "refused"] \in WaitingCall \cup RefreshingCall
        /\ [calls[c] EXCEPT !.pc = "refused"].pc = "refused"
    BY <2>1 DEF WaitingCall, RefreshingCall
  <2>3. [calls[c] EXCEPT !.pc = "refused"] \notin SentCall
    BY <2>2 DEF WaitingCall, RefreshingCall, SentCall
  <2> QED BY <2>2, <2>3 DEF Ended
<1>c. ASSUME client' = IF Admitted(calls[c]) THEN [client EXCEPT !.connected = FALSE] ELSE client
      PROVE  client' \in [connected : BOOLEAN, epoch : Nat] /\ client'.epoch = client.epoch
  BY <1>0, <1>c
<1>2. ASSUME NEW tool \in CallTools, CallAdmitted(c, tool) PROVE LinkInv'
  <2> DEFINE to == [pc |-> "admitted", tool |-> tool, epoch |-> client.epoch, account |-> linked]
  <2>1. /\ calls[c].pc = "idle" /\ calls' = [calls EXCEPT ![c] = to]
        /\ UNCHANGED <<config, signIns, attempt, linking, leaving, exchanged, linked, client, cached, credential, tokenHolder>>
    BY <1>2 DEF CallAdmitted
  <2>2. to \in WaitingCall /\ to \notin SentCall
    BY <1>0 DEF WaitingCall, SentCall
  <2>3. client.epoch <= client.epoch
    BY <1>0
  <2> QED BY <1>0, <1>1, <2>1, <2>2, <2>3, OneCallMoves
<1>3. CASE CallRefreshFails(c)
  <2>1. /\ calls[c].pc = "refreshing" /\ tokenHolder' = "none"
        /\ cached' = [cached EXCEPT !.failed = TRUE, !.fresh = FALSE]
        /\ calls' = [calls EXCEPT ![c] = Ended(c, "refused")]
        /\ client' = IF Admitted(calls[c]) THEN [client EXCEPT !.connected = FALSE] ELSE client
        /\ UNCHANGED <<config, signIns, attempt, linking, leaving, exchanged, linked, credential>>
    BY <1>3 DEF CallRefreshFails
  <2>2. cached' \in [login : Nat, fresh : BOOLEAN, failed : BOOLEAN] /\ ~cached'.fresh
    BY <1>0, <2>1
  <2>3. \A d \in AccountCalls \ {c} : calls[d].pc # "refreshing"
    BY <1>1, <2>1
  <2> HIDE DEF Ended
  <2> QED BY <1>0, <1>1, <1>r, <1>c, <2>1, <2>2, <2>3, OneCallMoves
<1>4. ASSUME NEW yes \in BOOLEAN, CallRefreshed(c, yes) PROVE LinkInv'
  <2> DEFINE used == calls[c].used
             to == Dispatched(c, linked)
  <2>1. /\ calls[c].pc = "refreshing" /\ tokenHolder' = "none"
        /\ cached' = [login |-> used.login, fresh |-> TRUE, failed |-> FALSE]
        /\ credential' = IF yes THEN [used EXCEPT !.rotation = @ + 1] ELSE credential
        /\ calls' = [calls EXCEPT ![c] = Dispatched(c, used.login)]
        /\ UNCHANGED <<config, signIns, attempt, linking, leaving, exchanged, linked, client>>
    BY <1>4 DEF CallRefreshed
  <2>2. used.login = linked /\ leaving.pc # "dropping"
    BY <1>1, <2>1
  <2>3. used \in Credential
    BY <2>1, CallShape DEF RefreshingCall
  <2>4. credential' \in Credential /\ credential'.login = linked
    BY <1>0, <2>1, <2>2, <2>3 DEF Credential
  <2>5. \A d \in AccountCalls \ {c} : calls[d].pc # "refreshing"
    BY <1>1, <2>1
  <2>6. /\ to \in WaitingCall \cup RefreshingCall \cup SentCall /\ to.pc \in {"sending", "refused"}
        /\ to.pc = "sending" => to.token = to.account \/ to.replacing
        /\ to \in SentCall => WritesCounted(to)
    BY <2>1, <2>2, DispatchFits
  <2>7. calls' = [calls EXCEPT ![c] = to]
    BY <2>1, <2>2
  <2>8. cached' \in [login : Nat, fresh : BOOLEAN, failed : BOOLEAN] /\ cached'.login = linked
    BY <1>0, <2>1, <2>2
  <2> HIDE DEF to
  <2> QED BY <1>0, <2>1, <2>2, <2>4, <2>5, <2>6, <2>7, <2>8, OneCallMoves
<1>5. CASE CallTakesToken(c)
  <2>1. /\ calls[c].pc = "admitted" /\ tokenHolder = "none"
        /\ UNCHANGED <<config, signIns, attempt, linking, leaving, exchanged, linked, credential>>
    BY <1>5 DEF CallTakesToken
  <2>2. \A d \in AccountCalls : calls[d].pc # "refreshing"
    BY <1>0, <1>1, <2>1
  <2>3. CASE /\ cached.fresh /\ calls' = [calls EXCEPT ![c] = Dispatched(c, cached.login)]
             /\ UNCHANGED <<cached, tokenHolder, client>>
    <3> DEFINE to == Dispatched(c, linked)
    <3>1. calls' = [calls EXCEPT ![c] = to] /\ leaving.pc # "dropping"
      BY <1>0, <1>1, <2>3
    <3>2. /\ to \in WaitingCall \cup RefreshingCall \cup SentCall /\ to.pc \in {"sending", "refused"}
          /\ to.pc = "sending" => to.token = to.account \/ to.replacing
          /\ to \in SentCall => WritesCounted(to)
      BY <2>1, <3>1, DispatchFits
    <3> HIDE DEF to
    <3> QED BY ZenonT(60), <1>0, <2>1, <2>2, <2>3, <3>1, <3>2, OneCallMoves
  <2>4. CASE /\ ~cached.fresh /\ cached' = [cached EXCEPT !.failed = TRUE]
             /\ calls' = [calls EXCEPT ![c] = Ended(c, "refused")]
             /\ client' = IF Admitted(calls[c]) THEN [client EXCEPT !.connected = FALSE] ELSE client
             /\ tokenHolder' = tokenHolder
    <3>1. cached' \in [login : Nat, fresh : BOOLEAN, failed : BOOLEAN] /\ ~cached'.fresh
      BY <1>0, <2>4
    <3> QED BY <1>0, <1>r, <1>c, <2>1, <2>2, <2>4, <3>1, OneCallMoves
  <2>5. CASE /\ ~cached.fresh /\ credential # NoCredential
             /\ calls' = [calls EXCEPT ![c] = [pc |-> "refreshing", tool |-> @.tool, epoch |-> @.epoch,
                                               account |-> @.account, used |-> credential]]
             /\ tokenHolder' = RefreshHolder(c) /\ UNCHANGED <<cached, client>>
    <3> DEFINE to == [pc |-> "refreshing", tool |-> calls[c].tool, epoch |-> calls[c].epoch,
                      account |-> calls[c].account, used |-> credential]
    <3>1. calls' = [calls EXCEPT ![c] = to] /\ leaving.pc # "dropping" /\ tokenHolder' = c
      BY <1>1, <2>5 DEF RefreshHolder
    <3>2. calls[c] \in WaitingCall
      BY <2>1, CallShape
    <3>3. to \in RefreshingCall /\ to \notin SentCall
      BY <1>0, <3>2 DEF WaitingCall, RefreshingCall, SentCall
    <3>4. /\ to.epoch <= client.epoch
          /\ to.epoch = client.epoch => to.account = linked \/ linking.pc = "connecting" \/ leaving.pc = "dropping"
      BY <2>1 DEF LinkInv, AdmittedUnder
    <3>5. to.pc = "refreshing" /\ to.used.login = linked
      BY <1>0
    <3> HIDE DEF to
    <3> QED BY ZenonT(60), <1>0, <2>1, <2>2, <2>5, <3>1, <3>3, <3>4, <3>5, OneCallMoves
  <2> QED BY <1>5, <2>3, <2>4, <2>5 DEF CallTakesToken
<1> QED BY <1>2, <1>3, <1>4, <1>5

\* A call sends its requests, refuses, returns and is read.
LEMMA RequestsSent ==
  ASSUME LinkInv, NEW c \in AccountCalls,
         \/ CallReturns(c) \/ CallRead(c) \/ (\E yes \in BOOLEAN : CallChecks(c, yes))
         \/ \E landed, answered \in BOOLEAN : CallRequest(c, landed, answered)
  PROVE  LinkInv'
<1>0. /\ client \in [connected : BOOLEAN, epoch : Nat] /\ cached \in [login : Nat, fresh : BOOLEAN, failed : BOOLEAN]
      /\ credential \in Credential
      /\ credential.login = linked /\ (cached.fresh => cached.login = linked)
      /\ leaving.pc = "dropping" => ~cached.fresh
      /\ \A d \in AccountCalls : calls[d].pc = "refreshing" => tokenHolder = d
  BY DEF LinkInv, LinkTyped, AccountIsLinked, LocksHeld
<1>1. ASSUME NEW to \in {Still} \cup SentCall, Sending(c, to),
             to.pc \notin {"refreshing", "admitted"},
             to.pc = "sending" => to.token = to.account \/ to.replacing,
             to \in SentCall => WritesCounted(to)
      PROVE  LinkInv'
  BY <1>0, <1>1, OneCallMoves DEF Sending
<1>2. CASE CallRead(c)
  <2>1. Still \notin SentCall /\ Still.pc = "idle"
    BY DEF Still, SentCall
  <2> QED BY <1>1, <1>2, <2>1 DEF CallRead
<1> SUFFICES ASSUME ~CallRead(c) PROVE LinkInv'
  BY <1>2
<1> DEFINE call == calls[c]
           tool == call.tool
           requests == RequestsOf(tool)
<1>3. /\ call.pc = "sending" /\ call \in SentCall /\ WritesCounted(call) /\ tool \in CallTools
      /\ call.token = call.account \/ call.replacing
  <2>1. call.pc = "sending"
    BY ZenonT(60) DEF CallReturns, CallChecks, CallRequest, Sends
  <2> QED BY SMTT(60), <2>1, CallShape DEF LinkInv, CallsCounted, CallsKeepAccount, SentCall
<1>4. /\ Len(requests) \in Nat /\ call.step \in 1 .. Len(requests) + 1 /\ call.wrote \in Nat
      /\ call.wrote = Cardinality(WritesBefore(tool, call.step))
      /\ tool \in READ_ONLY_TOOLS => call.wrote = 0
  BY <1>3, WritesAdvance DEF WritesCounted, SentCall
<1>5. /\ Sends(c) <=> call.step <= Len(requests)
      /\ RequestOf(c) = requests[call.step]
  BY <1>3 DEF Sends, RequestOf
<1>6. ASSUME NEW pc \in {"ok", "unknown", "refused"}
      PROVE  /\ [call EXCEPT !.pc = pc] \in SentCall /\ [call EXCEPT !.pc = pc].pc = pc
             /\ [call EXCEPT !.pc = pc].tool = tool /\ [call EXCEPT !.pc = pc].wrote = call.wrote
  BY <1>3 DEF SentCall
<1>7. CASE CallReturns(c)
  <2>1. ~Sends(c) /\ Sending(c, [call EXCEPT !.pc = "ok"])
    BY <1>7 DEF CallReturns, Ended
  <2>2. call.step = Len(requests) + 1
    BY <1>4, <1>5, <2>1
  <2>3. call.wrote = Writes(tool)
    BY <1>3, <1>4, <2>2, WritesAdvance
  <2>4. WritesCounted([call EXCEPT !.pc = "ok"])
    BY <1>4, <1>6, <2>3 DEF WritesCounted
  <2> QED BY <1>1, <1>6, <2>1, <2>4
<1>8. ASSUME NEW yes \in BOOLEAN, CallChecks(c, yes) PROVE LinkInv'
  <2>1. /\ call.step \in 1 .. Len(requests) /\ requests[call.step] = "refuse"
        /\ Sending(c, IF yes THEN [call EXCEPT !.pc = "refused"] ELSE [call EXCEPT !.step = call.step + 1])
    BY <1>4, <1>5, <1>8 DEF CallChecks
  <2>2. /\ call.wrote = 0
        /\ Cardinality(WritesBefore(tool, call.step + 1)) = call.wrote
    BY <1>3, <1>4, <2>1, WritesAdvance
  <2>3. CASE yes
    <3>1. WritesCounted([call EXCEPT !.pc = "refused"])
      BY <1>4, <1>6, <2>2 DEF WritesCounted
    <3> QED BY <1>1, <1>6, <2>1, <2>3, <3>1
  <2>4. CASE ~yes
    <3>1. PICK to : to = [call EXCEPT !.step = call.step + 1]
      BY ZenonT(60)
    <3>2. /\ to \in SentCall /\ to.pc = "sending" /\ to.tool = tool /\ to.step = call.step + 1 /\ to.wrote = call.wrote
          /\ to.token = call.token /\ to.account = call.account /\ to.replacing = call.replacing
      BY <1>3, <3>1 DEF SentCall
    <3>3. WritesCounted(to)
      BY <1>4, <2>1, <2>2, <3>2 DEF WritesCounted
    <3> QED BY <1>1, <1>3, <2>1, <2>4, <3>1, <3>2, <3>3
  <2> QED BY <2>3, <2>4
<1>9. ASSUME NEW landed \in BOOLEAN, NEW answered \in BOOLEAN, CallRequest(c, landed, answered) PROVE LinkInv'
  <2>1. PICK sent : /\ sent = [call EXCEPT !.wrote = IF landed /\ requests[call.step] = "write" THEN call.wrote + 1 ELSE call.wrote]
                    /\ IF answered \/ requests[call.step] = "try"
                       THEN Sending(c, [sent EXCEPT !.step = sent.step + 1])
                       ELSE Sending(c, [sent EXCEPT !.pc = "unknown"])
    BY ZenonT(60), <1>5, <1>9 DEF CallRequest
  <2>2. /\ call.step \in 1 .. Len(requests) /\ requests[call.step] # "refuse"
        /\ answered /\ requests[call.step] = "write" => landed
    <3>1. Sends(c) /\ RequestOf(c) # "refuse" /\ (answered /\ RequestOf(c) = "write" => landed)
      BY <1>9, Zenon DEF CallRequest
    <3>2. call.step \in 1 .. Len(requests)
      BY <1>4, <1>5, <3>1
    <3> QED BY <1>5, <3>1, <3>2
  <2>3. PICK w \in Nat : /\ sent = [call EXCEPT !.wrote = w]
                         /\ w = IF landed /\ requests[call.step] = "write" THEN call.wrote + 1 ELSE call.wrote
    BY SMTT(60), <1>4, <2>1
  <2>4. /\ sent \in SentCall /\ sent.pc = "sending" /\ sent.tool = tool /\ sent.step = call.step /\ sent.wrote = w
        /\ sent.token = call.token /\ sent.account = call.account /\ sent.replacing = call.replacing
    BY <1>3, <2>3 DEF SentCall
  <2>5. tool \in READ_ONLY_TOOLS => w = 0
    BY <1>3, <1>4, <2>2, <2>3, WritesAdvance
  <2>6. CASE answered \/ requests[call.step] = "try"
    <3>1. PICK to : to = [sent EXCEPT !.step = sent.step + 1]
      OBVIOUS
    <3>2. /\ to \in SentCall /\ to.pc = "sending" /\ to.tool = tool /\ to.step = call.step + 1 /\ to.wrote = w
          /\ to.token = call.token /\ to.account = call.account /\ to.replacing = call.replacing
      BY <1>4, <2>4, <3>1 DEF SentCall
    <3>3. w = Cardinality(WritesBefore(tool, call.step + 1))
      BY <1>3, <1>4, <2>2, <2>3, <2>6, WritesAdvance
    <3>4. WritesCounted(to)
      BY <1>4, <2>2, <2>5, <3>2, <3>3 DEF WritesCounted
    <3> QED BY <1>1, <1>3, <2>1, <2>6, <3>1, <3>2, <3>4
  <2>7. CASE ~(answered \/ requests[call.step] = "try")
    <3>1. PICK to : to = [sent EXCEPT !.pc = "unknown"]
      OBVIOUS
    <3>2. to \in SentCall /\ to.pc = "unknown" /\ to.tool = tool /\ to.wrote = w
      BY <2>4, <3>1 DEF SentCall
    <3>3. WritesCounted(to)
      BY <2>5, <3>2 DEF WritesCounted
    <3> QED BY <1>1, <2>1, <2>7, <3>1, <3>2, <3>3
  <2> QED BY <2>6, <2>7
<1> QED BY <1>7, <1>8, <1>9

\* Nothing linked, nothing called.
LEMMA AccountsStart ==
  ASSUME AccountsInit
  PROVE  LinkInv /\ SplitInv
<1>1. LinkTyped
  BY AccountsAssumption DEF AccountsInit, LinkTyped, Still, NoCredential, NoAccess, Credential
<1>2. TicketsSpent /\ LocksHeld /\ AdmittedUnder /\ AccountIsLinked /\ CallsKeepAccount
  BY DEF AccountsInit, TicketsSpent, LocksHeld, AdmittedUnder, AccountIsLinked, CallsKeepAccount, Still, NoCredential, NoAccess
<1>3. CallsCounted
  BY DEF AccountsInit, CallsCounted, SentCall, Still
<1>4. SplitInv
  BY DEF AccountsInit, SplitInv, Apart
<1> QED BY <1>1, <1>2, <1>3, <1>4 DEF LinkInv

LEMMA AccountsStep ==
  ASSUME LinkInv, [AccountsNext]_accountVars
  PROVE  LinkInv'
<1>1. CASE UNCHANGED linkVars
  <2>1. LinkTyped' /\ TicketsSpent' /\ LocksHeld'
    BY <1>1 DEF linkVars, LinkInv, LinkTyped, Linking, TicketsSpent, LocksHeld
  <2>2. AdmittedUnder' /\ CallsCounted' /\ AccountIsLinked' /\ CallsKeepAccount'
    BY <1>1 DEF linkVars, LinkInv, AdmittedUnder, CallsCounted, AccountIsLinked, CallsKeepAccount
  <2> QED BY <2>1, <2>2 DEF LinkInv
<1>2. CASE UNCHANGED accountVars \/ (\E parent \in series, k \in 1 .. Horizon, kind \in {"update", "delete"} : SplitReads(parent, k, kind))
           \/ \E landed, answered \in BOOLEAN : SplitTrims(landed, answered) \/ SplitCreates(landed, answered)
  <2>1. UNCHANGED linkVars
    BY <1>2 DEF accountVars, linkVars, SplitReads, SplitTrims, SplitCreates, SplitStep
  <2> QED BY <1>1, <2>1
<1> QED BY <1>2, SigningIn, AccountChanges, TokensTaken, RequestsSent DEF AccountsNext

\* What the invariant says of the outcomes that were told.
LEMMA OutcomesTold ==
  ASSUME LinkInv
  PROVE  ExchangedOnce /\ OutcomeTold
<1>1. ExchangedOnce
  BY DEF LinkInv, LinkTyped, TicketsSpent, ExchangedOnce
<1>2. ASSUME NEW c \in AccountCalls
      PROVE  /\ "wrote" \in DOMAIN calls[c] => calls[c] \in SentCall
             /\ calls[c].pc = "ok" => calls[c] \in SentCall
  <2>1. "wrote" \notin DOMAIN Still
    BY DEF Still
  <2>2. \A x \in WaitingCall : "wrote" \notin DOMAIN x
    BY DEF WaitingCall
  <2>3. \A x \in RefreshingCall : "wrote" \notin DOMAIN x
    BY DEF RefreshingCall
  <2> QED BY <2>1, <2>2, <2>3, CallShape DEF LinkInv, LinkTyped
<1>3. OutcomeTold
  BY <1>2 DEF LinkInv, CallsCounted, WritesCounted, OutcomeTold
<1> QED BY <1>1, <1>3

\* What is known of the link, the calls and the series stays known.
THEOREM AccountsShape == AccountsSpec => [](LinkInv /\ SplitInv)
<1>1. LinkInv /\ SplitInv /\ [AccountsNext]_accountVars => (LinkInv /\ SplitInv)'
  BY AccountsStep, SplitFollows
<1> QED BY <1>1, AccountsStart, PTL DEF AccountsSpec

\* oauth.py, rest_bridge.py, google_rest.py: through races, late answers, restarts and
\* lost answers a code is exchanged once, an account left or replaced does not come back,
\* a call keeps its account, says what it did, and a split loses nothing it was not asked to.
THEOREM AccountsHold == AccountsSpec => []AccountsSound
<1>1. LinkInv /\ SplitInv => AccountsSound
  BY OutcomesTold, SplitHolds DEF AccountsSound, LinkInv
<1> QED BY <1>1, AccountsShape, PTL
-----------------------------------------------------------------------------
(* The books of Solus.  First, sums over ordinals. *)

\* What holds of 0 and goes on from each number to the next holds of all.
LEMMA OnAndOn ==
  ASSUME NEW S, 0 \in S, \A n \in Nat : n \in S => n + 1 \in S PROVE \A n \in Nat : n \in S
<1> SUFFICES ASSUME Nat \ S # {} PROVE FALSE
  OBVIOUS
<1>1. PICK x \in Nat \ S : \A y \in Nat \ S : x <= y
  BY SmallestOne
<1>2. x # 0 /\ x - 1 \in Nat /\ x = (x - 1) + 1
  BY <1>1
<1>3. x - 1 \in S
  BY <1>1, <1>2
<1> QED BY <1>1, <1>2, <1>3

Sums(u, f, k) == u = [n \in 0 .. k |-> IF n = 0 THEN 0 ELSE u[n - 1] + f[n]]

\* A sum is read from the function of its parts.
LEMMA SumsBy == ASSUME NEW f, NEW k PROVE SumUpTo(f, k) = (CHOOSE u : Sums(u, f, k))[k]
  BY Zenon DEF SumUpTo, Sums

\* That function goes one step further.
LEMMA SumsOn ==
  ASSUME NEW f, NEW k \in Nat, NEW u, Sums(u, f, k) PROVE \E v : Sums(v, f, k + 1)
<1> DEFINE v == [n \in 0 .. (k + 1) |-> IF n = k + 1 THEN u[k] + f[k + 1] ELSE u[n]]
<1>1. \A n \in 0 .. k : v[n] = u[n] /\ u[n] = IF n = 0 THEN 0 ELSE u[n - 1] + f[n]
  BY DEF Sums
<1>2. \A n \in 0 .. (k + 1) : v[n] = IF n = 0 THEN 0 ELSE v[n - 1] + f[n]
  BY <1>1
<1>3. Sums(v, f, k + 1)
  BY <1>2 DEF Sums
<1> QED BY <1>3

\* So it is there for every number.
LEMMA SumsThere ==
  ASSUME NEW f PROVE \A k \in Nat : \E u : Sums(u, f, k)
<1> DEFINE S == {k \in Nat : \E u : Sums(u, f, k)}
<1>1. 0 \in S
  <2>1. Sums([n \in 0 .. 0 |-> 0], f, 0)
    BY DEF Sums
  <2> QED BY <2>1
<1>2. ASSUME NEW n \in Nat, n \in S PROVE n + 1 \in S
  <2>1. PICK u : Sums(u, f, n)
    BY <1>2
  <2> QED BY <2>1, SumsOn
<1> HIDE DEF S
<1>3. \A n \in Nat : n \in S
  BY Zenon, <1>1, <1>2, OnAndOn
<1> QED BY <1>3 DEF S

\* And it does not depend on how far it was taken.
LEMMA SumsAlike ==
  ASSUME NEW f, NEW k \in Nat, NEW m \in Nat, k <= m, NEW u, Sums(u, f, k), NEW v, Sums(v, f, m)
  PROVE  \A n \in 0 .. k : u[n] = v[n]
<1> DEFINE S == {n \in Nat : n <= k => u[n] = v[n]}
<1>u. \A n \in 0 .. k : u[n] = IF n = 0 THEN 0 ELSE u[n - 1] + f[n]
  BY DEF Sums
<1>v. \A n \in 0 .. m : v[n] = IF n = 0 THEN 0 ELSE v[n - 1] + f[n]
  BY DEF Sums
<1>1. 0 \in S
  BY <1>u, <1>v
<1>2. ASSUME NEW n \in Nat, n \in S PROVE n + 1 \in S
  <2> SUFFICES ASSUME n + 1 <= k PROVE u[n + 1] = v[n + 1]
    OBVIOUS
  <2>1. u[n] = v[n] /\ n + 1 \in 0 .. k /\ n + 1 \in 0 .. m /\ (n + 1) - 1 = n
    BY <1>2
  <2> QED BY <1>u, <1>v, <2>1
<1> HIDE DEF S
<1>3. \A n \in Nat : n \in S
  BY Zenon, <1>1, <1>2, OnAndOn
<1> QED BY <1>3 DEF S

\* A sum by one step more.
LEMMA SumNext ==
  ASSUME NEW f, NEW k \in Nat
  PROVE  SumUpTo(f, 0) = 0 /\ SumUpTo(f, k + 1) = SumUpTo(f, k) + f[k + 1]
<1>1. ASSUME NEW n \in Nat PROVE Sums(CHOOSE u : Sums(u, f, n), f, n)
  BY Zenon, SumsThere
<1>2. SumUpTo(f, 0) = 0
  <2>1. PICK u : u = (CHOOSE w : Sums(w, f, 0)) /\ Sums(u, f, 0)
    BY <1>1
  <2>2. SumUpTo(f, 0) = u[0]
    BY Zenon, SumsBy, <2>1
  <2>3. u[0] = 0
    BY <2>1 DEF Sums
  <2> QED BY Zenon, <2>2, <2>3
<1>3. PICK u : u = (CHOOSE w : Sums(w, f, k)) /\ Sums(u, f, k)
  BY <1>1
<1>4. PICK v : v = (CHOOSE w : Sums(w, f, k + 1)) /\ Sums(v, f, k + 1)
  <2>1. k + 1 \in Nat
    OBVIOUS
  <2> QED BY <1>1, <2>1
<1>5. SumUpTo(f, k) = u[k] /\ SumUpTo(f, k + 1) = v[k + 1]
  BY Zenon, SumsBy, <1>3, <1>4
<1>6. v[k + 1] = v[k] + f[k + 1]
  BY <1>4 DEF Sums
<1>7. u[k] = v[k]
  BY <1>3, <1>4, SumsAlike
<1> QED BY <1>2, <1>5, <1>6, <1>7

\* Sums of integers are integers.
LEMMA SumTyped ==
  ASSUME NEW f, NEW k \in Nat, \A n \in 1 .. k : f[n] \in Int PROVE SumUpTo(f, k) \in Int
<1> DEFINE S == {n \in Nat : n <= k => SumUpTo(f, n) \in Int}
<1>1. 0 \in S
  BY SumNext
<1>2. ASSUME NEW n \in Nat, n \in S PROVE n + 1 \in S
  <2> SUFFICES ASSUME n + 1 <= k PROVE SumUpTo(f, n + 1) \in Int
    OBVIOUS
  <2>1. SumUpTo(f, n) \in Int /\ n + 1 \in 1 .. k
    BY <1>2
  <2>2. SumUpTo(f, n + 1) = SumUpTo(f, n) + f[n + 1]
    BY SumNext
  <2> QED BY <2>1, <2>2
<1> HIDE DEF S
<1>3. \A n \in Nat : n \in S
  BY Zenon, <1>1, <1>2, OnAndOn
<1> QED BY <1>3 DEF S

\* Equal terms have equal sums.
LEMMA SumSame ==
  ASSUME NEW f, NEW g, NEW k \in Nat, \A n \in 1 .. k : f[n] = g[n]
  PROVE  SumUpTo(f, k) = SumUpTo(g, k)
<1> DEFINE S == {n \in Nat : n <= k => SumUpTo(f, n) = SumUpTo(g, n)}
<1>1. 0 \in S
  BY SumNext
<1>2. ASSUME NEW n \in Nat, n \in S PROVE n + 1 \in S
  <2> SUFFICES ASSUME n + 1 <= k PROVE SumUpTo(f, n + 1) = SumUpTo(g, n + 1)
    OBVIOUS
  <2>1. SumUpTo(f, n) = SumUpTo(g, n) /\ n + 1 \in 1 .. k
    BY <1>2
  <2>2. SumUpTo(f, n + 1) = SumUpTo(f, n) + f[n + 1] /\ SumUpTo(g, n + 1) = SumUpTo(g, n) + g[n + 1]
    BY SumNext
  <2> QED BY <2>1, <2>2
<1> HIDE DEF S
<1>3. \A n \in Nat : n \in S
  BY Zenon, <1>1, <1>2, OnAndOn
<1> QED BY <1>3 DEF S

\* The sum over those of the first n ordinals that are in S.
SumThrough(n, S, a) == SumUpTo([e \in 1 .. n |-> IF e \in S THEN a[e] ELSE 0], n)

\* A sum over a set, by one ordinal more.
LEMMA OverNext ==
  ASSUME NEW n \in Nat, NEW S, NEW a
  PROVE  /\ SumThrough(0, S, a) = 0
         /\ SumThrough(n + 1, S, a) = SumThrough(n, S, a) + (IF n + 1 \in S THEN a[n + 1] ELSE 0)
<1> DEFINE f == [e \in 1 .. n |-> IF e \in S THEN a[e] ELSE 0]
           g == [e \in 1 .. (n + 1) |-> IF e \in S THEN a[e] ELSE 0]
<1>1. SumThrough(0, S, a) = 0
  BY Zenon, SumNext DEF SumThrough
<1>2. SumThrough(n, S, a) = SumUpTo(f, n) /\ SumThrough(n + 1, S, a) = SumUpTo(g, n + 1)
  BY Zenon DEF SumThrough
<1>3. g[n + 1] = IF n + 1 \in S THEN a[n + 1] ELSE 0
  OBVIOUS
<1>4. \A e \in 1 .. n : f[e] = g[e]
  OBVIOUS
<1> HIDE DEF f, g
<1>5. SumUpTo(f, n) = SumUpTo(g, n)
  BY Zenon, <1>4, SumSame
<1>6. SumUpTo(g, n + 1) = SumUpTo(g, n) + g[n + 1]
  BY Zenon, SumNext
<1> QED BY Zenon, <1>1, <1>2, <1>3, <1>5, <1>6

\* Such sums of integers are integers.
LEMMA OverTyped ==
  ASSUME NEW n \in Nat, NEW S, NEW a, \A e \in 1 .. n : e \in S => a[e] \in Int
  PROVE  SumThrough(n, S, a) \in Int
<1> DEFINE f == [e \in 1 .. n |-> IF e \in S THEN a[e] ELSE 0]
<1>1. \A e \in 1 .. n : f[e] \in Int
  OBVIOUS
<1>2. SumThrough(n, S, a) = SumUpTo(f, n)
  BY Zenon DEF SumThrough
<1> HIDE DEF f
<1> QED BY Zenon, <1>1, <1>2, SumTyped

\* A sum of naturals is a natural.
LEMMA OverNat ==
  ASSUME NEW n \in Nat, NEW S, NEW a, \A e \in 1 .. n : e \in S => a[e] \in Nat
  PROVE  SumThrough(n, S, a) \in Nat
<1> DEFINE C == {m \in Nat : m <= n => SumThrough(m, S, a) \in Nat}
<1>1. 0 \in C
  BY OverNext
<1>2. ASSUME NEW m \in Nat, m \in C PROVE m + 1 \in C
  BY <1>2, OverNext
<1> HIDE DEF C
<1>3. \A m \in Nat : m \in C
  BY Zenon, <1>1, <1>2, OnAndOn
<1> QED BY <1>3 DEF C

\* Up to n, S and T have the same members, worth the same.
Alike(n, S, a, T, b) == \A e \in 1 .. n : (e \in S <=> e \in T) /\ (e \in S => a[e] = b[e])

\* Such sums depend on the members and on their worths only.
LEMMA OverSame ==
  ASSUME NEW n \in Nat, NEW S, NEW T, NEW a, NEW b, Alike(n, S, a, T, b)
  PROVE  SumThrough(n, S, a) = SumThrough(n, T, b)
<1> DEFINE f == [e \in 1 .. n |-> IF e \in S THEN a[e] ELSE 0]
           g == [e \in 1 .. n |-> IF e \in T THEN b[e] ELSE 0]
<1>1. \A e \in 1 .. n : f[e] = g[e]
  BY Zenon DEF Alike
<1>2. SumThrough(n, S, a) = SumUpTo(f, n) /\ SumThrough(n, T, b) = SumUpTo(g, n)
  BY Zenon DEF SumThrough
<1> HIDE DEF f, g
<1> QED BY Zenon, <1>1, <1>2, SumSame

\* What is worth nothing from k on adds nothing.
LEMMA OverCut ==
  ASSUME NEW n \in Nat, NEW k \in 0 .. n, NEW S, NEW a, \A e \in 1 .. n : e \in S => e <= k /\ a[e] \in Int
  PROVE  SumThrough(n, S, a) = SumThrough(k, S, a)
<1> DEFINE C == {m \in Nat : m >= k /\ m <= n => SumThrough(m, S, a) = SumThrough(k, S, a)}
<1>0. SumThrough(k, S, a) \in Int
  <2>1. \A e \in 1 .. k : e \in S => a[e] \in Int
    OBVIOUS
  <2> QED BY <2>1, OverTyped
<1>1. 0 \in C
  BY OverNext
<1>2. ASSUME NEW m \in Nat, m \in C PROVE m + 1 \in C
  <2> SUFFICES ASSUME m + 1 >= k, m + 1 <= n PROVE SumThrough(m + 1, S, a) = SumThrough(k, S, a)
    OBVIOUS
  <2>1. CASE m + 1 = k
    BY <2>1
  <2>2. CASE m + 1 # k
    <3>1. m >= k /\ m + 1 \in 1 .. n
      BY <2>2
    <3>2. SumThrough(m, S, a) = SumThrough(k, S, a) /\ m + 1 \notin S
      BY <1>2, <3>1
    <3>3. SumThrough(m + 1, S, a) = SumThrough(m, S, a) + 0
      BY <3>2, OverNext
    <3> QED BY <1>0, <3>2, <3>3
  <2> QED BY <2>1, <2>2
<1> HIDE DEF C
<1>3. \A m \in Nat : m \in C
  BY Zenon, <1>1, <1>2, OnAndOn
<1> QED BY <1>3 DEF C

\* One more in the set adds what it is worth.
LEMMA OverWith ==
  ASSUME NEW n \in Nat, NEW S, NEW d \in 1 .. n, d \notin S, NEW a,
         \A e \in 1 .. n : e \in S \cup {d} => a[e] \in Int
  PROVE  SumThrough(n, S \cup {d}, a) = SumThrough(n, S, a) + a[d]
<1> DEFINE C == {m \in Nat : m <= n => SumThrough(m, S \cup {d}, a) = SumThrough(m, S, a) + (IF d <= m THEN a[d] ELSE 0)}
<1>1. 0 \in C
  BY OverNext
<1>2. ASSUME NEW m \in Nat, m \in C PROVE m + 1 \in C
  <2> SUFFICES ASSUME m + 1 <= n
               PROVE  SumThrough(m + 1, S \cup {d}, a) = SumThrough(m + 1, S, a) + (IF d <= m + 1 THEN a[d] ELSE 0)
    OBVIOUS
  <2>1. SumThrough(m, S \cup {d}, a) = SumThrough(m, S, a) + (IF d <= m THEN a[d] ELSE 0)
    BY <1>2
  <2>2. SumThrough(m + 1, S, a) = SumThrough(m, S, a) + (IF m + 1 \in S THEN a[m + 1] ELSE 0)
    BY OverNext
  <2>3. SumThrough(m + 1, S \cup {d}, a) = SumThrough(m, S \cup {d}, a) + (IF m + 1 \in S \cup {d} THEN a[m + 1] ELSE 0)
    BY OverNext
  <2>4. SumThrough(m, S, a) \in Int
    <3>1. \A e \in 1 .. m : e \in S => a[e] \in Int
      OBVIOUS
    <3> QED BY <3>1, OverTyped
  <2>5. a[d] \in Int /\ (m + 1 \in S => a[m + 1] \in Int)
    OBVIOUS
  <2> QED BY <2>1, <2>2, <2>3, <2>4, <2>5
<1> HIDE DEF C
<1>3. \A m \in Nat : m \in C
  BY Zenon, <1>1, <1>2, OnAndOn
<1>4. SumThrough(n, S \cup {d}, a) = SumThrough(n, S, a) + (IF d <= n THEN a[d] ELSE 0)
  BY <1>3 DEF C
<1> QED BY <1>4

\* Fewer of what is worth something are worth less.
LEMMA OverLess ==
  ASSUME NEW n \in Nat, NEW S, NEW T, NEW a,
         \A e \in 1 .. n : e \in S => e \in T, \A e \in 1 .. n : e \in T => a[e] \in Nat
  PROVE  /\ SumThrough(n, S, a) \in Nat /\ SumThrough(n, T, a) \in Nat /\ SumThrough(n, S, a) <= SumThrough(n, T, a)
         /\ (\A e \in 1 .. n : e \in T => a[e] > 0) /\ SumThrough(n, S, a) = SumThrough(n, T, a)
              => \A e \in 1 .. n : e \in T => e \in S
<1> DEFINE P(m) == /\ SumThrough(m, S, a) \in Nat /\ SumThrough(m, T, a) \in Nat /\ SumThrough(m, S, a) <= SumThrough(m, T, a)
                   /\ (\A e \in 1 .. m : e \in T => a[e] > 0) /\ SumThrough(m, S, a) = SumThrough(m, T, a)
                        => \A e \in 1 .. m : e \in T => e \in S
           C == {m \in Nat : m <= n => P(m)}
<1>1. 0 \in C
  BY OverNext
<1>2. ASSUME NEW m \in Nat, m \in C PROVE m + 1 \in C
  <2> SUFFICES ASSUME m + 1 <= n PROVE P(m + 1)
    OBVIOUS
  <2>1. P(m)
    BY <1>2
  <2>2. SumThrough(m + 1, S, a) = SumThrough(m, S, a) + (IF m + 1 \in S THEN a[m + 1] ELSE 0)
    BY OverNext
  <2>3. SumThrough(m + 1, T, a) = SumThrough(m, T, a) + (IF m + 1 \in T THEN a[m + 1] ELSE 0)
    BY OverNext
  <2>4. (m + 1 \in S => m + 1 \in T) /\ (m + 1 \in T => a[m + 1] \in Nat)
    OBVIOUS
  <2>5. /\ SumThrough(m + 1, S, a) \in Nat /\ SumThrough(m + 1, T, a) \in Nat /\ SumThrough(m + 1, S, a) <= SumThrough(m + 1, T, a)
    BY <2>1, <2>2, <2>3, <2>4
  <2>6. ASSUME \A e \in 1 .. (m + 1) : e \in T => a[e] > 0, SumThrough(m + 1, S, a) = SumThrough(m + 1, T, a)
        PROVE  \A e \in 1 .. (m + 1) : e \in T => e \in S
    <3>1. m + 1 \in T => a[m + 1] > 0
      BY <2>6
    <3>2. \A e \in 1 .. m : e \in T => a[e] > 0
      BY <2>6
    <3>3. SumThrough(m, S, a) = SumThrough(m, T, a) /\ (m + 1 \in T => m + 1 \in S)
      BY <2>1, <2>2, <2>3, <2>4, <2>6, <3>1
    <3>4. \A e \in 1 .. m : e \in T => e \in S
      BY <2>1, <3>2, <3>3
    <3> QED BY <3>3, <3>4
  <2> QED BY <2>5, <2>6
<1> HIDE DEF C
<1>3. \A m \in Nat : m \in C
  BY Zenon, <1>1, <1>2, OnAndOn
<1>4. P(n)
  BY <1>3 DEF C
<1> QED BY <1>4

-----------------------------------------------------------------------------
(* A book whose entries are fine. *)

EntryFields == {"key", "kind", "day", "occurrence", "amount", "count", "quantity", "lot", "reverses",
                "account", "pays"}
BookFields == {"journal", "closed", "revision", "imports", "plan"}

\* An entry of ordinal i, in a journal j.
EntryFine(j, i) ==
  /\ DOMAIN j[i] = EntryFields
  /\ j[i].kind \in Posts \cup {"reversal"} /\ j[i].day \in 0 .. MaxDay /\ j[i].count \in 1 .. 3
  /\ j[i].amount \in Int /\ (j[i].kind \in {"bill", "buy"} => j[i].amount \in Nat)
  /\ j[i].quantity \in Nat /\ (j[i].kind \in {"buy", "sell"} => j[i].quantity > 0)
  /\ j[i].kind = "sell" => j[i].lot \in 1 .. (i - 1) /\ j[j[i].lot].kind = "buy"
  /\ j[i].kind = "reversal" => j[i].reverses \in 1 .. (i - 1) /\ j[i].occurrence = <<"reverse", j[i].reverses>>
  /\ j[i].kind # "reversal" => j[i].reverses = 0 /\ \E o : j[i].occurrence = Named(o)
  /\ \A item \in DOMAIN j[i].pays : j[i].kind = "payment" /\ j[i].pays[item] \in Nat /\ item[1] \in 1 .. (i - 1)

IsJournal(j) == \E S : j \in Seq(S)
BookFine(b) ==
  /\ DOMAIN b = BookFields /\ IsJournal(b.journal)
  /\ \A i \in 1 .. Len(b.journal) : EntryFine(b.journal, i)

\* j2 is j with one entry more.
OneMore(j, j2, x) ==
  /\ IsJournal(j2) /\ Len(j2) = Len(j) + 1 /\ j2[Len(j) + 1] = x
  /\ \A i \in 1 .. Len(j) : j2[i] = j[i]

\* A journal is a sequence.
LEMMA JournalDomain == ASSUME NEW j, IsJournal(j) PROVE Len(j) \in Nat /\ DOMAIN j = 1 .. Len(j)
  BY DEF IsJournal

\* Append makes a journal with one entry more.
LEMMA AppendOneMore ==
  ASSUME NEW j, IsJournal(j), NEW x PROVE OneMore(j, Append(j, x), x)
<1>1. PICK S : j \in Seq(S)
  BY DEF IsJournal
<1>2. j \in Seq(S \cup {x}) /\ x \in S \cup {x}
  BY <1>1
<1>3. Append(j, x) \in Seq(S \cup {x}) /\ Len(Append(j, x)) = Len(j) + 1 /\ Append(j, x)[Len(j) + 1] = x
      /\ \A i \in 1 .. Len(j) : Append(j, x)[i] = j[i]
  BY <1>2
<1> QED BY Zenon, <1>3 DEF OneMore, IsJournal

\* What one entry more leaves as it was.
LEMMA FineKept ==
  ASSUME NEW j, NEW j2, NEW x, IsJournal(j), OneMore(j, j2, x), NEW i \in 1 .. Len(j), EntryFine(j, i)
  PROVE  EntryFine(j2, i)
<1>1. Len(j) \in Nat /\ j2[i] = j[i]
  BY JournalDomain DEF OneMore
<1>2. j[i].kind = "sell" => j2[j[i].lot] = j[j[i].lot]
  BY <1>1 DEF OneMore, EntryFine
<1> QED BY <1>1, <1>2 DEF EntryFine

\* A fine entry keeps the book fine.
LEMMA BookFineKept ==
  ASSUME NEW b, NEW b2, NEW x, BookFine(b), OneMore(b.journal, b2.journal, x), DOMAIN b2 = BookFields,
         EntryFine(b2.journal, Len(b.journal) + 1)
  PROVE  BookFine(b2)
<1>1. Len(b.journal) \in Nat /\ IsJournal(b.journal) /\ IsJournal(b2.journal)
  BY JournalDomain DEF BookFine, OneMore
<1>2. \A i \in 1 .. Len(b.journal) : EntryFine(b2.journal, i)
  BY Zenon, <1>1, FineKept DEF BookFine
<1>3. \A i \in 1 .. Len(b2.journal) : i \in 1 .. Len(b.journal) \/ i = Len(b.journal) + 1
  BY <1>1 DEF OneMore
<1> QED BY Zenon, <1>1, <1>2, <1>3 DEF BookFine

\* The events of a book are its ordinals.
LEMMA EventsAre == ASSUME NEW b, BookFine(b) PROVE Events(b) = 1 .. Len(b.journal) /\ Len(b.journal) \in Nat
  BY JournalDomain DEF BookFine, Events

\* One entry more is one event more.
LEMMA EventsOneMore ==
  ASSUME NEW b, NEW b2, NEW x, BookFine(b), OneMore(b.journal, b2.journal, x)
  PROVE  /\ Events(b2) = 1 .. (Len(b.journal) + 1) /\ Events(b2) = Events(b) \cup {Len(b.journal) + 1}
         /\ Len(b.journal) + 1 \notin Events(b)
<1>1. Events(b2) = 1 .. Len(b2.journal) /\ Len(b2.journal) = Len(b.journal) + 1
  BY JournalDomain DEF OneMore, Events
<1> QED BY <1>1, EventsAre

\* It reverses what it names, and nothing reverses it yet.
LEMMA ReversedOneMore ==
  ASSUME NEW b, NEW b2, NEW x, BookFine(b), OneMore(b.journal, b2.journal, x)
  PROVE  /\ \A e : Reversed(b2, e) <=> Reversed(b, e) \/ x.reverses = e
         /\ ~Reversed(b, Len(b.journal) + 1)
<1>1. Len(b.journal) \in Nat /\ Events(b) = 1 .. Len(b.journal) /\ Events(b2) = Events(b) \cup {Len(b.journal) + 1}
  BY EventsAre, EventsOneMore
<1>2. ASSUME NEW r \in Events(b) PROVE b2.journal[r] = b.journal[r] /\ b.journal[r].reverses \in 0 .. (r - 1)
  BY SMTT(60), <1>1 DEF BookFine, EntryFine, OneMore
<1>3. b2.journal[Len(b.journal) + 1] = x
  BY DEF OneMore
<1>4. ~Reversed(b, Len(b.journal) + 1)
  BY <1>1, <1>2 DEF Reversed
<1>5. ASSUME NEW e PROVE Reversed(b2, e) <=> Reversed(b, e) \/ x.reverses = e
  BY Zenon, <1>1, <1>2, <1>3 DEF Reversed
<1> QED BY <1>4, <1>5

\* A sum over events is a sum over ordinals.
LEMMA SumOverIs ==
  ASSUME NEW b, BookFine(b), NEW S, NEW a PROVE SumOver(b, S, a) = SumThrough(Len(b.journal), S, a)
<1>1. Events(b) = 1 .. Len(b.journal)
  BY EventsAre
<1> QED BY Zenon, <1>1 DEF SumOver, SumThrough

-----------------------------------------------------------------------------
(* Installments and payments. *)

PaidBy(b, item) == {p \in PaymentsOf(b, item) : ~Reversed(b, p)}
Share(b, item) == [p \in PaymentsOf(b, item) |-> b.journal[p].pays[item]]

\* What is settled on an installment is what the payments that stand gave to it.
LEMMA PaidIs ==
  ASSUME NEW b, BookFine(b), NEW item
  PROVE  /\ EffectiveSettled(b, item) = SumThrough(Len(b.journal), PaidBy(b, item), Share(b, item))
         /\ \A p : p \in PaidBy(b, item) <=> p \in 1 .. Len(b.journal) /\ item \in DOMAIN b.journal[p].pays /\ ~Reversed(b, p)
         /\ \A p \in PaidBy(b, item) : Share(b, item)[p] = b.journal[p].pays[item] /\ Share(b, item)[p] \in Nat
         /\ EffectiveSettled(b, item) \in Nat
<1>1. EffectiveSettled(b, item) = SumThrough(Len(b.journal), PaidBy(b, item), Share(b, item))
  BY Zenon, SumOverIs DEF EffectiveSettled, PaidBy, Share
<1>e. Len(b.journal) \in Nat /\ Events(b) = 1 .. Len(b.journal)
  BY EventsAre
<1>2. ASSUME NEW p
      PROVE  p \in PaidBy(b, item) <=> p \in 1 .. Len(b.journal) /\ item \in DOMAIN b.journal[p].pays /\ ~Reversed(b, p)
  BY Zenon, <1>e DEF PaidBy, PaymentsOf
<1>3. ASSUME NEW p \in PaidBy(b, item)
      PROVE  Share(b, item)[p] = b.journal[p].pays[item] /\ Share(b, item)[p] \in Nat
  <2>1. p \in PaymentsOf(b, item) /\ p \in 1 .. Len(b.journal) /\ item \in DOMAIN b.journal[p].pays
    BY Zenon, <1>2, <1>3, <1>e DEF PaidBy, PaymentsOf
  <2>2. Share(b, item)[p] = b.journal[p].pays[item]
    BY Zenon, <2>1 DEF Share
  <2>3. b.journal[p].pays[item] \in Nat
    BY Zenon, <2>1 DEF BookFine, EntryFine
  <2> QED BY Zenon, <2>2, <2>3
<1>4. \A e \in 1 .. Len(b.journal) : e \in PaidBy(b, item) => Share(b, item)[e] \in Nat
  BY Zenon, <1>3
<1>5. EffectiveSettled(b, item) \in Nat
  BY Zenon, <1>1, <1>4, <1>e, OverNat
<1> QED BY Zenon, <1>1, <1>2, <1>3, <1>5

\* What an entry that does not pay an installment does to what is settled on it.
LEMMA SettledLess ==
  ASSUME NEW b, NEW b2, NEW x, BookFine(b), BookFine(b2), OneMore(b.journal, b2.journal, x),
         NEW item, item \notin DOMAIN x.pays
  PROVE  EffectiveSettled(b2, item) <= EffectiveSettled(b, item)
<1> DEFINE n == Len(b.journal)
<1>1. n \in Nat /\ Len(b2.journal) = n + 1 /\ b2.journal[n + 1] = x /\ \A e \in 1 .. n : b2.journal[e] = b.journal[e]
  BY EventsAre DEF OneMore
<1>p. /\ \A p : p \in PaidBy(b, item) <=> p \in 1 .. n /\ item \in DOMAIN b.journal[p].pays /\ ~Reversed(b, p)
      /\ \A p : p \in PaidBy(b2, item) <=> p \in 1 .. Len(b2.journal) /\ item \in DOMAIN b2.journal[p].pays /\ ~Reversed(b2, p)
      /\ \A p \in PaidBy(b, item) : Share(b, item)[p] = b.journal[p].pays[item] /\ Share(b, item)[p] \in Nat
      /\ \A p \in PaidBy(b2, item) : Share(b2, item)[p] = b2.journal[p].pays[item]
      /\ EffectiveSettled(b, item) = SumThrough(n, PaidBy(b, item), Share(b, item))
      /\ EffectiveSettled(b2, item) = SumThrough(Len(b2.journal), PaidBy(b2, item), Share(b2, item))
  BY ZenonT(60), PaidIs
<1>r. \A e : Reversed(b2, e) <=> Reversed(b, e) \/ x.reverses = e
  BY Zenon, ReversedOneMore
<1> HIDE DEF n
<1>2. n + 1 \notin PaidBy(b2, item)
  BY <1>1, <1>p
<1>3. ASSUME NEW e \in 1 .. n, e \in PaidBy(b2, item)
      PROVE  e \in PaidBy(b, item) /\ Share(b2, item)[e] = Share(b, item)[e] /\ Share(b, item)[e] \in Nat
  BY <1>1, <1>3, <1>p, <1>r
<1>4. \A e \in 1 .. n : e \in PaidBy(b, item) => Share(b, item)[e] \in Nat
  BY Zenon, <1>p
<1>5. SumThrough(n, PaidBy(b2, item), Share(b2, item)) = SumThrough(n, PaidBy(b2, item), Share(b, item))
  <2>1. \A e \in 1 .. n : /\ e \in PaidBy(b2, item) <=> e \in PaidBy(b2, item)
                          /\ e \in PaidBy(b2, item) => Share(b2, item)[e] = Share(b, item)[e]
    BY Zenon, <1>3
  <2>s. Alike(n, PaidBy(b2, item), Share(b2, item), PaidBy(b2, item), Share(b, item))
    BY ONLY <1>1, <2>1, Zenon DEF Alike
  <2>t. n \in Nat
    BY ONLY <1>1, SMT
  <2> QED BY ONLY <2>s, <2>t, OverSame, SMT
<1>6. SumThrough(n, PaidBy(b2, item), Share(b, item)) <= SumThrough(n, PaidBy(b, item), Share(b, item))
      /\ SumThrough(n, PaidBy(b2, item), Share(b, item)) \in Nat
  BY ONLY <1>1, <1>3, <1>4, OverLess, SMT
<1>7. SumThrough(n + 1, PaidBy(b2, item), Share(b2, item)) = SumThrough(n, PaidBy(b2, item), Share(b2, item)) + 0
  BY ONLY <1>1, <1>2, OverNext, SMT
<1>8. EffectiveSettled(b, item) = SumThrough(n, PaidBy(b, item), Share(b, item))
      /\ EffectiveSettled(b2, item) = SumThrough(n + 1, PaidBy(b2, item), Share(b2, item))
  BY <1>1, <1>p
<1> QED BY <1>5, <1>6, <1>7, <1>8

\* What a payment adds.
LEMMA SettledMore ==
  ASSUME NEW b, NEW b2, NEW x, BookFine(b), BookFine(b2), OneMore(b.journal, b2.journal, x),
         NEW item, item \in DOMAIN x.pays, x.reverses = 0
  PROVE  EffectiveSettled(b2, item) = EffectiveSettled(b, item) + x.pays[item]
<1> DEFINE n == Len(b.journal)
<1>1. n \in Nat /\ Len(b2.journal) = n + 1 /\ b2.journal[n + 1] = x /\ n + 1 \in 1 .. (n + 1)
      /\ \A e \in 1 .. n : b2.journal[e] = b.journal[e] /\ e # 0 /\ e \in 1 .. (n + 1)
  BY EventsAre DEF OneMore
<1>p. /\ \A p : p \in PaidBy(b, item) <=> p \in 1 .. n /\ item \in DOMAIN b.journal[p].pays /\ ~Reversed(b, p)
      /\ \A p : p \in PaidBy(b2, item) <=> p \in 1 .. Len(b2.journal) /\ item \in DOMAIN b2.journal[p].pays /\ ~Reversed(b2, p)
      /\ \A p \in PaidBy(b, item) : Share(b, item)[p] = b.journal[p].pays[item]
      /\ \A p \in PaidBy(b2, item) : Share(b2, item)[p] = b2.journal[p].pays[item]
      /\ EffectiveSettled(b, item) = SumThrough(n, PaidBy(b, item), Share(b, item))
      /\ EffectiveSettled(b2, item) = SumThrough(Len(b2.journal), PaidBy(b2, item), Share(b2, item))
  BY ZenonT(60), PaidIs
<1>r. (\A e : Reversed(b2, e) <=> Reversed(b, e) \/ x.reverses = e) /\ ~Reversed(b, n + 1)
  BY Zenon, ReversedOneMore
<1> HIDE DEF n
<1>2. n + 1 \in PaidBy(b2, item) /\ Share(b2, item)[n + 1] = x.pays[item]
  BY <1>1, <1>p, <1>r
<1>3. ASSUME NEW e \in 1 .. n
      PROVE  /\ e \in PaidBy(b2, item) <=> e \in PaidBy(b, item)
             /\ e \in PaidBy(b2, item) => Share(b2, item)[e] = Share(b, item)[e]
  <2>1. Reversed(b2, e) <=> Reversed(b, e)
    BY <1>1, <1>r
  <2>2. e \in PaidBy(b2, item) <=> e \in PaidBy(b, item)
    BY <1>1, <2>1, <1>p
  <2>3. ASSUME e \in PaidBy(b2, item) PROVE Share(b2, item)[e] = Share(b, item)[e]
    BY <1>1, <2>2, <2>3, <1>p
  <2> QED BY <2>2, <2>3
<1>5. SumThrough(n, PaidBy(b2, item), Share(b2, item)) = SumThrough(n, PaidBy(b, item), Share(b, item))
  <2>s. Alike(n, PaidBy(b2, item), Share(b2, item), PaidBy(b, item), Share(b, item))
    BY ONLY <1>1, <1>3, Zenon DEF Alike
  <2>t. n \in Nat
    BY ONLY <1>1, SMT
  <2> QED BY ONLY <2>s, <2>t, OverSame, SMT
<1>7. SumThrough(n + 1, PaidBy(b2, item), Share(b2, item)) = SumThrough(n, PaidBy(b2, item), Share(b2, item)) + x.pays[item]
  BY ONLY <1>1, <1>2, OverNext, SMT
<1>8. EffectiveSettled(b, item) = SumThrough(n, PaidBy(b, item), Share(b, item))
      /\ EffectiveSettled(b2, item) = SumThrough(n + 1, PaidBy(b2, item), Share(b2, item))
  BY <1>1, <1>p
<1> QED BY Zenon, <1>5, <1>7, <1>8

\* Nothing is paid on what is not in the journal yet.
LEMMA NothingPaidAhead ==
  ASSUME NEW b, BookFine(b), NEW item, ~(item[1] \in 1 .. Len(b.journal)) PROVE EffectiveSettled(b, item) = 0
<1> DEFINE n == Len(b.journal)
<1>1. n \in Nat
  BY EventsAre
<1>2. ASSUME NEW p \in 1 .. n PROVE p \notin PaidBy(b, item)
  <2> SUFFICES ASSUME p \in PaidBy(b, item) PROVE FALSE
    OBVIOUS
  <2>1. item \in DOMAIN b.journal[p].pays
    BY Zenon, PaidIs
  <2>2. item[1] \in 1 .. (p - 1)
    BY Zenon, <2>1 DEF BookFine, EntryFine
  <2> QED BY <1>1, <2>2
<1>3. SumThrough(n, PaidBy(b, item), Share(b, item)) = SumThrough(0, PaidBy(b, item), Share(b, item))
  <2>1. 0 \in 0 .. n
    BY <1>1
  <2>2. \A e \in 1 .. n : e \in PaidBy(b, item) => e <= 0 /\ Share(b, item)[e] \in Int
    BY Zenon, <1>2
  <2> HIDE DEF n
  <2> QED BY ONLY <1>1, <2>1, <2>2, OverCut, SMT
<1>4. SumThrough(0, PaidBy(b, item), Share(b, item)) = 0
  BY Zenon, <1>1, OverNext
<1> QED BY Zenon, <1>3, <1>4, PaidIs

-----------------------------------------------------------------------------
(* Lots. *)

\* The sales of a lot that stand.
Standing(b, l) == {d \in Events(b) : b.journal[d].kind = "sell" /\ b.journal[d].lot = l /\ ~Reversed(b, d)}
Quantities(b) == [d \in Events(b) |-> b.journal[d].quantity]
Amounts(b) == [d \in Events(b) |-> b.journal[d].amount]

\* What is so of a lot at any time: its sales through any event have their share.
LotFine(b, l) ==
  /\ SumThrough(Len(b.journal), Standing(b, l), Quantities(b)) <= b.journal[l].quantity
  /\ Reversed(b, l) => Standing(b, l) = {}
  /\ ~SoldBehindReversal(b, l) =>
       \A k \in 0 .. Len(b.journal) :
         SumThrough(k, Standing(b, l), Amounts(b))
           = (b.journal[l].amount * SumThrough(k, Standing(b, l), Quantities(b))) \div b.journal[l].quantity
LotsFine(b) == \A l \in 1 .. Len(b.journal) : b.journal[l].kind = "buy" => LotFine(b, l)

\* Nothing sold takes nothing of the cost.
LEMMA NoShare == \A q \in Nat : q > 0 => 0 \div q = 0
  OBVIOUS
\* Everything sold takes the whole cost.
LEMMA WholeShare == ASSUME NEW a \in Nat, NEW q \in Nat, q > 0 PROVE (a * q) \div q = a
<1> DEFINE r == (a * q) \div q
<1>1. r \in Int /\ q * r <= a * q /\ a * q < q * r + q
  OBVIOUS
<1> QED BY <1>1

\* A sale that stands, by its fields.
LEMMA StandingIs ==
  ASSUME NEW b, BookFine(b), NEW l
  PROVE  \A d : d \in Standing(b, l) <=> /\ d \in 1 .. Len(b.journal) /\ b.journal[d].kind = "sell"
                                         /\ b.journal[d].lot = l /\ ~Reversed(b, d)
BY Zenon, EventsAre DEF Standing

\* Quantities and amounts, by event.
LEMMA WorthIs ==
  ASSUME NEW b, BookFine(b)
  PROVE  \A d \in 1 .. Len(b.journal) : Quantities(b)[d] = b.journal[d].quantity /\ Amounts(b)[d] = b.journal[d].amount
BY Zenon, EventsAre DEF Quantities, Amounts

\* By the last day every reversal counts.
LEMMA ReversedByLast ==
  ASSUME NEW b, BookFine(b), MaxDay \in Nat PROVE \A d : ReversedBy(b, d, MaxDay) <=> Reversed(b, d)
<1>1. Events(b) = 1 .. Len(b.journal)
  BY EventsAre
<1>2. \A e \in Events(b) : b.journal[e].day \in 0 .. MaxDay
  BY Zenon, <1>1 DEF BookFine, EntryFine
<1>3. \A e \in Events(b) : b.journal[e].day <= MaxDay
  BY <1>2
<1> QED BY Zenon, <1>3 DEF ReversedBy, Reversed

\* By the last day the disposals that count are the sales that stand.
LEMMA DisposalsAre ==
  ASSUME NEW b, BookFine(b), NEW l, MaxDay \in Nat PROVE Disposals(b, l, MaxDay) = Standing(b, l)
<1>1. Events(b) = 1 .. Len(b.journal)
  BY EventsAre
<1>2. \A e \in Events(b) : b.journal[e].day \in 0 .. MaxDay
  BY ZenonT(60), <1>1 DEF BookFine, EntryFine
<1>3. \A e \in Events(b) : b.journal[e].day <= MaxDay
  BY <1>2
<1>4. \A d : ReversedBy(b, d, MaxDay) <=> Reversed(b, d)
  BY Zenon, ReversedByLast
<1> QED BY Zenon, <1>3, <1>4 DEF Disposals, Standing

\* What is gone of a lot, as sums.
LEMMA GoneIs ==
  ASSUME NEW b, BookFine(b), NEW l, NEW day
  PROVE  /\ UnitsGone(b, l, day) = SumThrough(Len(b.journal), Disposals(b, l, day), Quantities(b))
         /\ CostGone(b, l, day) = SumThrough(Len(b.journal), Disposals(b, l, day), Amounts(b))
BY Zenon, SumOverIs DEF UnitsGone, CostGone, Quantities, Amounts

\* From what is so at any time, what is promised.
LEMMA LotsAreRight ==
  ASSUME NEW b, BookFine(b), LotsFine(b), MaxDay \in Nat PROVE LotsRight(b)
<1>1. Events(b) = 1 .. Len(b.journal) /\ Len(b.journal) \in Nat
  BY EventsAre
<1>2. SUFFICES ASSUME NEW l \in 1 .. Len(b.journal), b.journal[l].kind = "buy"
               PROVE  /\ UnitsGone(b, l, MaxDay) <= b.journal[l].quantity
                      /\ Reversed(b, l) => Disposals(b, l, MaxDay) = {}
                      /\ ~SoldBehindReversal(b, l) => CostShared(b, l)
  BY Zenon, <1>1 DEF LotsRight
<1>3. LotFine(b, l)
  BY Zenon, <1>2 DEF LotsFine
<1>4. /\ UnitsGone(b, l, MaxDay) = SumThrough(Len(b.journal), Standing(b, l), Quantities(b))
      /\ CostGone(b, l, MaxDay) = SumThrough(Len(b.journal), Standing(b, l), Amounts(b))
      /\ Disposals(b, l, MaxDay) = Standing(b, l)
  BY Zenon, GoneIs, DisposalsAre
<1>5. Len(b.journal) \in 0 .. Len(b.journal)
  BY <1>1
<1> QED BY Zenon, <1>3, <1>4, <1>5 DEF LotFine, CostShared

\* A sale put behind a reversal stays behind it.
LEMMA SoldBehindStays ==
  ASSUME NEW b, NEW b2, NEW x, BookFine(b), OneMore(b.journal, b2.journal, x), NEW l, SoldBehindReversal(b, l)
  PROVE  SoldBehindReversal(b2, l)
<1>1. Len(b.journal) \in Nat /\ Events(b) = 1 .. Len(b.journal) /\ Events(b) \subseteq Events(b2)
  BY EventsAre, EventsOneMore
<1>2. PICK s, r :
        /\ s \in Events(b) /\ r \in 1 .. (s - 1)
        /\ b.journal[s].kind = "sell" /\ b.journal[s].lot = l
        /\ b.journal[r].reverses # 0 /\ b.journal[b.journal[r].reverses].kind = "sell"
        /\ b.journal[b.journal[r].reverses].lot = l /\ b.journal[s].day < b.journal[r].day
  BY Zenon DEF SoldBehindReversal
<1>3. r \in 1 .. Len(b.journal)
  BY <1>1, <1>2
<1>4. EntryFine(b.journal, r)
  BY Zenon, <1>3 DEF BookFine
<1>5. b.journal[r].reverses \in 1 .. Len(b.journal)
  BY <1>1, <1>2, <1>3, <1>4 DEF EntryFine
<1>6. b2.journal[s] = b.journal[s] /\ b2.journal[r] = b.journal[r]
      /\ b2.journal[b.journal[r].reverses] = b.journal[b.journal[r].reverses]
  <2>1. s \in 1 .. Len(b.journal)
    BY Zenon, <1>1, <1>2
  <2> QED BY Zenon, <2>1, <1>3, <1>5 DEF OneMore
<1> QED BY Zenon, <1>1, <1>2, <1>6 DEF SoldBehindReversal

\* Sums through an old event depend on which old sales stand.
LEMMA ThroughOld ==
  ASSUME NEW b, NEW b2, NEW x, BookFine(b), BookFine(b2), OneMore(b.journal, b2.journal, x), NEW l,
         NEW k \in 0 .. Len(b.journal), \A d \in 1 .. k : d \in Standing(b2, l) <=> d \in Standing(b, l)
  PROVE  /\ SumThrough(k, Standing(b2, l), Quantities(b2)) = SumThrough(k, Standing(b, l), Quantities(b))
         /\ SumThrough(k, Standing(b2, l), Amounts(b2)) = SumThrough(k, Standing(b, l), Amounts(b))
<1> DEFINE n == Len(b.journal)
<1>1. n \in Nat /\ Len(b2.journal) = n + 1 /\ \A d \in 1 .. n : b2.journal[d] = b.journal[d]
  BY EventsAre DEF OneMore
<1>2. \A d \in 1 .. k : Quantities(b2)[d] = Quantities(b)[d] /\ Amounts(b2)[d] = Amounts(b)[d]
  <2>1. \A d \in 1 .. k : d \in 1 .. n /\ d \in 1 .. Len(b2.journal)
    BY <1>1
  <2> QED BY ZenonT(60), <1>1, <2>1, WorthIs
<1>3. k \in Nat
  BY <1>1
<1> HIDE DEF n
<1>4. \A d \in 1 .. k : /\ d \in Standing(b2, l) <=> d \in Standing(b, l)
                        /\ d \in Standing(b2, l) => Quantities(b2)[d] = Quantities(b)[d]
  BY Zenon, <1>2
<1>5. \A d \in 1 .. k : /\ d \in Standing(b2, l) <=> d \in Standing(b, l)
                        /\ d \in Standing(b2, l) => Amounts(b2)[d] = Amounts(b)[d]
  BY Zenon, <1>2
<1>6. SumThrough(k, Standing(b2, l), Quantities(b2)) = SumThrough(k, Standing(b, l), Quantities(b))
  <2>s. Alike(k, Standing(b2, l), Quantities(b2), Standing(b, l), Quantities(b))
    BY ONLY <1>3, <1>4, Zenon DEF Alike
  <2>t. k \in Nat
    BY ONLY <1>3, SMT
  <2> QED BY ONLY <2>s, <2>t, OverSame, SMT
<1>7. SumThrough(k, Standing(b2, l), Amounts(b2)) = SumThrough(k, Standing(b, l), Amounts(b))
  <2>s. Alike(k, Standing(b2, l), Amounts(b2), Standing(b, l), Amounts(b))
    BY ONLY <1>3, <1>5, Zenon DEF Alike
  <2>t. k \in Nat
    BY ONLY <1>3, SMT
  <2> QED BY ONLY <2>s, <2>t, OverSame, SMT
<1> QED BY <1>6, <1>7

\* The sums of a lot are numbers.
LEMMA LotTyped ==
  ASSUME NEW b, BookFine(b), NEW l, NEW k \in 0 .. Len(b.journal)
  PROVE  /\ SumThrough(k, Standing(b, l), Quantities(b)) \in Nat
         /\ SumThrough(k, Standing(b, l), Amounts(b)) \in Int
<1>1. Len(b.journal) \in Nat /\ k \in Nat /\ \A d \in 1 .. k : d \in 1 .. Len(b.journal)
  BY EventsAre
<1>w. \A d \in 1 .. Len(b.journal) : Quantities(b)[d] \in Nat /\ Amounts(b)[d] \in Int
  <2>1. \A d \in 1 .. Len(b.journal) : b.journal[d].quantity \in Nat /\ b.journal[d].amount \in Int
    BY Zenon DEF BookFine, EntryFine
  <2> QED BY WorthIs, <2>1
<1>2. \A d \in 1 .. k : d \in Standing(b, l) => Quantities(b)[d] \in Nat
  BY Zenon, <1>1, <1>w
<1>3. \A d \in 1 .. k : d \in Standing(b, l) => Amounts(b)[d] \in Int
  BY Zenon, <1>1, <1>w
<1>4. SumThrough(k, Standing(b, l), Quantities(b)) \in Nat
  BY ONLY <1>1, <1>2, OverNat, SMT
<1>5. SumThrough(k, Standing(b, l), Amounts(b)) \in Int
  BY ONLY <1>1, <1>3, OverTyped, SMT
<1> QED BY <1>4, <1>5

\* An entry that neither draws on a lot nor gives back to it.
LEMMA LotIdle ==
  ASSUME NEW b, NEW b2, NEW x, BookFine(b), BookFine(b2), OneMore(b.journal, b2.journal, x),
         NEW l \in 1 .. Len(b.journal), LotFine(b, l),
         x.kind = "sell" => x.lot # l, x.reverses \notin Standing(b, l), x.reverses = l => Standing(b, l) = {}
  PROVE  LotFine(b2, l)
<1> DEFINE n == Len(b.journal)
           A == Standing(b, l)   A2 == Standing(b2, l)
           Q == Quantities(b)    Q2 == Quantities(b2)
           M == Amounts(b)       M2 == Amounts(b2)
<1>1. n \in Nat /\ Len(b2.journal) = n + 1 /\ b2.journal[n + 1] = x /\ \A d \in 1 .. n : b2.journal[d] = b.journal[d]
  BY EventsAre DEF OneMore
<1>2. \A d : d \in A2 <=> d \in A
  <2>1. /\ \A d : d \in A2 <=> /\ d \in 1 .. Len(b2.journal) /\ b2.journal[d].kind = "sell"
                               /\ b2.journal[d].lot = l /\ ~Reversed(b2, d)
        /\ \A d : d \in A <=> /\ d \in 1 .. Len(b.journal) /\ b.journal[d].kind = "sell"
                              /\ b.journal[d].lot = l /\ ~Reversed(b, d)
    BY Zenon, StandingIs
  <2>2. \A e : Reversed(b2, e) <=> Reversed(b, e) \/ x.reverses = e
    BY Zenon, ReversedOneMore
  <2> HIDE DEF n, A, A2
  <2> QED BY SMTT(60), <1>1, <2>1, <2>2 DEF n, A
<1>3. /\ \A k \in 0 .. n : SumThrough(k, A2, Q2) = SumThrough(k, A, Q) /\ SumThrough(k, A2, M2) = SumThrough(k, A, M)
  <2> SUFFICES ASSUME NEW k \in 0 .. n PROVE SumThrough(k, A2, Q2) = SumThrough(k, A, Q) /\ SumThrough(k, A2, M2) = SumThrough(k, A, M)
    OBVIOUS
  <2>1. \A d \in 1 .. k : d \in A2 <=> d \in A
    BY Zenon, <1>2
  <2> QED BY ZenonT(60), <2>1, ThroughOld
<1>4. \A k \in 0 .. n : SumThrough(k, A, Q) \in Nat /\ SumThrough(k, A, M) \in Int
  BY Zenon, LotTyped
<1>5. n + 1 \notin A2
  <2>1. n + 1 \notin A
    <3>1. ~(n + 1 \in 1 .. n)
      BY <1>1
    <3> QED BY Zenon, <3>1, StandingIs
  <2> QED BY Zenon, <2>1, <1>2
<1>6. l \in 1 .. n /\ b2.journal[l] = b.journal[l]
  BY <1>1
<1>7. /\ SumThrough(n, A, Q) <= b.journal[l].quantity
      /\ Reversed(b, l) => A = {}
      /\ ~SoldBehindReversal(b, l) =>
           \A k \in 0 .. n : SumThrough(k, A, M) = (b.journal[l].amount * SumThrough(k, A, Q)) \div b.journal[l].quantity
  BY Zenon DEF LotFine
<1>8. Reversed(b2, l) => A2 = {}
  <2>1. Reversed(b2, l) => A = {}
    BY Zenon, <1>7, ReversedOneMore
  <2> HIDE DEF A, A2
  <2> QED BY <2>1, <1>2
<1>9. SoldBehindReversal(b, l) => SoldBehindReversal(b2, l)
  BY Zenon, SoldBehindStays
<1> HIDE DEF n, A, A2, Q, Q2, M, M2
<1>10. SumThrough(n + 1, A2, Q2) = SumThrough(n, A, Q) /\ SumThrough(n + 1, A2, M2) = SumThrough(n, A, M)
  <2>0. n \in 0 .. n
    BY <1>1
  <2>1. SumThrough(n + 1, A2, Q2) = SumThrough(n, A2, Q2) + 0
    BY ONLY <1>1, <1>5, OverNext, SMT
  <2>2. SumThrough(n + 1, A2, M2) = SumThrough(n, A2, M2) + 0
    BY ONLY <1>1, <1>5, OverNext, SMT
  <2> QED BY <2>0, <2>1, <2>2, <1>3, <1>4
<1>11. SumThrough(n + 1, A2, Q2) <= b2.journal[l].quantity
  BY <1>6, <1>7, <1>10
<1>12. ASSUME ~SoldBehindReversal(b2, l), NEW k \in 0 .. (n + 1)
       PROVE  SumThrough(k, A2, M2) = (b2.journal[l].amount * SumThrough(k, A2, Q2)) \div b2.journal[l].quantity
  <2>1. CASE k \in 0 .. n
    <3>1. SumThrough(k, A, M) = (b.journal[l].amount * SumThrough(k, A, Q)) \div b.journal[l].quantity
      BY Zenon, <1>7, <1>9, <1>12, <2>1
    <3>2. SumThrough(k, A2, M2) = SumThrough(k, A, M) /\ SumThrough(k, A2, Q2) = SumThrough(k, A, Q)
      BY Zenon, <1>3, <2>1
    <3> QED BY Zenon, <1>6, <3>1, <3>2
  <2>2. CASE k = n + 1
    <3>0. n \in 0 .. n
      BY <1>1
    <3>1. SumThrough(n, A, M) = (b.journal[l].amount * SumThrough(n, A, Q)) \div b.journal[l].quantity
      BY Zenon, <1>7, <1>9, <1>12, <3>0
    <3> QED BY Zenon, <1>6, <1>10, <2>2, <3>1
  <2>3. k \in 0 .. n \/ k = n + 1
    BY <1>1
  <2> QED BY Zenon, <2>1, <2>2, <2>3
<1> USE DEF n, A, A2, Q, Q2, M, M2
<1>13. Len(b2.journal) = n + 1
  BY <1>1
<1> QED BY Zenon, <1>8, <1>11, <1>12, <1>13 DEF LotFine

\* A purchase starts with nothing sold.
LEMMA LotNew ==
  ASSUME NEW b, NEW b2, NEW x, BookFine(b), BookFine(b2), OneMore(b.journal, b2.journal, x), x.kind = "buy"
  PROVE  LotFine(b2, Len(b.journal) + 1)
<1> DEFINE n == Len(b.journal)
           l == n + 1
           A2 == Standing(b2, l)
<1>1. n \in Nat /\ Len(b2.journal) = n + 1 /\ b2.journal[l] = x
  BY EventsAre DEF OneMore
<1>2. EntryFine(b2.journal, l)
  <2>1. l \in 1 .. Len(b2.journal)
    BY <1>1
  <2> QED BY Zenon, <2>1 DEF BookFine
<1>3. x.quantity \in Nat /\ x.quantity > 0 /\ x.amount \in Nat
  BY <1>1, <1>2 DEF EntryFine
<1>4. ASSUME NEW d \in A2 PROVE FALSE
  <2>1. d \in 1 .. Len(b2.journal) /\ b2.journal[d].kind = "sell" /\ b2.journal[d].lot = l
    <3>1. \A e : e \in Standing(b2, l) <=> /\ e \in 1 .. Len(b2.journal) /\ b2.journal[e].kind = "sell"
                                           /\ b2.journal[e].lot = l /\ ~Reversed(b2, e)
      BY Zenon, StandingIs
    <3> HIDE DEF l
    <3> QED BY <1>4, <3>1
  <2>3. EntryFine(b2.journal, d)
    BY Zenon, <2>1 DEF BookFine
  <2>4. b2.journal[d].lot \in 1 .. (d - 1)
    BY Zenon, <2>1, <2>3 DEF EntryFine
  <2> QED BY <1>1, <2>1, <2>4
<1>5. ASSUME NEW k \in 0 .. (n + 1), NEW a PROVE SumThrough(k, A2, a) = 0
  <2>1. k \in Nat /\ 0 \in 0 .. k
    BY <1>1
  <2>2. \A e \in 1 .. k : e \in A2 => e <= 0 /\ a[e] \in Int
    BY Zenon, <1>4
  <2> HIDE DEF A2, n
  <2>3. SumThrough(k, A2, a) = SumThrough(0, A2, a)
    BY ONLY <2>1, <2>2, OverCut, SMT
  <2>4. SumThrough(0, A2, a) = 0
    BY Zenon, <2>1, OverNext
  <2> QED BY <2>3, <2>4
<1>6. A2 = {}
  BY Zenon, <1>4
<1>7. n + 1 \in 0 .. (n + 1)
  BY <1>1
<1>8. (x.amount * 0) \div x.quantity = 0
  <2>1. x.amount * 0 = 0
    BY <1>3
  <2> QED BY Zenon, <1>3, <2>1, NoShare
<1> HIDE DEF A2, n, l
<1>9. SumThrough(n + 1, A2, Quantities(b2)) <= x.quantity
  BY <1>3, <1>5, <1>7
<1>10. \A k \in 0 .. (n + 1) : SumThrough(k, A2, Amounts(b2)) = (x.amount * SumThrough(k, A2, Quantities(b2))) \div x.quantity
  BY Zenon, <1>5, <1>8
<1> USE DEF A2, l
<1>11. LotFine(b2, l)
  BY Zenon, <1>1, <1>6, <1>9, <1>10 DEF LotFine
<1> QED BY Zenon, <1>11 DEF n

\* The cost of a sale is the difference of two shares.
LEMMA BasisShare ==
  ASSUME NEW a \in Nat, NEW q \in Nat, q > 0, NEW u \in Nat, NEW c \in Int, c = (a * u) \div q,
         NEW n \in Nat, NEW left \in Int, left = q - u, NEW kept \in Int, kept = a - c, NEW basis,
         n = left => basis = kept,
         n # left => basis = (a * (q - left + n)) \div q - (a - kept)
  PROVE  c + basis = (a * (u + n)) \div q
<1>1. CASE n = left
  <2>1. u + n = q /\ c + basis = a
    BY <1>1
  <2> QED BY Zenon, <2>1, WholeShare
<1>2. CASE n # left
  <2> DEFINE s == (a * (q - left + n)) \div q
  <2>1. q - left + n = u + n
    OBVIOUS
  <2>2. s = (a * (u + n)) \div q
    BY Zenon, <2>1
  <2>3. s \in Int
    OBVIOUS
  <2>4. basis = s - (a - kept)
    BY Zenon, <1>2
  <2> HIDE DEF s
  <2>5. c + basis = s
    BY <2>3, <2>4
  <2> QED BY Zenon, <2>2, <2>5
<1> QED BY <1>1, <1>2

\* What is left of a lot on a day, by what stands of its sales.
LEMMA LeftIs ==
  ASSUME NEW b, BookFine(b), NEW l, NEW day
  PROVE  /\ LotHeld(b, l, day) =>
              /\ UnitsLeft(b, l, day)
                   = b.journal[l].quantity - SumThrough(Len(b.journal), Disposals(b, l, day), Quantities(b))
              /\ CostLeft(b, l, day)
                   = b.journal[l].amount - SumThrough(Len(b.journal), Disposals(b, l, day), Amounts(b))
         /\ ~LotHeld(b, l, day) => UnitsLeft(b, l, day) = 0 /\ CostLeft(b, l, day) = 0
BY Zenon, GoneIs DEF UnitsLeft, CostLeft

\* So are they on any day.
LEMMA DisposalsTyped ==
  ASSUME NEW b, BookFine(b), NEW l, NEW day
  PROVE  /\ SumThrough(Len(b.journal), Disposals(b, l, day), Quantities(b)) \in Nat
         /\ SumThrough(Len(b.journal), Disposals(b, l, day), Amounts(b)) \in Int
<1>1. Len(b.journal) \in Nat
  BY EventsAre
<1>2. \A d \in 1 .. Len(b.journal) : b.journal[d].quantity \in Nat /\ b.journal[d].amount \in Int
  BY Zenon DEF BookFine, EntryFine
<1>3. \A d \in 1 .. Len(b.journal) : Quantities(b)[d] \in Nat /\ Amounts(b)[d] \in Int
  BY WorthIs, <1>2
<1>4. SumThrough(Len(b.journal), Disposals(b, l, day), Quantities(b)) \in Nat
  BY ONLY <1>1, <1>3, OverNat, SMT
<1>5. SumThrough(Len(b.journal), Disposals(b, l, day), Amounts(b)) \in Int
  BY ONLY <1>1, <1>3, OverTyped, SMT
<1> QED BY <1>4, <1>5

\* What is left of a lot and what a sale of it costs are numbers.
LEMMA BasisTyped ==
  ASSUME NEW b, BookFine(b), NEW l \in 1 .. Len(b.journal), b.journal[l].kind = "buy", NEW day,
         NEW n \in Nat
  PROVE  /\ UnitsLeft(b, l, day) \in Int /\ CostLeft(b, l, day) \in Int /\ Basis(b, l, n, day) \in Int
         /\ n = UnitsLeft(b, l, day) => Basis(b, l, n, day) = CostLeft(b, l, day)
         /\ n # UnitsLeft(b, l, day) =>
              Basis(b, l, n, day)
                = (b.journal[l].amount * (b.journal[l].quantity - UnitsLeft(b, l, day) + n)) \div b.journal[l].quantity
                    - (b.journal[l].amount - CostLeft(b, l, day))
<1>1. EntryFine(b.journal, l)
  BY Zenon DEF BookFine
<1>2. b.journal[l].quantity \in Nat /\ b.journal[l].quantity > 0 /\ b.journal[l].amount \in Nat
  BY <1>1 DEF EntryFine
<1>3. UnitsLeft(b, l, day) \in Int /\ CostLeft(b, l, day) \in Int
  BY SMTT(60), <1>2, LeftIs, DisposalsTyped
<1>4. /\ n = UnitsLeft(b, l, day) => Basis(b, l, n, day) = CostLeft(b, l, day)
      /\ n # UnitsLeft(b, l, day) =>
           Basis(b, l, n, day)
             = (b.journal[l].amount * (b.journal[l].quantity - UnitsLeft(b, l, day) + n)) \div b.journal[l].quantity
                 - (b.journal[l].amount - CostLeft(b, l, day))
  BY Zenon DEF Basis
<1>5. Basis(b, l, n, day) \in Int
  BY SMTT(60), <1>2, <1>3, <1>4
<1> QED BY Zenon, <1>3, <1>4, <1>5

\* A sale x that is admitted in b, of the lot l.
IsSale(b, l, x) ==
  /\ x.kind = "sell" /\ x.lot = l /\ x.reverses = 0
  /\ UnitsLeft(b, l, x.day) = UnitsLeft(b, l, MaxDay) /\ x.quantity <= UnitsLeft(b, l, x.day)
  /\ x.amount = Basis(b, l, x.quantity, x.day)
IsLot(b, l) == l \in 1 .. Len(b.journal) /\ b.journal[l].kind = "buy"

\* A sale that is admitted keeps its lot fine.
LEMMA LotSold ==
  ASSUME NEW b, NEW b2, NEW x, BookFine(b), BookFine(b2), OneMore(b.journal, b2.journal, x),
         NEW l, IsLot(b, l), LotFine(b, l), MaxDay \in Nat, IsSale(b, l, x)
  PROVE  LotFine(b2, l)
<1> DEFINE n == Len(b.journal)
           A == Standing(b, l)   A2 == Standing(b2, l)   D == Disposals(b, l, x.day)
           Q == Quantities(b)    Q2 == Quantities(b2)
           M == Amounts(b)       M2 == Amounts(b2)
           bought == b.journal[l].quantity    cost == b.journal[l].amount
<1>1. n \in Nat /\ Len(b2.journal) = n + 1 /\ b2.journal[n + 1] = x /\ \A d \in 1 .. n : b2.journal[d] = b.journal[d]
  BY EventsAre DEF OneMore
<1>2. /\ bought \in Nat /\ bought > 0 /\ cost \in Nat
      /\ x.quantity \in Nat /\ x.quantity > 0 /\ x.day \in Nat
  <2>1. EntryFine(b.journal, l) /\ b.journal[l].kind = "buy"
    BY Zenon DEF BookFine, IsLot
  <2>2. EntryFine(b2.journal, n + 1)
    <3>1. n + 1 \in 1 .. Len(b2.journal)
      BY <1>1
    <3> QED BY Zenon, <3>1 DEF BookFine
  <2> QED BY <1>1, <2>1, <2>2 DEF EntryFine, IsSale
<1>3. /\ UnitsLeft(b, l, x.day) \in Int /\ UnitsLeft(b, l, MaxDay) \in Int /\ CostLeft(b, l, x.day) \in Int
      /\ x.amount \in Int
      /\ x.quantity = UnitsLeft(b, l, x.day) => x.amount = CostLeft(b, l, x.day)
      /\ x.quantity # UnitsLeft(b, l, x.day) =>
           x.amount = (cost * (bought - UnitsLeft(b, l, x.day) + x.quantity)) \div bought
                        - (cost - CostLeft(b, l, x.day))
  <2>1. x.quantity \in Nat
    BY <1>2
  <2>2. UnitsLeft(b, l, MaxDay) \in Int
    BY Zenon, <2>1, BasisTyped DEF IsLot
  <2>3. /\ UnitsLeft(b, l, x.day) \in Int /\ CostLeft(b, l, x.day) \in Int /\ Basis(b, l, x.quantity, x.day) \in Int
        /\ x.quantity = UnitsLeft(b, l, x.day) => Basis(b, l, x.quantity, x.day) = CostLeft(b, l, x.day)
        /\ x.quantity # UnitsLeft(b, l, x.day) =>
             Basis(b, l, x.quantity, x.day) = (cost * (bought - UnitsLeft(b, l, x.day) + x.quantity)) \div bought
                                                - (cost - CostLeft(b, l, x.day))
    BY Zenon, <2>1, BasisTyped DEF IsLot
  <2> QED BY Zenon, <2>2, <2>3 DEF IsSale
<1>4. LotHeld(b, l, x.day) /\ LotHeld(b, l, MaxDay)
  <2>1. UnitsLeft(b, l, x.day) # 0 /\ UnitsLeft(b, l, MaxDay) # 0
    BY <1>2, <1>3 DEF IsSale
  <2> QED BY ZenonT(60), <2>1, LeftIs
<1>5. Disposals(b, l, MaxDay) = A
  BY Zenon, DisposalsAre
<1>6. /\ UnitsLeft(b, l, x.day) = bought - SumThrough(n, D, Q) /\ CostLeft(b, l, x.day) = cost - SumThrough(n, D, M)
      /\ UnitsLeft(b, l, MaxDay) = bought - SumThrough(n, A, Q)
  BY Zenon, <1>4, <1>5, LeftIs
<1>7. ~Reversed(b, l)
  BY Zenon, <1>4, ReversedByLast DEF LotHeld
<1>8. /\ SumThrough(n, D, Q) \in Nat /\ SumThrough(n, D, M) \in Int
      /\ \A k \in 0 .. n : SumThrough(k, A, Q) \in Nat /\ SumThrough(k, A, M) \in Int
  BY Zenon, LotTyped, DisposalsTyped
<1>9. n \in 0 .. n
  BY <1>1
<1>10. SumThrough(n, D, Q) = SumThrough(n, A, Q)
  <2>1. SumThrough(n, A, Q) \in Nat /\ SumThrough(n, D, Q) \in Nat
    BY Zenon, <1>8, <1>9
  <2>2. bought - SumThrough(n, D, Q) = bought - SumThrough(n, A, Q)
    BY Zenon, <1>6 DEF IsSale
  <2> HIDE DEF n, A, D, Q, bought
  <2> QED BY <1>2, <2>1, <2>2
<1>11. /\ \A d : d \in A2 <=> d \in A \/ d = n + 1
       /\ n + 1 \notin A
  <2>1. /\ \A d : d \in A2 <=> /\ d \in 1 .. Len(b2.journal) /\ b2.journal[d].kind = "sell"
                               /\ b2.journal[d].lot = l /\ ~Reversed(b2, d)
        /\ \A d : d \in A <=> /\ d \in 1 .. Len(b.journal) /\ b.journal[d].kind = "sell"
                              /\ b.journal[d].lot = l /\ ~Reversed(b, d)
    BY Zenon, StandingIs
  <2>2. (\A e : Reversed(b2, e) <=> Reversed(b, e) \/ x.reverses = e) /\ ~Reversed(b, n + 1)
    BY Zenon, ReversedOneMore
  <2> HIDE DEF n, A, A2
  <2>3. l \in 1 .. n /\ x.kind = "sell" /\ x.lot = l /\ x.reverses = 0
    BY Zenon DEF IsSale, IsLot, n
  <2> HIDE DEF n
  <2>4. Len(b.journal) = n
    BY DEF n
  <2>5. ASSUME NEW d PROVE d \in A2 <=> d \in A \/ d = n + 1
    <3>1. CASE d = n + 1
      BY <3>1, <1>1, <2>1, <2>2, <2>3, <2>4
    <3>2. CASE d # n + 1
      <4>1. d \in 1 .. Len(b2.journal) <=> d \in 1 .. n
        BY <1>1, <3>2
      <4>2. d \in 1 .. n => d # 0 /\ b2.journal[d] = b.journal[d]
        BY <1>1
      <4> QED BY Zenon, <2>1, <2>2, <2>3, <2>4, <3>2, <4>1, <4>2
    <3> QED BY <3>1, <3>2
  <2>6. n + 1 \notin A
    BY <1>1, <2>1, <2>4
  <2> QED BY Zenon, <2>5, <2>6
<1>12. \A k \in 0 .. n : SumThrough(k, A2, Q2) = SumThrough(k, A, Q) /\ SumThrough(k, A2, M2) = SumThrough(k, A, M)
  <2> SUFFICES ASSUME NEW k \in 0 .. n PROVE SumThrough(k, A2, Q2) = SumThrough(k, A, Q) /\ SumThrough(k, A2, M2) = SumThrough(k, A, M)
    OBVIOUS
  <2>1. \A d \in 1 .. k : d # n + 1
    BY <1>1
  <2>2. \A d \in 1 .. k : d \in A2 <=> d \in A
    BY Zenon, <1>11, <2>1
  <2> QED BY ZenonT(60), <2>2, ThroughOld
<1>13. Q2[n + 1] = x.quantity /\ M2[n + 1] = x.amount
  <2>1. n + 1 \in 1 .. Len(b2.journal)
    BY <1>1
  <2> QED BY Zenon, <1>1, <2>1, WorthIs
<1>14. b2.journal[l] = b.journal[l]
  BY <1>1 DEF IsLot
<1>15. /\ SumThrough(n, A, Q) <= bought
       /\ ~SoldBehindReversal(b, l) => \A k \in 0 .. n : SumThrough(k, A, M) = (cost * SumThrough(k, A, Q)) \div bought
  BY Zenon DEF LotFine
<1>16. ~Reversed(b2, l)
  <2>1. x.reverses # l
    BY <1>1 DEF IsSale, IsLot
  <2> QED BY Zenon, <1>7, <2>1, ReversedOneMore
<1>17. SoldBehindReversal(b, l) => SoldBehindReversal(b2, l)
  BY Zenon, SoldBehindStays
<1>18. ASSUME ~SoldBehindReversal(b2, l) PROVE \A d \in 1 .. n : d \in D <=> d \in A
  <2>1. ASSUME NEW d \in D PROVE d \in A
    <3>1. d \in 1 .. n /\ b.journal[d].kind = "sell" /\ b.journal[d].lot = l /\ ~ReversedBy(b, d, x.day)
      BY Zenon, EventsAre DEF Disposals
    <3>2. ASSUME NEW r \in 1 .. n, b.journal[r].reverses = d PROVE FALSE
      <4>1. b.journal[r].day \in Nat
        <5>1. b.journal[r].day \in 0 .. MaxDay
          BY Zenon DEF BookFine, EntryFine
        <5> QED BY <5>1
      <4>2. ~(b.journal[r].day <= x.day)
        BY Zenon, <3>1, <3>2, EventsAre DEF ReversedBy
      <4>3. x.day < b.journal[r].day
        BY <1>2, <4>1, <4>2
      <4>4. /\ n + 1 \in Events(b2) /\ r \in 1 .. ((n + 1) - 1) /\ d # 0
            /\ b2.journal[r] = b.journal[r] /\ b2.journal[d] = b.journal[d]
        <5>1. n + 1 \in Events(b2)
          BY Zenon, <1>1, EventsOneMore
        <5> QED BY <1>1, <3>1, <5>1
      <4>5. SoldBehindReversal(b2, l)
        BY ZenonT(60), <1>1, <3>1, <3>2, <4>3, <4>4 DEF SoldBehindReversal, IsSale
      <4> QED BY <1>18, <4>5
    <3>3. ~Reversed(b, d)
      BY Zenon, <3>2, EventsAre DEF Reversed
    <3> QED BY Zenon, <3>1, <3>3, StandingIs
  <2>2. \A d \in 1 .. n : d \in A => Q[d] \in Nat /\ Q[d] > 0
    <3>1. \A d \in 1 .. n : b.journal[d].kind = "sell" => b.journal[d].quantity \in Nat /\ b.journal[d].quantity > 0
      BY DEF BookFine, EntryFine
    <3>2. \A d \in A : d \in 1 .. n /\ b.journal[d].kind = "sell"
      <4>1. \A d : d \in A <=> /\ d \in 1 .. Len(b.journal) /\ b.journal[d].kind = "sell"
                               /\ b.journal[d].lot = l /\ ~Reversed(b, d)
        BY Zenon, StandingIs
      <4> HIDE DEF A
      <4> QED BY <4>1
    <3>3. \A d \in 1 .. n : Q[d] = b.journal[d].quantity
      BY Zenon, WorthIs
    <3> QED BY Zenon, <3>1, <3>2, <3>3
  <2>3. \A d \in 1 .. n : d \in D => d \in A
    BY Zenon, <2>1
  <2>4. \A d \in 1 .. n : d \in A => d \in D
    <3> HIDE DEF n, A, D, Q
    <3>1. /\ \A d \in 1 .. n : d \in A => Q[d] \in Nat
          /\ \A d \in 1 .. n : d \in A => Q[d] > 0
      BY Zenon, <2>2
    <3>2. \A d \in 1 .. n : d \in D => d \in A
      BY Zenon, <2>3
    <3>3. SumThrough(n, D, Q) = SumThrough(n, A, Q)
      BY Zenon, <1>10
    <3>4. n \in Nat
      BY <1>1
    <3> QED BY ONLY <3>1, <3>2, <3>3, <3>4, OverLess, SMT
  <2> QED BY Zenon, <2>3, <2>4
<1> HIDE DEF n, A, A2, D, Q, Q2, M, M2, bought, cost
<1>19. SumThrough(n + 1, A2, Q2) = SumThrough(n, A, Q) + x.quantity /\ SumThrough(n + 1, A2, M2) = SumThrough(n, A, M) + x.amount
  <2>1. SumThrough(n + 1, A2, Q2) = SumThrough(n, A2, Q2) + x.quantity
    BY ONLY <1>1, <1>11, <1>13, OverNext, SMT
  <2>2. SumThrough(n + 1, A2, M2) = SumThrough(n, A2, M2) + x.amount
    BY ONLY <1>1, <1>11, <1>13, OverNext, SMT
  <2> QED BY Zenon, <1>9, <1>12, <2>1, <2>2
<1>20. SumThrough(n + 1, A2, Q2) <= bought
  <2>1. SumThrough(n, A, Q) \in Nat
    BY Zenon, <1>8, <1>9
  <2>2. UnitsLeft(b, l, x.day) = bought - SumThrough(n, A, Q)
    BY Zenon, <1>6, <1>10
  <2>3. x.quantity <= UnitsLeft(b, l, x.day)
    BY DEF IsSale
  <2>4. bought - SumThrough(n, A, Q) \in Int /\ SumThrough(n, A, Q) + x.quantity <= bought
    BY <1>2, <2>1, <2>2, <2>3
  <2> QED BY Zenon, <1>19, <2>4
<1>21. ASSUME ~SoldBehindReversal(b2, l), NEW k \in 0 .. (n + 1)
       PROVE  SumThrough(k, A2, M2) = (cost * SumThrough(k, A2, Q2)) \div bought
  <2>0. \A i \in 0 .. n : SumThrough(i, A, M) = (cost * SumThrough(i, A, Q)) \div bought
    BY Zenon, <1>15, <1>17, <1>21
  <2>1. CASE k \in 0 .. n
    <3>1. SumThrough(k, A2, M2) = SumThrough(k, A, M) /\ SumThrough(k, A2, Q2) = SumThrough(k, A, Q)
      BY Zenon, <1>12, <2>1
    <3> QED BY Zenon, <2>0, <2>1, <3>1
  <2>2. CASE k = n + 1
    <3>1. SumThrough(n, D, M) = SumThrough(n, A, M)
      <4>1. \A d \in 1 .. n : /\ d \in D <=> d \in A
                              /\ d \in D => M[d] = M[d]
        BY Zenon, <1>18, <1>21
      <4>s. Alike(n, D, M, A, M)
        BY ONLY <1>1, <4>1, Zenon DEF Alike
      <4>t. n \in Nat
        BY ONLY <1>1, SMT
      <4> QED BY ONLY <4>s, <4>t, OverSame, SMT
    <3>2. SumThrough(n, A, M) = (cost * SumThrough(n, A, Q)) \div bought
      BY Zenon, <1>9, <2>0
    <3>3. /\ UnitsLeft(b, l, x.day) = bought - SumThrough(n, A, Q) /\ CostLeft(b, l, x.day) = cost - SumThrough(n, A, M)
          /\ SumThrough(n, A, Q) \in Nat /\ SumThrough(n, A, M) \in Int
      BY Zenon, <1>6, <1>8, <1>9, <1>10, <3>1
    <3>4. SumThrough(n, A, M) + x.amount = (cost * (SumThrough(n, A, Q) + x.quantity)) \div bought
      <4> DEFINE u == SumThrough(n, A, Q)    c == SumThrough(n, A, M)
                 left == UnitsLeft(b, l, x.day)    kept == CostLeft(b, l, x.day)
      <4>1. /\ u \in Nat /\ c \in Int /\ left = bought - u /\ kept = cost - c
            /\ c = (cost * u) \div bought /\ left \in Int /\ kept \in Int
            /\ bought \in Nat /\ bought > 0 /\ cost \in Nat /\ x.quantity \in Nat
            /\ x.quantity = left => x.amount = kept
            /\ x.quantity # left => x.amount = (cost * (bought - left + x.quantity)) \div bought - (cost - kept)
        BY Zenon, <1>2, <1>3, <3>2, <3>3
      <4> HIDE DEF u, c, left, kept
      <4>2. c + x.amount = (cost * (u + x.quantity)) \div bought
        BY ONLY <4>1, BasisShare, SMTT(60)
      <4> QED BY Zenon, <4>2 DEF u, c
    <3> QED BY Zenon, <1>19, <2>2, <3>4
  <2>3. k \in 0 .. n \/ k = n + 1
    BY <1>1
  <2> QED BY Zenon, <2>1, <2>2, <2>3
<1> USE DEF n, A, A2, Q, Q2, M, M2, bought, cost
<1>22. Len(b2.journal) = n + 1
  BY <1>1
<1> QED BY Zenon, <1>14, <1>16, <1>20, <1>21, <1>22 DEF LotFine

\* The reversal x of a sale of the lot l, the last that stands.
IsReturn(b, l, x) ==
  /\ x.kind = "reversal" /\ x.reverses \in Standing(b, l)
  /\ \A d \in Standing(b, l) : d <= x.reverses

\* So does the reversal of the last sale that stands.
LEMMA LotReturned ==
  ASSUME NEW b, NEW b2, NEW x, BookFine(b), BookFine(b2), OneMore(b.journal, b2.journal, x),
         NEW l, IsLot(b, l), LotFine(b, l), IsReturn(b, l, x)
  PROVE  LotFine(b2, l)
<1> DEFINE n == Len(b.journal)
           v == x.reverses
           A == Standing(b, l)   A2 == Standing(b2, l)
           Q == Quantities(b)    Q2 == Quantities(b2)
           M == Amounts(b)       M2 == Amounts(b2)
           bought == b.journal[l].quantity    cost == b.journal[l].amount
<1>1. n \in Nat /\ Len(b2.journal) = n + 1 /\ b2.journal[n + 1] = x /\ \A d \in 1 .. n : b2.journal[d] = b.journal[d]
  BY EventsAre DEF OneMore
<1>2. /\ \A d : d \in A2 <=> /\ d \in 1 .. Len(b2.journal) /\ b2.journal[d].kind = "sell"
                             /\ b2.journal[d].lot = l /\ ~Reversed(b2, d)
      /\ \A d : d \in A <=> /\ d \in 1 .. Len(b.journal) /\ b.journal[d].kind = "sell"
                            /\ b.journal[d].lot = l /\ ~Reversed(b, d)
  BY Zenon, StandingIs
<1>3. \A e : Reversed(b2, e) <=> Reversed(b, e) \/ v = e
  BY Zenon, ReversedOneMore
<1>4. x.kind = "reversal" /\ v \in A /\ \A d \in A : d <= v
  BY Zenon DEF IsReturn
<1>5. l \in 1 .. n /\ b.journal[l].kind = "buy"
  BY Zenon DEF IsLot
<1>6. /\ SumThrough(n, A, Q) <= bought
      /\ Reversed(b, l) => A = {}
      /\ ~SoldBehindReversal(b, l) => \A k \in 0 .. n : SumThrough(k, A, M) = (cost * SumThrough(k, A, Q)) \div bought
  BY Zenon DEF LotFine
<1>7. SoldBehindReversal(b, l) => SoldBehindReversal(b2, l)
  BY Zenon, SoldBehindStays
<1>8. bought \in Nat
  <2>1. EntryFine(b.journal, l)
    BY Zenon, <1>5 DEF BookFine
  <2> QED BY <2>1 DEF EntryFine
<1>9. \A d \in 1 .. (n + 1) : Q2[d] \in Nat /\ M2[d] \in Int
  <2>1. \A d \in 1 .. Len(b2.journal) : b2.journal[d].quantity \in Nat /\ b2.journal[d].amount \in Int
    BY Zenon DEF BookFine, EntryFine
  <2>2. \A d \in 1 .. Len(b2.journal) : Q2[d] \in Nat /\ M2[d] \in Int
    BY WorthIs, <2>1
  <2> QED BY Zenon, <2>2, <1>1
<1>10. \A k \in 0 .. n : SumThrough(k, A, Q) \in Nat
  BY Zenon, LotTyped
<1>11. \A d \in 1 .. n : Q[d] \in Nat
  <2>1. \A d \in 1 .. n : b.journal[d].quantity \in Nat
    BY Zenon DEF BookFine, EntryFine
  <2> QED BY WorthIs, <2>1
<1>n. Len(b.journal) = n
  OBVIOUS
<1> HIDE DEF n, v, A, A2, Q, Q2, M, M2, bought, cost
<1>12. v \in 1 .. n /\ b.journal[v].kind = "sell" /\ b.journal[v].lot = l
  BY <1>2, <1>4, <1>n
<1>13. \A d : d \in A2 <=> d \in A /\ d # v
  <2> TAKE d
  <2>1. CASE d = n + 1
    BY <2>1, <1>1, <1>2, <1>4, <1>n
  <2>2. CASE d # n + 1
    <3>1. d \in 1 .. Len(b2.journal) <=> d \in 1 .. n
      BY <1>1, <2>2
    <3>2. d \in 1 .. n => b2.journal[d] = b.journal[d]
      BY <1>1
    <3> QED BY Zenon, <1>2, <1>3, <1>n, <2>2, <3>1, <3>2
  <2> QED BY <2>1, <2>2
<1>14. \A d \in A2 : d \in 1 .. n /\ d < v
  BY <1>1, <1>2, <1>4, <1>12, <1>13, <1>n
<1>15. ASSUME NEW k \in 0 .. n, k < v
       PROVE  SumThrough(k, A2, Q2) = SumThrough(k, A, Q) /\ SumThrough(k, A2, M2) = SumThrough(k, A, M)
  <2>1. \A d \in 1 .. k : d # v
    BY <1>12, <1>15
  <2>2. \A d \in 1 .. k : d \in A2 <=> d \in A
    BY Zenon, <1>13, <2>1
  <2> USE DEF A, A2, Q, Q2, M, M2
  <2>3. k \in 0 .. Len(b.journal)
    BY Zenon, <1>n
  <2> QED BY ZenonT(60), <2>2, <2>3, ThroughOld
<1>16. ASSUME NEW k \in 0 .. (n + 1), k >= v
       PROVE  SumThrough(k, A2, Q2) = SumThrough(v - 1, A2, Q2) /\ SumThrough(k, A2, M2) = SumThrough(v - 1, A2, M2)
  <2>1. v - 1 \in 0 .. k /\ k \in Nat /\ \A d \in 1 .. k : d \in 1 .. (n + 1)
    BY <1>1, <1>12, <1>16
  <2>2. \A d \in 1 .. k : d \in A2 => d <= v - 1
    BY <1>12, <1>14
  <2>3. \A d \in 1 .. k : d \in A2 => d <= v - 1 /\ Q2[d] \in Int
    BY <1>9, <2>1, <2>2
  <2>4. \A d \in 1 .. k : d \in A2 => d <= v - 1 /\ M2[d] \in Int
    BY <1>9, <2>1, <2>2
  <2>5. SumThrough(k, A2, Q2) = SumThrough(v - 1, A2, Q2)
    BY ONLY <2>1, <2>3, OverCut, SMT
  <2>6. SumThrough(k, A2, M2) = SumThrough(v - 1, A2, M2)
    BY ONLY <2>1, <2>4, OverCut, SMT
  <2> QED BY <2>5, <2>6
\* What holds through k holds of the old sums through some older event.
<1>17. ASSUME NEW k \in 0 .. (n + 1)
       PROVE  \E m \in 0 .. n : SumThrough(k, A2, Q2) = SumThrough(m, A, Q) /\ SumThrough(k, A2, M2) = SumThrough(m, A, M) /\ m < v
  <2>1. CASE k < v
    <3>1. k \in 0 .. n
      BY <1>1, <1>12, <2>1
    <3> QED BY Zenon, <1>15, <2>1, <3>1
  <2>2. CASE k >= v
    <3>1. v - 1 \in 0 .. n /\ v - 1 < v
      BY <1>1, <1>12
    <3> QED BY Zenon, <1>15, <1>16, <2>2, <3>1
  <2>3. k < v \/ k >= v
    BY <1>1, <1>12
  <2> QED BY Zenon, <2>1, <2>2, <2>3
<1>18. ASSUME NEW m \in 0 .. n, m < v PROVE SumThrough(m, A, Q) <= SumThrough(n, A, Q)
  <2> DEFINE B == {d \in A : d <= m}
  <2>1. n \in Nat /\ m \in Nat /\ m \in 0 .. n
    BY <1>1
  <2>2. \A d \in 1 .. n : d \in A => Q[d] \in Nat
    BY Zenon, <1>11
  <2>3. \A d \in 1 .. n : d \in B => d \in A
    OBVIOUS
  <2>4. \A d \in 1 .. n : d \in B => d <= m /\ Q[d] \in Int
    BY <1>11
  <2>5. \A d \in 1 .. m : /\ d \in B <=> d \in A
                          /\ d \in B => Q[d] = Q[d]
    OBVIOUS
  <2> HIDE DEF B
  <2>6. SumThrough(n, B, Q) <= SumThrough(n, A, Q)
    BY ONLY <2>1, <2>2, <2>3, OverLess, SMT
  <2>7. SumThrough(n, B, Q) = SumThrough(m, B, Q)
    BY ONLY <2>1, <2>4, OverCut, SMT
  <2>8. SumThrough(m, B, Q) = SumThrough(m, A, Q)
    <3>s. Alike(m, B, Q, A, Q)
      BY ONLY <2>1, <2>5, Zenon DEF Alike
    <3>t. m \in Nat
      BY ONLY <2>1, SMT
    <3> QED BY ONLY <3>s, <3>t, OverSame, SMT
  <2> QED BY Zenon, <2>6, <2>7, <2>8
<1>19. SumThrough(n + 1, A2, Q2) <= bought
  <2>1. n + 1 \in 0 .. (n + 1) /\ n \in 0 .. n
    BY <1>1
  <2>2. PICK m \in 0 .. n : SumThrough(n + 1, A2, Q2) = SumThrough(m, A, Q) /\ m < v
    BY Zenon, <2>1, <1>17
  <2>3. SumThrough(m, A, Q) <= SumThrough(n, A, Q) /\ SumThrough(m, A, Q) \in Nat /\ SumThrough(n, A, Q) \in Nat
    BY Zenon, <2>1, <2>2, <1>10, <1>18
  <2>4. SumThrough(m, A, Q) <= bought
    BY <2>3, <1>6, <1>8
  <2> QED BY Zenon, <2>2, <2>4
<1>20. ASSUME ~SoldBehindReversal(b2, l), NEW k \in 0 .. (n + 1)
       PROVE  SumThrough(k, A2, M2) = (cost * SumThrough(k, A2, Q2)) \div bought
  <2>1. PICK m \in 0 .. n : SumThrough(k, A2, Q2) = SumThrough(m, A, Q) /\ SumThrough(k, A2, M2) = SumThrough(m, A, M)
    BY Zenon, <1>17
  <2>2. SumThrough(m, A, M) = (cost * SumThrough(m, A, Q)) \div bought
    BY Zenon, <1>6, <1>7, <1>20
  <2> QED BY Zenon, <2>1, <2>2
<1>21. ~Reversed(b2, l)
  <2>1. v # l
    BY <1>5, <1>12
  <2>2. ~Reversed(b, l)
    BY <1>4, <1>6
  <2> QED BY Zenon, <1>3, <2>1, <2>2
<1>22. b2.journal[l] = b.journal[l]
  BY <1>1, <1>5
<1> USE DEF A, A2, Q, Q2, M, M2, bought, cost
<1> QED BY Zenon, <1>1, <1>19, <1>20, <1>21, <1>22 DEF LotFine

-----------------------------------------------------------------------------
(* Posting. *)

PaysWithin(b, x) ==
  \A item \in DOMAIN x.pays :
    item \in Items(b) /\ ~Reversed(b, item[1]) /\ x.pays[item] + EffectiveSettled(b, item) <= ItemAmount(b, item)
\* What x reverses, if anything, has nothing settled on it.
Frees(b, x) ==
  x.reverses # 0 => DOMAIN x.pays = {} /\ \A item \in Items(b) : item[1] = x.reverses => EffectiveSettled(b, item) = 0
PaysWhatItHas(x) == x.kind = "payment" => Settles(x.pays) <= x.amount

\* The installments after one entry more.
LEMMA ItemsOneMore ==
  ASSUME NEW b, NEW b2, NEW x, BookFine(b), BookFine(b2), OneMore(b.journal, b2.journal, x),
         NEW item \in Items(b2)
  PROVE  /\ item[1] \in 1 .. (Len(b.journal) + 1) /\ item[1] # 0 /\ ItemAmount(b2, item) \in Nat
         /\ item[1] \in 1 .. Len(b.journal) => item \in Items(b) /\ ItemAmount(b2, item) = ItemAmount(b, item)
         /\ item[1] = Len(b.journal) + 1 => x.kind = "bill"
<1> DEFINE n == Len(b.journal)   bill == b2.journal[item[1]]
<1>1. n \in Nat /\ Events(b) = 1 .. n /\ Events(b2) = 1 .. (n + 1) /\ Len(b2.journal) = n + 1
      /\ b2.journal[n + 1] = x /\ \A d \in 1 .. n : b2.journal[d] = b.journal[d]
  BY EventsAre, EventsOneMore DEF OneMore
<1>2. item \in Events(b2) \X (1 .. 3) /\ bill.kind = "bill" /\ item[2] <= bill.count
  BY Zenon DEF Items
<1>3. item[1] \in 1 .. (n + 1) /\ item[2] \in 1 .. 3 /\ item[1] # 0
  BY <1>1, <1>2
<1>4. EntryFine(b2.journal, item[1])
  BY Zenon, <1>1, <1>3 DEF BookFine
<1>5. bill.amount \in Nat /\ bill.count \in {1, 2, 3}
  BY <1>2, <1>4 DEF EntryFine
<1>6. \A a \in Nat, c \in {1, 2, 3}, i \in 1 .. 3 : Installment(a, c, i) \in Nat
  BY DEF Installment
<1>7. ItemAmount(b2, item) \in Nat
  BY Zenon, <1>3, <1>5, <1>6 DEF ItemAmount
<1>8. ASSUME item[1] \in 1 .. n PROVE item \in Items(b) /\ ItemAmount(b2, item) = ItemAmount(b, item)
  <2>1. bill = b.journal[item[1]]
    BY Zenon, <1>1, <1>8
  <2>2. item \in Events(b) \X (1 .. 3)
    BY <1>1, <1>2, <1>8
  <2> QED BY Zenon, <1>2, <2>1, <2>2 DEF Items, ItemAmount
<1>9. item[1] = n + 1 => x.kind = "bill"
  BY Zenon, <1>1, <1>2
<1> QED BY Zenon, <1>3, <1>7, <1>8, <1>9

\* An entry that pays within, or frees, what it touches keeps the settlements within.
LEMMA SettledStep ==
  ASSUME NEW b, NEW b2, NEW x, BookFine(b), BookFine(b2), OneMore(b.journal, b2.journal, x),
         SettledWithin(b), PaysWithin(b, x), Frees(b, x), PaysWhatItHas(x)
  PROVE  SettledWithin(b2)
<1> DEFINE n == Len(b.journal)
<1>1. n \in Nat /\ Events(b) = 1 .. n /\ Events(b2) = Events(b) \cup {n + 1} /\ n + 1 \notin Events(b)
      /\ b2.journal[n + 1] = x /\ \A d \in 1 .. n : b2.journal[d] = b.journal[d]
  BY EventsAre, EventsOneMore DEF OneMore
<1>r. (\A e : Reversed(b2, e) <=> Reversed(b, e) \/ x.reverses = e) /\ ~Reversed(b, n + 1)
  BY Zenon, ReversedOneMore
<1>2. ASSUME NEW e \in Events(b2), b2.journal[e].kind = "payment"
      PROVE  Settles(b2.journal[e].pays) <= b2.journal[e].amount
  <2>1. CASE e \in Events(b)
    <3>1. b2.journal[e] = b.journal[e]
      BY Zenon, <1>1, <2>1
    <3> QED BY Zenon, <1>2, <2>1, <3>1 DEF SettledWithin
  <2>2. CASE e = n + 1
    BY Zenon, <1>1, <1>2, <2>2 DEF PaysWhatItHas
  <2> QED BY Zenon, <1>1, <2>1, <2>2
<1>3. ASSUME NEW item \in Items(b2)
      PROVE  EffectiveSettled(b2, item) <= IF Reversed(b2, item[1]) THEN 0 ELSE ItemAmount(b2, item)
  <2>1. /\ item[1] \in 1 .. (n + 1) /\ item[1] # 0 /\ ItemAmount(b2, item) \in Nat
        /\ item[1] \in 1 .. n => item \in Items(b) /\ ItemAmount(b2, item) = ItemAmount(b, item)
    BY Zenon, ItemsOneMore
  <2>2. EffectiveSettled(b2, item) \in Nat /\ EffectiveSettled(b, item) \in Nat
    BY Zenon, PaidIs
  <2>3. CASE item \in DOMAIN x.pays
    <3>1. /\ item \in Items(b) /\ ~Reversed(b, item[1])
          /\ x.pays[item] + EffectiveSettled(b, item) <= ItemAmount(b, item)
      BY Zenon, <2>3 DEF PaysWithin
    <3>2. item[1] \in 1 .. n
      <4>1. item \in Events(b) \X (1 .. 3)
        BY Zenon, <3>1 DEF Items
      <4> QED BY <1>1, <4>1
    <3>3. x.reverses = 0
      BY <2>3 DEF Frees
    <3>4. EffectiveSettled(b2, item) = EffectiveSettled(b, item) + x.pays[item]
      BY ONLY BookFine(b), BookFine(b2), OneMore(b.journal, b2.journal, x), <2>3, <3>3, SettledMore, SMT
    <3>5. ~Reversed(b2, item[1])
      BY Zenon, <1>r, <2>1, <3>1, <3>3
    <3>6. x.pays[item] \in Nat
      <4>1. EntryFine(b2.journal, n + 1)
        <5>1. n + 1 \in 1 .. Len(b2.journal)
          BY <1>1 DEF OneMore
        <5> QED BY Zenon, <5>1 DEF BookFine
      <4> QED BY Zenon, <1>1, <2>3, <4>1 DEF EntryFine
    <3>7. EffectiveSettled(b2, item) <= ItemAmount(b2, item)
      BY <2>1, <2>2, <3>1, <3>2, <3>4, <3>6
    <3> QED BY Zenon, <3>5, <3>7
  <2>4. CASE item \notin DOMAIN x.pays
    <3>1. EffectiveSettled(b2, item) <= EffectiveSettled(b, item)
      BY Zenon, <2>4, SettledLess
    <3>2. CASE item[1] = n + 1
      <4>1. ~(item[1] \in 1 .. n)
        BY <1>1, <3>2
      <4>2. EffectiveSettled(b, item) = 0
        BY Zenon, <4>1, NothingPaidAhead
      <4>3. EffectiveSettled(b2, item) <= 0 /\ EffectiveSettled(b2, item) <= ItemAmount(b2, item)
        BY <2>1, <2>2, <3>1, <4>2
      <4> QED BY Zenon, <4>3
    <3>3. CASE item[1] \in 1 .. n
      <4>1. item \in Items(b) /\ ItemAmount(b2, item) = ItemAmount(b, item)
        BY Zenon, <2>1, <3>3
      <4>2. EffectiveSettled(b, item) <= IF Reversed(b, item[1]) THEN 0 ELSE ItemAmount(b, item)
        BY Zenon, <4>1 DEF SettledWithin
      <4>3. CASE Reversed(b, item[1])
        <5>1. EffectiveSettled(b, item) <= 0 /\ Reversed(b2, item[1])
          BY Zenon, <1>r, <4>2, <4>3
        <5>2. EffectiveSettled(b2, item) <= 0
          BY <2>2, <3>1, <5>1
        <5> QED BY Zenon, <5>1, <5>2
      <4>4. CASE ~Reversed(b, item[1]) /\ x.reverses = item[1]
        <5>1. EffectiveSettled(b, item) = 0 /\ Reversed(b2, item[1])
          BY Zenon, <1>r, <2>1, <4>1, <4>4 DEF Frees
        <5>2. EffectiveSettled(b2, item) <= 0
          BY <2>2, <3>1, <5>1
        <5> QED BY Zenon, <5>1, <5>2
      <4>5. CASE ~Reversed(b, item[1]) /\ x.reverses # item[1]
        <5>1. EffectiveSettled(b, item) <= ItemAmount(b, item) /\ ~Reversed(b2, item[1])
          BY Zenon, <1>r, <4>2, <4>5
        <5>2. EffectiveSettled(b2, item) <= ItemAmount(b2, item)
          BY <2>1, <2>2, <3>1, <4>1, <5>1
        <5> QED BY Zenon, <5>1, <5>2
      <4> QED BY Zenon, <4>3, <4>4, <4>5
    <3>4. item[1] = n + 1 \/ item[1] \in 1 .. n
      BY <1>1, <2>1
    <3> QED BY Zenon, <3>2, <3>3, <3>4
  <2> QED BY Zenon, <2>3, <2>4
<1> QED BY Zenon, <1>2, <1>3 DEF SettledWithin

\* What happens to lots when x is added.
LotTouched(b, x) ==
  /\ x.kind = "sell" => IsLot(b, x.lot) /\ IsSale(b, x.lot, x)
  /\ \A l \in 1 .. Len(b.journal) :
       b.journal[l].kind = "buy" =>
         /\ x.reverses = l => Standing(b, l) = {}
         /\ x.reverses \in Standing(b, l) => IsReturn(b, l, x)

\* An entry that touches lots as it may keeps them fine.
LEMMA LotsStep ==
  ASSUME NEW b, NEW b2, NEW x, BookFine(b), BookFine(b2), OneMore(b.journal, b2.journal, x),
         LotsFine(b), LotTouched(b, x), MaxDay \in Nat
  PROVE  LotsFine(b2)
<1> SUFFICES ASSUME NEW l \in 1 .. Len(b2.journal), b2.journal[l].kind = "buy" PROVE LotFine(b2, l)
  BY Zenon DEF LotsFine
<1> DEFINE n == Len(b.journal)
<1>1. n \in Nat /\ Len(b2.journal) = n + 1 /\ b2.journal[n + 1] = x /\ \A d \in 1 .. n : b2.journal[d] = b.journal[d]
  BY EventsAre DEF OneMore
<1>2. CASE l = n + 1
  <2>1. x.kind = "buy"
    BY Zenon, <1>1, <1>2
  <2> QED BY Zenon, <1>2, <2>1, LotNew
<1>3. CASE l \in 1 .. n
  <2>1. b.journal[l].kind = "buy"
    BY Zenon, <1>1, <1>3
  <2>2. LotFine(b, l) /\ IsLot(b, l)
    BY Zenon, <1>3, <2>1 DEF LotsFine, IsLot
  <2>3. /\ x.kind = "sell" => IsSale(b, x.lot, x)
        /\ x.reverses = l => Standing(b, l) = {}
        /\ x.reverses \in Standing(b, l) => IsReturn(b, l, x)
    BY Zenon, <1>3, <2>1 DEF LotTouched
  <2>4. CASE x.reverses \in Standing(b, l)
    BY Zenon, <2>2, <2>3, <2>4, LotReturned
  <2>5. CASE x.reverses \notin Standing(b, l) /\ (x.kind = "sell" => x.lot # l)
    BY Zenon, <1>3, <2>2, <2>3, <2>5, LotIdle
  <2>6. CASE x.kind = "sell" /\ x.lot = l
    <3>1. IsSale(b, l, x)
      BY Zenon, <2>3, <2>6
    <3> QED BY Zenon, <2>2, <3>1, LotSold
  <2> QED BY Zenon, <2>4, <2>5, <2>6
<1>4. l = n + 1 \/ l \in 1 .. n
  BY <1>1
<1> QED BY Zenon, <1>2, <1>3, <1>4

Distinct(b) == \A d, e \in Events(b) : b.journal[d].occurrence = b.journal[e].occurrence => d = e
BookInv(b) == BookFine(b) /\ Distinct(b) /\ SettledWithin(b) /\ LotsFine(b)

\* The entries are those of b and others, which the key posted in open periods.
Grew(b, b2, key) ==
  /\ \A e \in Events(b) : e \in Events(b2) /\ b2.journal[e] = b.journal[e]
  /\ \A e \in Events(b2) \ Events(b) : b2.journal[e].key = key /\ b2.journal[e].day > b.closed

\* An entry x that may be added to b.
MayAdd(b, x, key) ==
  /\ PaysWithin(b, x) /\ Frees(b, x) /\ PaysWhatItHas(x) /\ LotTouched(b, x)
  /\ \A e \in Events(b) : b.journal[e].occurrence # x.occurrence
  /\ x.key = key /\ x.day > b.closed

\* An entry that may be added keeps the books right.
LEMMA BookAdded ==
  ASSUME NEW b, NEW b2, NEW x, NEW key, BookInv(b), OneMore(b.journal, b2.journal, x), DOMAIN b2 = BookFields,
         EntryFine(b2.journal, Len(b.journal) + 1), MayAdd(b, x, key), MaxDay \in Nat
  PROVE  BookInv(b2) /\ Grew(b, b2, key)
<1> DEFINE n == Len(b.journal)
<1>0. BookFine(b) /\ Distinct(b) /\ SettledWithin(b) /\ LotsFine(b)
  BY Zenon DEF BookInv
<1>1. BookFine(b2)
  BY Zenon, <1>0, BookFineKept
<1>2. /\ PaysWithin(b, x) /\ Frees(b, x) /\ PaysWhatItHas(x) /\ LotTouched(b, x)
      /\ \A e \in Events(b) : b.journal[e].occurrence # x.occurrence
      /\ x.key = key /\ x.day > b.closed
  BY Zenon DEF MayAdd
<1>3. SettledWithin(b2) /\ LotsFine(b2)
  BY Zenon, <1>0, <1>1, <1>2, SettledStep, LotsStep
<1>4. Events(b2) = Events(b) \cup {n + 1} /\ n + 1 \notin Events(b) /\ b2.journal[n + 1] = x
      /\ \A e \in Events(b) : b2.journal[e] = b.journal[e]
  <2>1. Events(b) = 1 .. n
    BY Zenon, <1>0, EventsAre
  <2> QED BY Zenon, <1>0, <2>1, EventsOneMore DEF OneMore
<1> HIDE DEF n
<1>5. ASSUME NEW d \in Events(b2), NEW e \in Events(b2), b2.journal[d].occurrence = b2.journal[e].occurrence
      PROVE  d = e
  <2>1. CASE d \in Events(b) /\ e \in Events(b)
    BY Zenon, <1>0, <1>4, <1>5, <2>1 DEF Distinct
  <2>2. CASE d = n + 1 /\ e \in Events(b)
    BY <1>2, <1>4, <1>5, <2>2
  <2>3. CASE d \in Events(b) /\ e = n + 1
    BY <1>2, <1>4, <1>5, <2>3
  <2>4. CASE d = n + 1 /\ e = n + 1
    BY <2>4
  <2> QED BY Zenon, <1>4, <2>1, <2>2, <2>3, <2>4
<1>6. Distinct(b2)
  BY Zenon, <1>5 DEF Distinct
<1>7. Grew(b, b2, key)
  <2>1. \A e \in Events(b) : e \in Events(b2) /\ b2.journal[e] = b.journal[e]
    BY Zenon, <1>4
  <2>2. \A e \in Events(b2) \ Events(b) : b2.journal[e].key = key /\ b2.journal[e].day > b.closed
    BY <1>2, <1>4
  <2> QED BY Zenon, <2>1, <2>2 DEF Grew
<1> QED BY Zenon, <1>1, <1>3, <1>6, <1>7, <1>0 DEF BookInv

\* What a posted command says.
LEMMA PostSays ==
  ASSUME NEW b, NEW c, IsPost(c), CommandAdmitted(b, c)
  PROVE  /\ MayBook(b, c.day) /\ NewOccurrence(b, c)
         /\ c.operation = "payment" => AllocationsFit(b, c)
         /\ c.operation = "sell" => MaySell(b, c)
<1>1. c.operation \in Posts
  BY Zenon DEF IsPost
<1> QED BY <1>1 DEF CommandAdmitted, Posts

\* The entry made of a post.
EntryOf(b, key, c) ==
  IF c.operation = "sell" THEN [Entry(key, c) EXCEPT !.amount = Basis(b, c.lot, c.quantity, c.day)] ELSE Entry(key, c)

\* The fields of an entry.
LEMMA EntrySays ==
  ASSUME NEW b, NEW key, NEW c, NEW x, x = EntryOf(b, key, c)
  PROVE  /\ DOMAIN x = EntryFields /\ x.key = key /\ x.kind = c.operation /\ x.day = c.day
         /\ x.occurrence = Named(c.occurrence) /\ x.count = c.count /\ x.quantity = c.quantity /\ x.lot = c.lot
         /\ x.reverses = 0 /\ x.account = c.account /\ x.pays = c.pays
         /\ c.operation # "sell" => x.amount = c.amount
         /\ c.operation = "sell" => x.amount = Basis(b, c.lot, c.quantity, c.day)
BY DEF EntryOf, Entry, EntryFields

\* A post adds its entry.
LEMMA AppliedPost ==
  ASSUME NEW b, BookFine(b), NEW key, NEW c, IsPost(c)
  PROVE  /\ OneMore(b.journal, Applied(b, key, c).journal, EntryOf(b, key, c))
         /\ DOMAIN Applied(b, key, c) = BookFields /\ Applied(b, key, c).closed = b.closed
<1>1. c.operation \in Posts
  BY Zenon DEF IsPost
<1> DEFINE next == [b EXCEPT !.revision = @ + 1]
           x == EntryOf(b, key, c)
<1>2. Applied(b, key, c) = [next EXCEPT !.journal = Append(@, x)]
  <2>1. CASE c.operation = "sell"
    BY <2>1 DEF Applied, EntryOf
  <2>2. CASE c.operation # "sell"
    BY <1>1, <2>2 DEF Applied, EntryOf, Posts
  <2> QED BY <2>1, <2>2
<1>3. DOMAIN next = BookFields /\ next.journal = b.journal /\ next.closed = b.closed
  BY DEF BookFine, BookFields
<1> HIDE DEF next, x
<1>4. /\ Applied(b, key, c).journal = Append(b.journal, x) /\ DOMAIN Applied(b, key, c) = BookFields
      /\ Applied(b, key, c).closed = b.closed
  BY <1>2, <1>3 DEF BookFields
<1>5. OneMore(b.journal, Append(b.journal, x), x)
  BY Zenon, AppendOneMore DEF BookFine
<1> QED BY Zenon, <1>4, <1>5 DEF x

\* A post that is admitted keeps the books right.
LEMMA PostKeeps ==
  ASSUME NEW b, BookInv(b), NEW key, NEW c, IsPost(c), CommandAdmitted(b, c), today \in 1 .. MaxDay, MaxDay \in Nat
  PROVE  /\ BookInv(Applied(b, key, c)) /\ Grew(b, Applied(b, key, c), key)
         /\ Applied(b, key, c).closed = b.closed
         /\ \A e \in Events(Applied(b, key, c)) \ Events(b) : Applied(b, key, c).journal[e].account = c.account
<1> DEFINE n == Len(b.journal)   x == EntryOf(b, key, c)   b2 == Applied(b, key, c)
<1>0. BookFine(b)
  BY Zenon DEF BookInv
<1>1. /\ OneMore(b.journal, b2.journal, x) /\ DOMAIN b2 = BookFields /\ b2.closed = b.closed
  BY Zenon, <1>0, AppliedPost
<1>2. /\ MayBook(b, c.day) /\ NewOccurrence(b, c)
      /\ c.operation = "payment" => AllocationsFit(b, c)
      /\ c.operation = "sell" => MaySell(b, c)
  BY Zenon, PostSays
<1>3. /\ DOMAIN x = EntryFields /\ x.key = key /\ x.kind = c.operation /\ x.day = c.day
      /\ x.occurrence = Named(c.occurrence) /\ x.count = c.count /\ x.quantity = c.quantity /\ x.lot = c.lot
      /\ x.reverses = 0 /\ x.account = c.account /\ x.pays = c.pays
      /\ c.operation # "sell" => x.amount = c.amount
      /\ c.operation = "sell" => x.amount = Basis(b, c.lot, c.quantity, c.day)
  BY ONLY EntrySays, SMT
<1>4. /\ c.operation \in Posts /\ c.day \in Nat /\ c.amount \in Nat /\ c.quantity \in Nat /\ c.lot \in Nat
      /\ c.count \in 1 .. 3
      /\ c.operation \in {"buy", "sell"} => c.quantity > 0
      /\ \A item \in DOMAIN c.pays : c.pays[item] \in Nat
      /\ c.operation # "payment" => DOMAIN c.pays = {}
  BY DEF IsPost
<1>5. n \in Nat /\ Events(b) = 1 .. n
  BY Zenon, <1>0, EventsAre
<1>6. b2.journal[n + 1] = x /\ \A i \in 1 .. n : b2.journal[i] = b.journal[i]
  BY Zenon, <1>1 DEF OneMore
<1>n. n = Len(b.journal)
  OBVIOUS
<1> HIDE DEF n, x, b2
<1>7. c.day \in 0 .. MaxDay /\ c.day > b.closed
  BY <1>2, <1>4 DEF MayBook
<1>8. ASSUME c.operation = "sell"
      PROVE  /\ c.lot \in 1 .. n /\ b.journal[c.lot].kind = "buy"
             /\ Basis(b, c.lot, c.quantity, c.day) \in Int
             /\ UnitsLeft(b, c.lot, c.day) = UnitsLeft(b, c.lot, MaxDay)
             /\ c.quantity <= UnitsLeft(b, c.lot, c.day)
  <2>1. MaySell(b, c)
    BY Zenon, <1>2, <1>8
  <2>2. c.lot \in 1 .. n /\ b.journal[c.lot].kind = "buy"
        /\ UnitsLeft(b, c.lot, c.day) = UnitsLeft(b, c.lot, MaxDay) /\ c.quantity <= UnitsLeft(b, c.lot, c.day)
    BY Zenon, <1>5, <2>1 DEF MaySell
  <2>3. Basis(b, c.lot, c.quantity, c.day) \in Int
    BY Zenon, <1>0, <1>4, <1>n, <2>2, BasisTyped
  <2> QED BY Zenon, <2>2, <2>3
<1>9. ASSUME NEW item \in DOMAIN c.pays
      PROVE  /\ c.operation = "payment" /\ c.pays[item] \in Nat
             /\ item \in Items(b) /\ ~Reversed(b, item[1]) /\ item[1] \in 1 .. n
             /\ c.pays[item] + EffectiveSettled(b, item) <= ItemAmount(b, item)
  <2>1. c.operation = "payment" /\ c.pays[item] \in Nat
    BY <1>4
  <2>2. AllocationsFit(b, c)
    BY Zenon, <1>2, <2>1
  <2>3. /\ item \in Items(b) /\ ~Reversed(b, item[1])
        /\ c.pays[item] + EffectiveSettled(b, item) <= ItemAmount(b, item)
    BY Zenon, <2>2 DEF AllocationsFit
  <2>4. item \in Events(b) \X (1 .. 3)
    BY Zenon, <2>3 DEF Items
  <2>5. item[1] \in 1 .. n
    BY <1>5, <2>4
  <2> QED BY Zenon, <2>1, <2>3, <2>5
<1>10. EntryFine(b2.journal, n + 1)
  <2>1. /\ DOMAIN x = EntryFields
        /\ x.kind \in Posts \cup {"reversal"} /\ x.day \in 0 .. MaxDay /\ x.count \in 1 .. 3
        /\ x.kind # "reversal"
    BY <1>3, <1>4, <1>7 DEF Posts
  <2>2. x.amount \in Int /\ (x.kind \in {"bill", "buy"} => x.amount \in Nat)
        /\ x.quantity \in Nat /\ (x.kind \in {"buy", "sell"} => x.quantity > 0)
    BY <1>3, <1>4, <1>8
  <2>3. x.kind = "sell" => x.lot \in 1 .. ((n + 1) - 1) /\ b2.journal[x.lot].kind = "buy"
    BY <1>3, <1>5, <1>6, <1>8
  <2>4. x.reverses = 0 /\ \E o : x.occurrence = Named(o)
    BY Zenon, <1>3
  <2>5. \A item \in DOMAIN x.pays : x.kind = "payment" /\ x.pays[item] \in Nat /\ item[1] \in 1 .. ((n + 1) - 1)
    BY <1>3, <1>5, <1>9
  <2> QED BY Zenon, <1>6, <2>1, <2>2, <2>3, <2>4, <2>5 DEF EntryFine
<1>11. PaysWithin(b, x)
  BY Zenon, <1>3, <1>9 DEF PaysWithin
<1>12. Frees(b, x)
  BY Zenon, <1>3 DEF Frees
<1>13. PaysWhatItHas(x)
  <2> SUFFICES ASSUME x.kind = "payment" PROVE Settles(x.pays) <= x.amount
    BY Zenon DEF PaysWhatItHas
  <2>1. c.operation = "payment" /\ c.operation # "sell"
    BY <1>3
  <2>2. Settles(c.pays) <= c.amount
    BY Zenon, <1>2, <2>1 DEF AllocationsFit
  <2>3. x.pays = c.pays /\ x.amount = c.amount
    BY Zenon, <1>3, <2>1
  <2> QED BY Zenon, <2>2, <2>3
<1>14. LotTouched(b, x)
  <2>1. x.kind = "sell" => IsLot(b, x.lot) /\ IsSale(b, x.lot, x)
    <3> SUFFICES ASSUME x.kind = "sell" PROVE IsLot(b, x.lot) /\ IsSale(b, x.lot, x)
      OBVIOUS
    <3>1. c.operation = "sell"
      BY <1>3
    <3>2. IsLot(b, c.lot)
      BY Zenon, <1>8, <1>n, <3>1 DEF IsLot
    <3>3. x.amount = Basis(b, c.lot, c.quantity, c.day) /\ x.kind = "sell" /\ x.lot = c.lot /\ x.reverses = 0
          /\ x.day = c.day /\ x.quantity = c.quantity
      BY Zenon, <1>3, <3>1
    <3>4. IsSale(b, c.lot, x)
      BY <1>8, <3>1, <3>3 DEF IsSale
    <3> QED BY Zenon, <3>2, <3>3, <3>4
  <2>2. ASSUME NEW l \in 1 .. n PROVE x.reverses # l /\ x.reverses \notin Standing(b, l)
    <3>1. x.reverses # l /\ x.reverses \notin Events(b)
      BY <1>3, <1>5
    <3> QED BY Zenon, <3>1 DEF Standing
  <2> QED BY Zenon, <1>n, <2>1, <2>2 DEF LotTouched
<1>15. \A e \in Events(b) : b.journal[e].occurrence # x.occurrence
  BY Zenon, <1>2, <1>3 DEF NewOccurrence
<1>16. MayAdd(b, x, key)
  BY Zenon, <1>3, <1>7, <1>11, <1>12, <1>13, <1>14, <1>15 DEF MayAdd
<1>17. BookInv(b2) /\ Grew(b, b2, key)
  BY Zenon, <1>1, <1>10, <1>16, <1>n, BookAdded
<1>18. \A e \in Events(b2) \ Events(b) : b2.journal[e].account = c.account
  <2>1. Events(b2) = Events(b) \cup {n + 1}
    BY Zenon, <1>0, <1>1, <1>n, EventsOneMore
  <2> QED BY Zenon, <1>3, <1>6, <2>1
<1> QED BY Zenon, <1>1, <1>17, <1>18 DEF b2

-----------------------------------------------------------------------------
(* Reversals. *)

IsReverse(c) == c = [operation |-> "reverse", event |-> c.event, day |-> c.day] /\ c.event \in Nat /\ c.day \in Nat

\* The entry made of a reversal.
ReversalOf(b, key, v, day) ==
  [b.journal[v] EXCEPT !.key = key, !.kind = "reversal", !.day = day, !.occurrence = <<"reverse", v>>,
                       !.reverses = v, !.pays = <<>>]

\* The fields of a reversal.
LEMMA ReversalSays ==
  ASSUME NEW b, NEW key, NEW v, NEW day, DOMAIN b.journal[v] = EntryFields, NEW x, x = ReversalOf(b, key, v, day)
  PROVE  /\ DOMAIN x = EntryFields /\ x.key = key /\ x.kind = "reversal" /\ x.day = day
         /\ x.occurrence = <<"reverse", v>> /\ x.reverses = v /\ x.pays = <<>>
         /\ x.amount = b.journal[v].amount /\ x.count = b.journal[v].count /\ x.quantity = b.journal[v].quantity
BY DEF ReversalOf, EntryFields

\* A reversal adds its entry.
LEMMA AppliedReverse ==
  ASSUME NEW b, BookFine(b), NEW key, NEW c, IsReverse(c)
  PROVE  /\ OneMore(b.journal, Applied(b, key, c).journal, ReversalOf(b, key, c.event, c.day))
         /\ DOMAIN Applied(b, key, c) = BookFields /\ Applied(b, key, c).closed = b.closed
         /\ CommandAdmitted(b, c) => MayBook(b, c.day) /\ MayReverse(b, c)
<1>1. c.operation = "reverse"
  BY DEF IsReverse
<1> DEFINE next == [b EXCEPT !.revision = @ + 1]
           x == ReversalOf(b, key, c.event, c.day)
<1>2. Applied(b, key, c) = [next EXCEPT !.journal = Append(@, x)]
  BY <1>1 DEF Applied, ReversalOf, Posts
<1>3. DOMAIN next = BookFields /\ next.journal = b.journal /\ next.closed = b.closed
  BY DEF BookFine, BookFields
<1> HIDE DEF next, x
<1>4. /\ Applied(b, key, c).journal = Append(b.journal, x) /\ DOMAIN Applied(b, key, c) = BookFields
      /\ Applied(b, key, c).closed = b.closed
  BY <1>2, <1>3 DEF BookFields
<1>5. OneMore(b.journal, Append(b.journal, x), x)
  BY Zenon, AppendOneMore DEF BookFine
<1>6. CommandAdmitted(b, c) => MayBook(b, c.day) /\ MayReverse(b, c)
  BY <1>1 DEF CommandAdmitted, Posts
<1> QED BY Zenon, <1>4, <1>5, <1>6 DEF x

\* A purchase that may be reversed has no sale that stands.
LEMMA LotUntouched ==
  ASSUME NEW b, BookFine(b), NEW l, IsLot(b, l), ~Reversed(b, l), Reversible(b, l), MaxDay \in Nat
  PROVE  Standing(b, l) = {}
<1> DEFINE n == Len(b.journal)   A == Standing(b, l)   Q == Quantities(b)
<1>1. n \in Nat /\ Events(b) = 1 .. n
  BY EventsAre
<1>2. l \in 1 .. n /\ b.journal[l].kind = "buy"
  BY Zenon DEF IsLot
<1>3. EntryFine(b.journal, l)
  BY Zenon, <1>2 DEF BookFine
<1>4. b.journal[l].day <= MaxDay /\ b.journal[l].quantity \in Nat
  BY <1>3 DEF EntryFine
<1>5. LotHeld(b, l, MaxDay)
  BY Zenon, <1>4, ReversedByLast DEF LotHeld
<1>6. UnitsLeft(b, l, MaxDay) = b.journal[l].quantity
  BY Zenon, <1>2 DEF Reversible
<1>7. b.journal[l].quantity = b.journal[l].quantity - SumThrough(n, A, Q)
  BY Zenon, <1>5, <1>6, LeftIs, DisposalsAre
<1>8. \A d : d \in A <=> /\ d \in 1 .. n /\ b.journal[d].kind = "sell"
                         /\ b.journal[d].lot = l /\ ~Reversed(b, d)
  BY Zenon, StandingIs
<1>9. \A d \in 1 .. n : d \in A => Q[d] \in Nat /\ Q[d] > 0
  <2> SUFFICES ASSUME NEW d \in 1 .. n, d \in A PROVE Q[d] \in Nat /\ Q[d] > 0
    OBVIOUS
  <2>1. b.journal[d].kind = "sell"
    BY Zenon, <1>8
  <2>2. EntryFine(b.journal, d)
    BY Zenon DEF BookFine
  <2>3. b.journal[d].quantity \in Nat /\ b.journal[d].quantity > 0
    BY <2>1, <2>2 DEF EntryFine
  <2>4. Q[d] = b.journal[d].quantity
    BY Zenon, WorthIs
  <2> QED BY Zenon, <2>3, <2>4
<1>10. SumThrough(n, A, Q) \in Nat
  <2>1. \A d \in 1 .. n : d \in A => Q[d] \in Nat
    BY Zenon, <1>9
  <2> HIDE DEF n, A, Q
  <2> QED BY ONLY <1>1, <2>1, OverNat, SMT
<1>11. SumThrough(n, {}, Q) = 0
  <2>0. 0 \in 0 .. n
    BY <1>1
  <2>1. \A d \in 1 .. n : d \in {} => d <= 0 /\ Q[d] \in Int
    OBVIOUS
  <2> HIDE DEF n, A, Q
  <2>2. SumThrough(n, {}, Q) = SumThrough(0, {}, Q)
    BY ONLY <1>1, <2>0, <2>1, OverCut, SMT
  <2>3. SumThrough(0, {}, Q) = 0
    BY ONLY <1>1, OverNext, SMT
  <2> QED BY Zenon, <2>2, <2>3
<1> HIDE DEF n, A, Q
<1>12. SumThrough(n, {}, Q) = SumThrough(n, A, Q)
  BY <1>4, <1>7, <1>10, <1>11
<1>13. \A e \in 1 .. n : e \in A => e \in {}
  <2>1. \A e \in 1 .. n : e \in {} => e \in A
    OBVIOUS
  <2>2. \A e \in 1 .. n : e \in A => Q[e] \in Nat
    BY Zenon, <1>9
  <2>3. \A e \in 1 .. n : e \in A => Q[e] > 0
    BY Zenon, <1>9
  <2> QED BY ONLY <1>1, <1>12, <2>1, <2>2, <2>3, OverLess, SMT
<1>14. A = {}
  BY <1>8, <1>13 DEF n
<1> QED BY <1>14 DEF A

\* A reversal that is admitted keeps the books right.
LEMMA ReverseKeeps ==
  ASSUME NEW b, BookInv(b), NEW key, NEW c, IsReverse(c), CommandAdmitted(b, c), today \in 1 .. MaxDay, MaxDay \in Nat
  PROVE  /\ BookInv(Applied(b, key, c)) /\ Grew(b, Applied(b, key, c), key)
         /\ Applied(b, key, c).closed = b.closed
<1> DEFINE n == Len(b.journal)   v == c.event   x == ReversalOf(b, key, v, c.day)   b2 == Applied(b, key, c)
<1>0. BookFine(b) /\ Distinct(b)
  BY Zenon DEF BookInv
<1>1. /\ OneMore(b.journal, b2.journal, x) /\ DOMAIN b2 = BookFields /\ b2.closed = b.closed
      /\ MayBook(b, c.day) /\ MayReverse(b, c)
  BY Zenon, <1>0, AppliedReverse
<1>2. n \in Nat /\ Events(b) = 1 .. n
  BY Zenon, <1>0, EventsAre
<1>3. /\ v \in 1 .. n /\ b.journal[v].reverses = 0 /\ Reversible(b, v) /\ c.day >= b.journal[v].day
      /\ ~Reversed(b, v) /\ \A item \in Items(b) : item[1] = v => EffectiveSettled(b, item) = 0
  BY Zenon, <1>1, <1>2 DEF MayReverse
<1>4. EntryFine(b.journal, v)
  BY Zenon, <1>0, <1>3 DEF BookFine
<1>5. /\ DOMAIN x = EntryFields /\ x.key = key /\ x.kind = "reversal" /\ x.day = c.day
      /\ x.occurrence = <<"reverse", v>> /\ x.reverses = v /\ DOMAIN x.pays = {}
      /\ x.amount = b.journal[v].amount /\ x.count = b.journal[v].count /\ x.quantity = b.journal[v].quantity
  <2>1. DOMAIN b.journal[v] = EntryFields
    BY Zenon, <1>4 DEF EntryFine
  <2>2. x.pays = <<>> /\ DOMAIN <<>> = {}
    BY <2>1, ReversalSays
  <2> QED BY <2>1, <2>2, ReversalSays
<1>6. b2.journal[n + 1] = x /\ \A i \in 1 .. n : b2.journal[i] = b.journal[i]
  BY Zenon, <1>1 DEF OneMore
<1>7. c.day \in 0 .. MaxDay /\ c.day > b.closed
  BY <1>1 DEF MayBook, IsReverse
<1>n. n = Len(b.journal) /\ v = c.event
  OBVIOUS
<1> HIDE DEF n, x, b2, v
<1>10. EntryFine(b2.journal, n + 1)
  <2>1. /\ x.kind \in Posts \cup {"reversal"} /\ x.day \in 0 .. MaxDay /\ x.count \in 1 .. 3
        /\ x.amount \in Int /\ x.quantity \in Nat
    BY <1>4, <1>5, <1>7 DEF EntryFine
  <2>2. x.kind # "sell" /\ x.kind \notin {"bill", "buy"} /\ x.kind \notin {"buy", "sell"}
    BY <1>5
  <2>3. x.reverses \in 1 .. ((n + 1) - 1)
    BY <1>2, <1>3, <1>5
  <2> QED BY Zenon, <1>5, <1>6, <2>1, <2>2, <2>3 DEF EntryFine
<1>11. PaysWithin(b, x) /\ Frees(b, x)
  BY Zenon, <1>3, <1>5 DEF PaysWithin, Frees
<1>13. PaysWhatItHas(x)
  BY <1>5 DEF PaysWhatItHas
<1>14. LotTouched(b, x)
  <2>1. x.kind # "sell"
    BY <1>5
  <2>2. ASSUME NEW l \in 1 .. n, b.journal[l].kind = "buy", x.reverses = l PROVE Standing(b, l) = {}
    <3>1. IsLot(b, l) /\ ~Reversed(b, l) /\ Reversible(b, l)
      BY Zenon, <1>3, <1>5, <1>n, <2>2 DEF IsLot
    <3> QED BY Zenon, <1>0, <3>1, LotUntouched
  <2>3. ASSUME NEW l \in 1 .. n, b.journal[l].kind = "buy", x.reverses \in Standing(b, l)
        PROVE  IsReturn(b, l, x)
    <3>1. v \in Standing(b, l)
      BY Zenon, <1>5, <2>3
    <3>2. \A d : d \in Standing(b, l) <=> /\ d \in 1 .. n /\ b.journal[d].kind = "sell"
                                          /\ b.journal[d].lot = l /\ ~Reversed(b, d)
      BY Zenon, <1>0, StandingIs DEF n
    <3>3. ASSUME NEW d \in Standing(b, l) PROVE ~(d > v)
      <4>1. /\ d \in Events(b) /\ b.journal[d].kind = "sell" /\ b.journal[d].lot = b.journal[v].lot
            /\ ~Reversed(b, d) /\ b.journal[v].kind = "sell"
        BY Zenon, <1>2, <3>1, <3>2, <3>3
      <4> QED BY Zenon, <1>3, <4>1 DEF Reversible
    <3>4. ASSUME NEW d \in Standing(b, l) PROVE d <= v
      <4>1. d \in 1 .. n /\ v \in 1 .. n /\ ~(d > v)
        BY Zenon, <1>3, <3>2, <3>3, <3>4
      <4> QED BY <1>2, <4>1
    <3> QED BY Zenon, <1>5, <3>1, <3>4 DEF IsReturn
  <2> QED BY Zenon, <1>n, <2>1, <2>2, <2>3 DEF LotTouched
<1>15. \A e \in Events(b) : b.journal[e].occurrence # x.occurrence
  <2> SUFFICES ASSUME NEW e \in Events(b), b.journal[e].occurrence = <<"reverse", v>> PROVE FALSE
    BY Zenon, <1>5
  <2>1. EntryFine(b.journal, e)
    BY Zenon, <1>0, <1>2, <1>n DEF BookFine
  <2>2. b.journal[e].kind = "reversal"
    <3> SUFFICES ASSUME b.journal[e].kind # "reversal" PROVE FALSE
      OBVIOUS
    <3>1. PICK o : b.journal[e].occurrence = Named(o)
      BY Zenon, <2>1 DEF EntryFine
    <3>2. <<"given", o>> = <<"reverse", v>>
      BY <3>1 DEF Named
    <3> QED BY <3>2
  <2>3. b.journal[e].occurrence = <<"reverse", b.journal[e].reverses>>
    BY Zenon, <2>1, <2>2 DEF EntryFine
  <2>4. b.journal[e].reverses = v
    BY <2>3
  <2> QED BY Zenon, <1>3, <2>4 DEF Reversed
<1>16. MayAdd(b, x, key)
  BY Zenon, <1>5, <1>7, <1>11, <1>13, <1>14, <1>15 DEF MayAdd
<1>17. BookInv(b2) /\ Grew(b, b2, key)
  BY Zenon, <1>1, <1>10, <1>16, <1>n, BookAdded
<1> QED BY Zenon, <1>1, <1>17 DEF b2

-----------------------------------------------------------------------------
(* Closing, planning: the journal stays. *)

\* What is settled depends on the journal only.
LEMMA SettledSame ==
  ASSUME NEW b, NEW b2, BookFine(b), BookFine(b2), b2.journal = b.journal, NEW item
  PROVE  EffectiveSettled(b2, item) = EffectiveSettled(b, item)
<1> DEFINE n == Len(b.journal)
<1>1. n \in Nat /\ Len(b2.journal) = n
  BY EventsAre
<1>p. /\ \A p : p \in PaidBy(b, item) <=> p \in 1 .. Len(b.journal) /\ item \in DOMAIN b.journal[p].pays /\ ~Reversed(b, p)
      /\ \A p : p \in PaidBy(b2, item) <=> p \in 1 .. Len(b2.journal) /\ item \in DOMAIN b2.journal[p].pays /\ ~Reversed(b2, p)
      /\ \A p \in PaidBy(b, item) : Share(b, item)[p] = b.journal[p].pays[item]
      /\ \A p \in PaidBy(b2, item) : Share(b2, item)[p] = b2.journal[p].pays[item]
      /\ EffectiveSettled(b, item) = SumThrough(Len(b.journal), PaidBy(b, item), Share(b, item))
      /\ EffectiveSettled(b2, item) = SumThrough(Len(b2.journal), PaidBy(b2, item), Share(b2, item))
  BY ZenonT(60), PaidIs
<1>r. \A e : Reversed(b2, e) <=> Reversed(b, e)
  BY Zenon DEF Reversed, Events
<1>2. \A e \in 1 .. n : e \in PaidBy(b2, item) <=> e \in PaidBy(b, item)
  BY Zenon, <1>p, <1>r
<1>3. \A e \in 1 .. n : e \in PaidBy(b2, item) => Share(b2, item)[e] = Share(b, item)[e]
  BY Zenon, <1>p, <1>2
<1>4. EffectiveSettled(b, item) = SumThrough(n, PaidBy(b, item), Share(b, item))
      /\ EffectiveSettled(b2, item) = SumThrough(n, PaidBy(b2, item), Share(b2, item))
  BY Zenon, <1>1, <1>p
<1> HIDE DEF n
<1>5. SumThrough(n, PaidBy(b2, item), Share(b2, item)) = SumThrough(n, PaidBy(b, item), Share(b, item))
  <2>s. Alike(n, PaidBy(b2, item), Share(b2, item), PaidBy(b, item), Share(b, item))
    BY ONLY <1>1, <1>2, <1>3, Zenon DEF Alike
  <2>t. n \in Nat
    BY ONLY <1>1, SMT
  <2> QED BY ONLY <2>s, <2>t, OverSame, SMT
<1> QED BY Zenon, <1>4, <1>5

\* So does what is so of a lot.
LEMMA LotSame ==
  ASSUME NEW b, NEW b2, BookFine(b), BookFine(b2), b2.journal = b.journal, NEW l, LotFine(b, l)
  PROVE  LotFine(b2, l)
<1> DEFINE n == Len(b.journal)
           A == Standing(b, l)   A2 == Standing(b2, l)
           Q == Quantities(b)    Q2 == Quantities(b2)
           M == Amounts(b)       M2 == Amounts(b2)
<1>1. n \in Nat /\ Len(b2.journal) = n
  BY EventsAre
<1>r. \A e : Reversed(b2, e) <=> Reversed(b, e)
  BY Zenon DEF Reversed, Events
<1>2. SoldBehindReversal(b2, l) <=> SoldBehindReversal(b, l)
  BY Zenon DEF SoldBehindReversal, Events
<1>3. A2 = A
  <2>1. /\ \A d : d \in A2 <=> /\ d \in 1 .. Len(b2.journal) /\ b2.journal[d].kind = "sell"
                               /\ b2.journal[d].lot = l /\ ~Reversed(b2, d)
        /\ \A d : d \in A <=> /\ d \in 1 .. Len(b.journal) /\ b.journal[d].kind = "sell"
                              /\ b.journal[d].lot = l /\ ~Reversed(b, d)
    BY Zenon, StandingIs
  <2>2. \A d : d \in A2 <=> d \in A
    BY Zenon, <1>r, <2>1
  <2> HIDE DEF A, A2
  <2> QED BY <2>2
<1>4. \A d \in 1 .. n : Q2[d] = Q[d] /\ M2[d] = M[d]
  <2>1. \A d \in 1 .. n : d \in 1 .. Len(b.journal) /\ d \in 1 .. Len(b2.journal) /\ b2.journal[d] = b.journal[d]
    BY <1>1
  <2>2. \A d \in 1 .. Len(b.journal) : Quantities(b)[d] = b.journal[d].quantity /\ Amounts(b)[d] = b.journal[d].amount
    BY ONLY BookFine(b), WorthIs, Zenon
  <2>3. \A d \in 1 .. Len(b2.journal) : Quantities(b2)[d] = b2.journal[d].quantity /\ Amounts(b2)[d] = b2.journal[d].amount
    BY ONLY BookFine(b2), WorthIs, Zenon
  <2> HIDE DEF n
  <2> QED BY ONLY <2>1, <2>2, <2>3, ZenonT(60)
<1>5. /\ SumThrough(n, A, Q) <= b.journal[l].quantity
      /\ Reversed(b, l) => A = {}
      /\ ~SoldBehindReversal(b, l) =>
           \A k \in 0 .. n : SumThrough(k, A, M) = (b.journal[l].amount * SumThrough(k, A, Q)) \div b.journal[l].quantity
  BY Zenon DEF LotFine
<1>n. n = Len(b.journal)
  OBVIOUS
<1> HIDE DEF n, A, A2, Q, Q2, M, M2
<1>6. ASSUME NEW k \in 0 .. n PROVE SumThrough(k, A, Q2) = SumThrough(k, A, Q) /\ SumThrough(k, A, M2) = SumThrough(k, A, M)
  <2>0. k \in Nat /\ \A d \in 1 .. k : d \in 1 .. n
    BY <1>1
  <2>1. \A d \in 1 .. k : (d \in A <=> d \in A) /\ (d \in A => Q2[d] = Q[d])
    BY Zenon, <1>4, <2>0
  <2>2. \A d \in 1 .. k : (d \in A <=> d \in A) /\ (d \in A => M2[d] = M[d])
    BY Zenon, <1>4, <2>0
  <2>3. SumThrough(k, A, Q2) = SumThrough(k, A, Q)
    <3>s. Alike(k, A, Q2, A, Q)
      BY ONLY <2>0, <2>1, Zenon DEF Alike
    <3>t. k \in Nat
      BY ONLY <2>0, SMT
    <3> QED BY ONLY <3>s, <3>t, OverSame, SMT
  <2>4. SumThrough(k, A, M2) = SumThrough(k, A, M)
    <3>s. Alike(k, A, M2, A, M)
      BY ONLY <2>0, <2>2, Zenon DEF Alike
    <3>t. k \in Nat
      BY ONLY <2>0, SMT
    <3> QED BY ONLY <3>s, <3>t, OverSame, SMT
  <2> QED BY <2>3, <2>4
<1>7. n \in 0 .. n
  BY <1>1
<1>8. SumThrough(n, A2, Q2) <= b2.journal[l].quantity
  BY Zenon, <1>3, <1>5, <1>6, <1>7
<1>9. ~SoldBehindReversal(b2, l) =>
        \A k \in 0 .. n : SumThrough(k, A2, M2) = (b2.journal[l].amount * SumThrough(k, A2, Q2)) \div b2.journal[l].quantity
  BY Zenon, <1>2, <1>3, <1>5, <1>6
<1>10. Reversed(b2, l) => A2 = {}
  BY Zenon, <1>r, <1>3, <1>5
<1>11. Len(b2.journal) = n
  BY Zenon, <1>1
<1> QED BY Zenon, <1>8, <1>9, <1>10, <1>11 DEF LotFine, A2, Q2, M2

\* A book with the same journal is as right.
LEMMA JournalKept ==
  ASSUME NEW b, BookInv(b), NEW b2, b2.journal = b.journal, DOMAIN b2 = BookFields, NEW key
  PROVE  BookInv(b2) /\ Grew(b, b2, key)
<1>1. BookFine(b) /\ Distinct(b) /\ SettledWithin(b) /\ LotsFine(b)
  BY Zenon DEF BookInv
<1>2. BookFine(b2)
  BY Zenon, <1>1 DEF BookFine
<1>3. Events(b2) = Events(b)
  BY Zenon DEF Events
<1>4. Distinct(b2)
  BY Zenon, <1>1, <1>3 DEF Distinct
<1>5. LotsFine(b2)
  BY Zenon, <1>1, <1>2, LotSame DEF LotsFine
<1>6. SettledWithin(b2)
  <2>r. \A e : Reversed(b2, e) <=> Reversed(b, e)
    BY Zenon DEF Reversed, Events
  <2>1. ASSUME NEW item \in Items(b2)
        PROVE  EffectiveSettled(b2, item) <= IF Reversed(b2, item[1]) THEN 0 ELSE ItemAmount(b2, item)
    <3>1. item \in Items(b)
      BY Zenon, <1>3, <2>1 DEF Items
    <3>2. EffectiveSettled(b2, item) = EffectiveSettled(b, item)
      BY Zenon, <1>1, <1>2, SettledSame
    <3>3. ItemAmount(b2, item) = ItemAmount(b, item)
      BY Zenon DEF ItemAmount
    <3>4. EffectiveSettled(b, item) <= IF Reversed(b, item[1]) THEN 0 ELSE ItemAmount(b, item)
      BY Zenon, <1>1, <3>1 DEF SettledWithin
    <3> QED BY Zenon, <2>r, <3>2, <3>3, <3>4
  <2>2. \A e \in Events(b2) : b2.journal[e].kind = "payment" => Settles(b2.journal[e].pays) <= b2.journal[e].amount
    BY Zenon, <1>1, <1>3 DEF SettledWithin
  <2> QED BY Zenon, <2>1, <2>2 DEF SettledWithin
<1>7. Grew(b, b2, key)
  BY <1>3 DEF Grew
<1> QED BY Zenon, <1>2, <1>4, <1>5, <1>6, <1>7 DEF BookInv

IsClosing(c) == c = [operation |-> "close_period", day |-> c.day, revision |-> c.revision] /\ c.day \in 0 .. MaxDay
IsPlan(c) == c = [operation |-> "plan_put", plan |-> c.plan, version |-> c.version]

\* Closing a period and putting a plan keep the books right.
LEMMA OtherKeeps ==
  ASSUME NEW b, BookInv(b), NEW key, NEW c, IsClosing(c) \/ IsPlan(c)
  PROVE  BookInv(Applied(b, key, c)) /\ Grew(b, Applied(b, key, c), key)
<1> DEFINE next == [b EXCEPT !.revision = @ + 1]
<1>0. DOMAIN b = BookFields
  BY Zenon DEF BookInv, BookFine
<1>1. DOMAIN next = BookFields /\ next.journal = b.journal
  BY <1>0 DEF BookFields
<1>2. CASE IsClosing(c)
  <2>1. Applied(b, key, c) = [next EXCEPT !.closed = c.day]
    BY <1>2 DEF Applied, Posts, IsClosing
  <2> HIDE DEF next
  <2>2. Applied(b, key, c).journal = b.journal /\ DOMAIN Applied(b, key, c) = BookFields
    BY <1>1, <2>1 DEF BookFields
  <2> QED BY Zenon, <2>2, JournalKept
<1>3. CASE IsPlan(c)
  <2>1. Applied(b, key, c) = [next EXCEPT !.plan = [version |-> b.plan.version + 1, kind |-> c.plan]]
    BY <1>3 DEF Applied, Posts, IsPlan
  <2> HIDE DEF next
  <2>2. Applied(b, key, c).journal = b.journal /\ DOMAIN Applied(b, key, c) = BookFields
    BY <1>1, <2>1 DEF BookFields
  <2> QED BY Zenon, <2>2, JournalKept
<1> QED BY Zenon, <1>2, <1>3

-----------------------------------------------------------------------------
(* The allocation of a payment that names its document. *)

\* The greater of two is one of them.
LEMMA TwoMax == ASSUME NEW x \in Int, NEW y \in Int PROVE Max({x, y}) \in {x, y}
<1>1. \E z \in {x, y} : \A w \in {x, y} : z >= w
  BY SMT
<1> QED BY <1>1, Zenon DEF Max

\* The smaller of two is one of them.
LEMMA TwoMin == ASSUME NEW x \in Int, NEW y \in Int PROVE Min({x, y}) \in {x, y}
<1>1. \E z \in {x, y} : \A w \in {x, y} : z <= w
  BY SMT
<1> QED BY <1>1, Zenon DEF Min

\* What remains of an installment is a number.
LEMMA RemainingTyped ==
  ASSUME NEW b, BookFine(b), NEW bill \in 1 .. Len(b.journal), b.journal[bill].kind = "bill", NEW i \in Nat, i > 0
  PROVE  Remaining(b, <<bill, i>>) \in Int
<1>1. EntryFine(b.journal, bill)
  BY Zenon DEF BookFine
<1>2. b.journal[bill].amount \in Nat /\ b.journal[bill].count \in {1, 2, 3}
  BY <1>1 DEF EntryFine
<1>3. \A a \in Nat, c \in {1, 2, 3} : Installment(a, c, i) \in Int
  BY DEF Installment
<1>4. ItemAmount(b, <<bill, i>>) \in Int
  BY <1>2, <1>3 DEF ItemAmount
<1>5. EffectiveSettled(b, <<bill, i>>) \in Nat
  BY Zenon, PaidIs
<1> QED BY <1>4, <1>5 DEF Remaining

\* So is what remains of the installments before one.
LEMMA BeforeTyped ==
  ASSUME NEW b, BookFine(b), NEW bill \in 1 .. Len(b.journal), b.journal[bill].kind = "bill", NEW i \in Nat, i > 0
  PROVE  Before(b, bill, i) \in Int
<1> DEFINE f == [j \in 1 .. (i - 1) |-> Remaining(b, <<bill, j>>)]
<1>1. i - 1 \in Nat
  OBVIOUS
<1>2. ASSUME NEW j \in 1 .. (i - 1) PROVE f[j] \in Int
  <2>1. j \in Nat /\ j > 0
    OBVIOUS
  <2>2. Remaining(b, <<bill, j>>) \in Int
    BY Zenon, <2>1, RemainingTyped
  <2>3. f[j] = Remaining(b, <<bill, j>>)
    BY Zenon
  <2> QED BY Zenon, <2>2, <2>3
<1>3. Before(b, bill, i) = SumUpTo(f, i - 1)
  BY Zenon DEF Before
<1> HIDE DEF f
<1>4. SumUpTo(f, i - 1) \in Int
  BY ONLY <1>1, <1>2, SumTyped, SMT
<1> QED BY Zenon, <1>3, <1>4

\* An allocation gives whole amounts, none negative.
LEMMA PaidInOrderTyped ==
  ASSUME NEW b, BookFine(b), NEW bill \in 1 .. Len(b.journal), b.journal[bill].kind = "bill", NEW amount \in Nat
  PROVE  \A item \in DOMAIN PaidInOrder(b, bill, amount) : PaidInOrder(b, bill, amount)[item] \in Nat
<1> DEFINE share(i) == Min({Remaining(b, <<bill, i>>), Max({0, amount - Before(b, bill, i)})})
           parts == {<<bill, i>> : i \in {j \in 1 .. b.journal[bill].count : share(j) > 0}}
<1>1. PaidInOrder(b, bill, amount) = [item \in parts |-> share(item[2])]
  BY Zenon DEF PaidInOrder
<1>2. ASSUME NEW i \in 1 .. b.journal[bill].count PROVE share(i) \in Int
  <2>1. EntryFine(b.journal, bill)
    BY Zenon DEF BookFine
  <2>2. b.journal[bill].count \in 1 .. 3
    BY Zenon, <2>1 DEF EntryFine
  <2>3. i \in Nat /\ i > 0
    BY <2>2
  <2>4. Remaining(b, <<bill, i>>) \in Int /\ Before(b, bill, i) \in Int
    BY Zenon, <2>3, RemainingTyped, BeforeTyped
  <2>5. amount - Before(b, bill, i) \in Int
    BY <2>4
  <2>6. Max({0, amount - Before(b, bill, i)}) \in Int
    <3>1. Max({0, amount - Before(b, bill, i)}) \in {0, amount - Before(b, bill, i)}
      BY <2>5, TwoMax
    <3> QED BY <2>5, <3>1
  <2>7. share(i) \in {Remaining(b, <<bill, i>>), Max({0, amount - Before(b, bill, i)})}
    BY <2>4, <2>6, TwoMin
  <2> HIDE DEF share
  <2> QED BY <2>4, <2>6, <2>7
<1> HIDE DEF share
<1>3. ASSUME NEW item \in parts PROVE share(item[2]) \in Nat
  <2>1. PICK i \in {j \in 1 .. b.journal[bill].count : share(j) > 0} : item = <<bill, i>>
    BY Zenon, <1>3
  <2>2. item[2] = i /\ i \in 1 .. b.journal[bill].count /\ share(i) > 0
    BY <2>1
  <2> QED BY <1>2, <2>2
<1> HIDE DEF parts
<1> QED BY Zenon, <1>1, <1>3

\* A payment with its allocation is still a post.
LEMMA AllocatedPost ==
  ASSUME NEW b, BookFine(b), NEW c, IsPost(c)
  PROVE  IsPost(Allocated(b, c)) /\ Allocated(b, c).account = c.account
<1>1. CASE c.operation = "payment" /\ c.document # "none" /\ Documented(b, c.document) # {}
  <2> DEFINE bill == CHOOSE e \in Documented(b, c.document) : TRUE
             P == PaidInOrder(b, bill, c.amount)
             d == [c EXCEPT !.pays = P]
  <2>1. Allocated(b, c) = d
    BY Zenon, <1>1 DEF Allocated
  <2>2. bill \in Documented(b, c.document)
    BY Zenon, <1>1
  <2>3. bill \in 1 .. Len(b.journal) /\ b.journal[bill].kind = "bill"
    BY Zenon, <2>2, EventsAre DEF Documented
  <2>4. c.amount \in Nat
    BY DEF IsPost
  <2> HIDE DEF bill
  <2>5. \A item \in DOMAIN P : P[item] \in Nat
    BY Zenon, <2>3, <2>4, PaidInOrderTyped
  <2> HIDE DEF P
  <2>6. c = [f \in PostFields |-> c[f]]
    BY Zenon DEF IsPost
  <2>7. DOMAIN c = PostFields
    BY <2>6
  <2>8. d.pays = P /\ \A f \in PostFields \ {"pays"} : d[f] = c[f]
    BY <2>7 DEF PostFields
  <2>9. d = [f \in PostFields |-> d[f]]
    BY <2>7
  <2> HIDE DEF d
  <2>10. /\ d.operation = c.operation /\ d.day = c.day /\ d.amount = c.amount /\ d.quantity = c.quantity
         /\ d.lot = c.lot /\ d.count = c.count /\ d.account = c.account
    BY <2>8 DEF PostFields
  <2>11. IsPost(d)
    BY <1>1, <2>5, <2>8, <2>9, <2>10 DEF IsPost
  <2> QED BY Zenon, <2>1, <2>10, <2>11
<1>2. CASE ~(c.operation = "payment" /\ c.document # "none" /\ Documented(b, c.document) # {})
  BY Zenon, <1>2 DEF Allocated
<1> QED BY Zenon, <1>1, <1>2

\* Nothing else is allocated.
LEMMA AllocatedOther == ASSUME NEW b, NEW c, c.operation # "payment" PROVE Allocated(b, c) = c
BY DEF Allocated

-----------------------------------------------------------------------------
(* Imports: one row after the other. *)

After(u, b, key, rows, k) == u = [n \in 0 .. k |-> IF n = 0 THEN b ELSE Applied(u[n - 1], key, rows[n])]

\* The book after k rows is read from the function of its states.
LEMMA AfterBy ==
  ASSUME NEW b, NEW key, NEW rows, NEW k
  PROVE  AfterRow(b, key, rows, k) = (CHOOSE u : After(u, b, key, rows, k))[k]
BY Zenon DEF AfterRow, After

\* That function goes one row further.
LEMMA AfterOn ==
  ASSUME NEW b, NEW key, NEW rows, NEW k \in Nat, NEW u, After(u, b, key, rows, k)
  PROVE  \E v : After(v, b, key, rows, k + 1)
<1> DEFINE v == [n \in 0 .. (k + 1) |-> IF n = k + 1 THEN Applied(u[k], key, rows[k + 1]) ELSE u[n]]
<1>1. \A n \in 0 .. k : v[n] = u[n] /\ u[n] = IF n = 0 THEN b ELSE Applied(u[n - 1], key, rows[n])
  BY DEF After
<1>2. \A n \in 0 .. (k + 1) : v[n] = IF n = 0 THEN b ELSE Applied(v[n - 1], key, rows[n])
  BY <1>1
<1>3. After(v, b, key, rows, k + 1)
  BY <1>2 DEF After
<1> QED BY <1>3

\* So it is there for every number of rows.
LEMMA AfterThere ==
  ASSUME NEW b, NEW key, NEW rows PROVE \A k \in Nat : \E u : After(u, b, key, rows, k)
<1> DEFINE S == {k \in Nat : \E u : After(u, b, key, rows, k)}
<1>1. 0 \in S
  <2>1. After([n \in 0 .. 0 |-> b], b, key, rows, 0)
    BY DEF After
  <2> QED BY <2>1
<1>2. ASSUME NEW n \in Nat, n \in S PROVE n + 1 \in S
  <2>1. PICK u : After(u, b, key, rows, n)
    BY <1>2
  <2> QED BY <2>1, AfterOn
<1> HIDE DEF S
<1>3. \A n \in Nat : n \in S
  BY Zenon, <1>1, <1>2, OnAndOn
<1> QED BY <1>3 DEF S

\* And it does not depend on how far it was taken.
LEMMA AfterAlike ==
  ASSUME NEW b, NEW key, NEW rows, NEW k \in Nat, NEW m \in Nat, k <= m,
         NEW u, After(u, b, key, rows, k), NEW v, After(v, b, key, rows, m)
  PROVE  \A n \in 0 .. k : u[n] = v[n]
<1> DEFINE S == {n \in Nat : n <= k => u[n] = v[n]}
<1>u. \A n \in 0 .. k : u[n] = IF n = 0 THEN b ELSE Applied(u[n - 1], key, rows[n])
  BY DEF After
<1>v. \A n \in 0 .. m : v[n] = IF n = 0 THEN b ELSE Applied(v[n - 1], key, rows[n])
  BY DEF After
<1>1. 0 \in S
  BY <1>u, <1>v
<1>2. ASSUME NEW n \in Nat, n \in S PROVE n + 1 \in S
  <2> SUFFICES ASSUME n + 1 <= k PROVE u[n + 1] = v[n + 1]
    OBVIOUS
  <2>1. u[n] = v[n] /\ n + 1 \in 0 .. k /\ n + 1 \in 0 .. m /\ (n + 1) - 1 = n
    BY <1>2
  <2> QED BY <1>u, <1>v, <2>1
<1> HIDE DEF S
<1>3. \A n \in Nat : n \in S
  BY Zenon, <1>1, <1>2, OnAndOn
<1> QED BY <1>3 DEF S

\* A book by one row more.
LEMMA AfterNext ==
  ASSUME NEW b, NEW key, NEW rows, NEW k \in Nat
  PROVE  /\ AfterRow(b, key, rows, 0) = b
         /\ AfterRow(b, key, rows, k + 1) = Applied(AfterRow(b, key, rows, k), key, rows[k + 1])
<1>1. ASSUME NEW n \in Nat PROVE After(CHOOSE u : After(u, b, key, rows, n), b, key, rows, n)
  BY Zenon, AfterThere
<1>2. AfterRow(b, key, rows, 0) = b
  <2>1. PICK u : u = (CHOOSE w : After(w, b, key, rows, 0)) /\ After(u, b, key, rows, 0)
    BY <1>1
  <2>2. AfterRow(b, key, rows, 0) = u[0]
    BY Zenon, AfterBy, <2>1
  <2>3. u[0] = b
    BY <2>1 DEF After
  <2> QED BY Zenon, <2>2, <2>3
<1>3. PICK u : u = (CHOOSE w : After(w, b, key, rows, k)) /\ After(u, b, key, rows, k)
  BY <1>1
<1>4. PICK v : v = (CHOOSE w : After(w, b, key, rows, k + 1)) /\ After(v, b, key, rows, k + 1)
  <2>1. k + 1 \in Nat
    OBVIOUS
  <2> QED BY <1>1, <2>1
<1>5. AfterRow(b, key, rows, k) = u[k] /\ AfterRow(b, key, rows, k + 1) = v[k + 1]
  BY Zenon, AfterBy, <1>3, <1>4
<1>6. v[k + 1] = Applied(v[k], key, rows[k + 1])
  BY <1>4 DEF After
<1>7. u[k] = v[k]
  <2>1. k + 1 \in Nat /\ k <= k + 1 /\ k \in 0 .. k
    OBVIOUS
  <2>2. After(u, b, key, rows, k) /\ After(v, b, key, rows, k + 1)
    BY Zenon, <1>3, <1>4
  <2> QED BY ONLY <2>1, <2>2, AfterAlike, SMT
<1> QED BY Zenon, <1>2, <1>5, <1>6, <1>7

\* A book that grew twice has grown.
LEMMA GrewOn ==
  ASSUME NEW b, NEW b1, NEW b2, NEW key, Grew(b, b1, key), Grew(b1, b2, key), b1.closed = b.closed
  PROVE  Grew(b, b2, key)
<1>1. \A e \in Events(b) : e \in Events(b2) /\ b2.journal[e] = b.journal[e]
  BY Zenon DEF Grew
<1>2. ASSUME NEW e \in Events(b2), e \notin Events(b)
      PROVE  b2.journal[e].key = key /\ b2.journal[e].day > b.closed
  <2>1. CASE e \in Events(b1)
    BY Zenon, <1>2, <2>1 DEF Grew
  <2>2. CASE e \notin Events(b1)
    BY Zenon, <1>2, <2>2 DEF Grew
  <2> QED BY Zenon, <2>1, <2>2
<1> QED BY <1>1, <1>2 DEF Grew

IsImport(c) == (\E S : c.rows \in Seq(S)) /\ \A i \in DOMAIN c.rows : IsRow(c.rows[i])

\* Each row of an import keeps the books right.
LEMMA RowsKeep ==
  ASSUME NEW b, BookInv(b), NEW key, NEW c, IsImport(c), RowsFit(b, key, c.rows), today \in 1 .. MaxDay, MaxDay \in Nat
  PROVE  /\ Len(c.rows) \in Nat
         /\ \A k \in 0 .. Len(c.rows) :
              LET b1 == AfterRow(b, key, c.rows, k) IN BookInv(b1) /\ Grew(b, b1, key) /\ b1.closed = b.closed
<1> DEFINE rows == c.rows   n == Len(c.rows)
           Right(k) == LET b1 == AfterRow(b, key, c.rows, k)
                       IN BookInv(b1) /\ Grew(b, b1, key) /\ b1.closed = b.closed
           C == {k \in Nat : k <= n => Right(k)}
<1>1. n \in Nat /\ DOMAIN rows = 1 .. n
  BY DEF IsImport
<1>2. 0 \in C
  <2>1. AfterRow(b, key, rows, 0) = b
    BY ONLY AfterNext, SMT
  <2>2. Grew(b, b, key)
    BY Zenon DEF Grew
  <2>3. Right(0)
    BY Zenon, <2>1, <2>2
  <2> QED BY <2>3
<1>3. ASSUME NEW k \in Nat, k \in C PROVE k + 1 \in C
  <2> SUFFICES ASSUME k + 1 <= n PROVE Right(k + 1)
    OBVIOUS
  <2> DEFINE b1 == AfterRow(b, key, rows, k)   b2 == AfterRow(b, key, rows, k + 1)   r == rows[k + 1]
  <2>1. BookInv(b1) /\ Grew(b, b1, key) /\ b1.closed = b.closed
    <3>1. k <= n
      BY <1>1
    <3> QED BY Zenon, <1>3, <3>1
  <2>2. b2 = Applied(b1, key, r)
    BY ONLY <1>3, AfterNext, SMTT(60)
  <2>3. k + 1 \in DOMAIN rows /\ (k + 1) - 1 = k
    BY <1>1
  <2>4. IsPost(r)
    BY Zenon, <2>3 DEF IsImport, IsRow
  <2>5. CommandAdmitted(b1, r)
    BY Zenon, <2>3 DEF RowsFit
  <2>t. today \in 1 .. MaxDay /\ MaxDay \in Nat
    OBVIOUS
  <2>n. b2 = AfterRow(b, key, c.rows, k + 1)
    OBVIOUS
  <2> HIDE DEF b1, b2, r
  <2>6. BookInv(b2) /\ Grew(b1, b2, key) /\ b2.closed = b1.closed
    BY ONLY <2>1, <2>2, <2>4, <2>5, <2>t, PostKeeps, ZenonT(60)
  <2>7. Grew(b, b2, key)
    BY Zenon, <2>1, <2>6, GrewOn
  <2>8. b2.closed = b.closed
    BY Zenon, <2>1, <2>6
  <2> QED BY Zenon, <2>6, <2>7, <2>8, <2>n
<1> HIDE DEF C
<1>4. \A k \in Nat : k \in C
  BY ONLY <1>2, <1>3, OnAndOn, Zenon
<1>5. \A k \in 0 .. n : k \in Nat /\ k <= n
  BY <1>1
<1>6. \A k \in 0 .. n : Right(k)
  BY Zenon, <1>4, <1>5 DEF C
<1> QED BY Zenon, <1>1, <1>6

\* So does the whole import.
LEMMA ImportKeeps ==
  ASSUME NEW b, BookInv(b), NEW key, NEW c, IsImport(c), RowsFit(b, key, c.rows), today \in 1 .. MaxDay, MaxDay \in Nat
  PROVE  BookInv(Imported(b, key, c)) /\ Grew(b, Imported(b, key, c), key)
<1> DEFINE b1 == AfterRow(b, key, c.rows, Len(c.rows))   b2 == Imported(b, key, c)
<1>1. Len(c.rows) \in Nat
      /\ \A k \in 0 .. Len(c.rows) :
              LET bk == AfterRow(b, key, c.rows, k) IN BookInv(bk) /\ Grew(b, bk, key) /\ bk.closed = b.closed
  BY ZenonT(60), RowsKeep
<1>2. Len(c.rows) \in 0 .. Len(c.rows)
  BY <1>1
<1>3. BookInv(b1) /\ Grew(b, b1, key) /\ b1.closed = b.closed
  BY Zenon, <1>1, <1>2
<1>4. b2 = [b1 EXCEPT !.imports = @ \cup {c.original}]
  BY Zenon DEF Imported
<1> HIDE DEF b1, b2
<1>5. DOMAIN b1 = BookFields
  BY Zenon, <1>3 DEF BookInv, BookFine
<1>6. b2.journal = b1.journal /\ DOMAIN b2 = BookFields
  BY <1>4, <1>5 DEF BookFields
<1>7. BookInv(b2) /\ Grew(b1, b2, key)
  BY Zenon, <1>3, <1>6, JournalKept
<1>8. Grew(b, b2, key)
  BY Zenon, <1>3, <1>7, GrewOn
<1> QED BY Zenon, <1>7, <1>8 DEF b2

-----------------------------------------------------------------------------
(* Commands, whatever they are. *)

IsCommand(c) ==
  \/ IsPost(c)
  \/ IsReverse(c)
  \/ IsClosing(c) \/ IsPlan(c)
  \/ c.operation = "import_commit" /\ IsImport(c)

\* A command that is accepted keeps the books right.
LEMMA ExecutedKeeps ==
  ASSUME NEW b, BookInv(b), NEW key, NEW c, IsCommand(c), Accepts(b, key, c), today \in 1 .. MaxDay, MaxDay \in Nat
  PROVE  BookInv(Executed(b, key, c)) /\ Grew(b, Executed(b, key, c), key)
<1>0. BookFine(b)
  BY Zenon DEF BookInv
<1>1. CASE c.operation = "import_commit" /\ IsImport(c)
  <2>1. RowsFit(b, key, c.rows)
    BY Zenon, <1>1 DEF Accepts
  <2>2. Executed(b, key, c) = Imported(b, key, c)
    BY Zenon, <1>1 DEF Executed
  <2> QED BY Zenon, <1>1, <2>1, <2>2, ImportKeeps
<1>2. CASE IsPost(c)
  <2>1. c.operation # "import_commit"
    BY <1>2 DEF IsPost, Posts
  <2>2. CommandAdmitted(b, Allocated(b, c)) /\ Executed(b, key, c) = Applied(b, key, Allocated(b, c))
    BY Zenon, <2>1 DEF Accepts, Executed
  <2>3. IsPost(Allocated(b, c))
    BY Zenon, <1>0, <1>2, AllocatedPost
  <2> QED BY Zenon, <2>2, <2>3, PostKeeps
<1>3. CASE IsReverse(c) \/ IsClosing(c) \/ IsPlan(c)
  <2>1. c.operation # "import_commit" /\ c.operation # "payment"
    BY <1>3 DEF IsReverse, IsClosing, IsPlan
  <2>2. CommandAdmitted(b, c) /\ Executed(b, key, c) = Applied(b, key, c)
    BY Zenon, <2>1, AllocatedOther DEF Accepts, Executed
  <2> QED BY Zenon, <1>3, <2>2, ReverseKeeps, OtherKeeps
<1> QED BY Zenon, <1>1, <1>2, <1>3 DEF IsCommand

\* What a capture posts is its own entry.
LEMMA CapturePosts ==
  ASSUME NEW b, BookInv(b), NEW key, NEW c, IsPost(c), c.operation = "expense", Accepts(b, key, c),
         today \in 1 .. MaxDay, MaxDay \in Nat
  PROVE  \A e \in Events(Executed(b, key, c)) \ Events(b) : Executed(b, key, c).journal[e].account = c.account
<1>1. c.operation # "import_commit" /\ c.operation # "payment"
  OBVIOUS
<1>2. CommandAdmitted(b, c) /\ Executed(b, key, c) = Applied(b, key, c)
  BY Zenon, <1>1, AllocatedOther DEF Accepts, Executed
<1>3. \A e \in Events(Applied(b, key, c)) \ Events(b) : Applied(b, key, c).journal[e].account = c.account
  <2>1. CommandAdmitted(b, c)
    BY Zenon, <1>2
  <2> QED BY ONLY BookInv(b), IsPost(c), <2>1, today \in 1 .. MaxDay, MaxDay \in Nat, PostKeeps, SMT
<1> QED BY Zenon, <1>2, <1>3

-----------------------------------------------------------------------------
(* The invariant of the ledger. *)

SolusTyped ==
  /\ today \in 1 .. MaxDay
  /\ commands \in [CommandKeys -> {"none", "success", "cancelled"}]
  /\ DOMAIN forms = FormKeys /\ DOMAIN captured = Sources
  /\ defaults.version \in Nat
FormsRight ==
  \A k \in FormKeys : /\ forms[k] = NoCommand \/ IsCommand(forms[k])
                      /\ k \in arriving => forms[k] # NoCommand
\* What a capture read is what the defaults say, or an older edition.
CapturesRight ==
  \A s \in Sources : s \in arriving =>
    /\ IsPost(captured[s]) /\ captured[s].operation = "expense"
    /\ captured[s].routing \in Nat /\ captured[s].routing <= defaults.version
    /\ captured[s].routing = defaults.version => captured[s].account = defaults.account
KeysRight == \A e \in Events(book) : book.journal[e].key \in CommandKeys /\ commands[book.journal[e].key] = "success"
SolusInv == SolusTyped /\ BookInv(book) /\ FormsRight /\ CapturesRight /\ KeysRight

\* An empty book is right.
LEMMA EmptyBookRight == BookInv(EmptyBook)
<1>1. EmptyBook.journal = <<>> /\ DOMAIN EmptyBook = BookFields
  BY DEF EmptyBook, BookFields
<1> DEFINE b == EmptyBook
<1> HIDE DEF b
<1>2. b.journal \in Seq({}) /\ Len(b.journal) = 0 /\ DOMAIN b.journal = {}
  BY <1>1 DEF b
<1>3. BookFine(b) /\ Events(b) = {}
  <2>1. IsJournal(b.journal)
    BY Zenon, <1>2 DEF IsJournal
  <2>2. \A i \in 1 .. Len(b.journal) : FALSE
    BY <1>2
  <2> QED BY Zenon, <1>1, <1>2, <2>1, <2>2 DEF BookFine, Events, b
<1>4. Distinct(b) /\ LotsFine(b)
  BY <1>2, <1>3 DEF Distinct, LotsFine
<1>5. Items(b) = {}
  BY <1>3 DEF Items
<1>6. SettledWithin(b)
  BY <1>3, <1>5 DEF SettledWithin
<1> QED BY Zenon, <1>3, <1>4, <1>6 DEF BookInv, b

\* The ledger starts right.
LEMMA SolusInitInv == SolusInit => SolusInv
<1> SUFFICES ASSUME SolusInit PROVE SolusInv
  OBVIOUS
<1>1. /\ book = EmptyBook /\ commands = [k \in CommandKeys |-> "none"] /\ forms = [k \in FormKeys |-> NoCommand]
      /\ arriving = {} /\ captured = [s \in Sources |-> NoCommand] /\ defaults \in [version : {0}, account : Accounts]
      /\ today = 1
  BY Zenon DEF SolusInit
<1>2. SolusTyped
  BY <1>1, SolusAssumption DEF SolusTyped
<1>3. FormsRight /\ CapturesRight
  BY <1>1 DEF FormsRight, CapturesRight
<1>4. BookInv(book)
  BY Zenon, <1>1, EmptyBookRight
<1>5. Events(book) = {}
  BY <1>1 DEF Events, EmptyBook
<1>6. KeysRight
  BY <1>5 DEF KeysRight
<1> QED BY Zenon, <1>2, <1>3, <1>4, <1>6 DEF SolusInv

\* What a form says is a command, with the revision or the version it read.
LEMMA FormSays ==
  ASSUME NEW c, IsForm(c), NEW r, NEW v, NEW d,
         d = CASE c.operation = "close_period" -> [c EXCEPT !.revision = r]
               [] c.operation = "plan_put" -> [c EXCEPT !.version = v]
               [] OTHER -> c
  PROVE  IsCommand(d)
<1>1. CASE c.operation \in Posts /\ IsPost(c)
  <2>1. d = c
    BY <1>1 DEF Posts
  <2> QED BY Zenon, <1>1, <2>1 DEF IsCommand
<1>2. CASE /\ c.operation = "reverse" /\ c = [operation |-> "reverse", event |-> c.event, day |-> c.day]
           /\ c.event \in Nat /\ c.day \in Nat
  <2>1. d = c
    BY <1>2
  <2>2. IsReverse(c)
    BY Zenon, <1>2 DEF IsReverse
  <2> QED BY Zenon, <2>1, <2>2 DEF IsCommand
<1>3. CASE /\ c.operation = "close_period" /\ c.day \in 0 .. MaxDay
           /\ c = [operation |-> "close_period", day |-> c.day, revision |-> c.revision]
  <2>1. d = [c EXCEPT !.revision = r]
    BY <1>3
  <2>2. d = [operation |-> "close_period", day |-> c.day, revision |-> r]
    BY <1>3, <2>1
  <2>3. IsClosing(d)
    BY <1>3, <2>2 DEF IsClosing
  <2> QED BY Zenon, <2>3 DEF IsCommand
<1>4. CASE c.operation = "plan_put" /\ c = [operation |-> "plan_put", plan |-> c.plan, version |-> c.version]
  <2>1. d = [c EXCEPT !.version = v]
    BY <1>4
  <2>2. d = [operation |-> "plan_put", plan |-> c.plan, version |-> v]
    BY <1>4, <2>1
  <2>3. IsPlan(d)
    BY <2>2 DEF IsPlan
  <2> QED BY Zenon, <2>3 DEF IsCommand
<1>5. CASE /\ c.operation = "import_commit" /\ c.rows \in Seq(ToSet(c.rows))
           /\ \A i \in DOMAIN c.rows : IsRow(c.rows[i])
  <2>1. d = c
    BY <1>5
  <2>2. IsImport(c)
    BY Zenon, <1>5 DEF IsImport
  <2> QED BY Zenon, <1>5, <2>1, <2>2 DEF IsCommand
<1> QED BY Zenon, <1>1, <1>2, <1>3, <1>4, <1>5 DEF IsForm

\* The journal and the keys after a command has run, or has not.
LEMMA RanKeeps ==
  ASSUME SolusInv, NEW k \in CommandKeys, NEW c, IsCommand(c), commands[k] = "none", Accepts(book, k, c),
         book' = Executed(book, k, c), commands' = [commands EXCEPT ![k] = "success"], MaxDay \in Nat
  PROVE  /\ BookInv(book') /\ Grew(book, book', k) /\ KeysRight'
         /\ commands' \in [CommandKeys -> {"none", "success", "cancelled"}]
<1>1. SolusTyped /\ BookInv(book) /\ KeysRight /\ today \in 1 .. MaxDay
      /\ commands \in [CommandKeys -> {"none", "success", "cancelled"}]
  BY Zenon DEF SolusInv, SolusTyped
<1>2. BookInv(book') /\ Grew(book, book', k)
  BY Zenon, <1>1, ExecutedKeeps
<1>3. commands' \in [CommandKeys -> {"none", "success", "cancelled"}]
      /\ commands'[k] = "success" /\ \A j \in CommandKeys : commands[j] = "success" => commands'[j] = "success"
  BY <1>1
<1>4. ASSUME NEW e \in Events(book')
      PROVE  book'.journal[e].key \in CommandKeys /\ commands'[book'.journal[e].key] = "success"
  <2>1. CASE e \in Events(book)
    <3>1. book'.journal[e] = book.journal[e]
      BY Zenon, <1>2, <2>1 DEF Grew
    <3>2. book.journal[e].key \in CommandKeys /\ commands[book.journal[e].key] = "success"
      BY Zenon, <1>1, <2>1 DEF KeysRight
    <3> QED BY Zenon, <1>3, <3>1, <3>2
  <2>2. CASE e \notin Events(book)
    <3>1. book'.journal[e].key = k
      BY <1>2, <1>4, <2>2 DEF Grew
    <3> QED BY Zenon, <1>3, <3>1
  <2> QED BY Zenon, <2>1, <2>2
<1>5. KeysRight'
  BY Zenon, <1>4 DEF KeysRight
<1> QED BY Zenon, <1>2, <1>3, <1>5

\* What a capture composes is a post of an expense.
LEMMA ReadCapture ==
  ASSUME NEW s, NEW day \in Nat, NEW account, NEW routing, NEW id, NEW c,
         c = [operation |-> "expense", day |-> day, occurrence |-> s, amount |-> 1, count |-> 1, quantity |-> 0,
              lot |-> 0, account |-> account, document |-> "none", pays |-> <<>>, routing |-> routing, run |-> id]
  PROVE  IsPost(c) /\ c.operation = "expense" /\ c.routing = routing /\ c.account = account
<1>1. /\ c.operation = "expense" /\ c.day = day /\ c.amount = 1 /\ c.count = 1 /\ c.quantity = 0 /\ c.lot = 0
      /\ c.pays = <<>> /\ c.routing = routing /\ c.account = account
  OBVIOUS
<1>2. c = [f \in PostFields |-> c[f]]
  <2>1. DOMAIN c = PostFields
    BY DEF PostFields
  <2>2. c = [f \in DOMAIN c |-> c[f]]
    OBVIOUS
  <2> QED BY <2>1, <2>2
<1>3. \A item \in DOMAIN c.pays : c.pays[item] \in Nat
  BY <1>1
<1> QED BY <1>1, <1>2, <1>3 DEF IsPost, Posts

\* What a step keeps that runs no command.
LEMMA RestKept ==
  ASSUME SolusInv, UNCHANGED <<book, commands>> PROVE BookInv(book') /\ KeysRight'
BY Zenon DEF SolusInv, KeysRight, Events

\* Every step of the ledger keeps the invariant.
LEMMA SolusStep == SolusInv /\ [SolusNext]_solusVars => SolusInv'
<1> SUFFICES ASSUME SolusInv, [SolusNext]_solusVars PROVE SolusInv'
  OBVIOUS
<1>0. /\ MaxDay \in Nat /\ FormKeys \cap Sources = {} /\ (\A c \in Offered : IsForm(c)) /\ MaxDay \in Nat \ {0}
      /\ {MaxEvents, MaxRuns, MaxSettings, MaxAtOnce} \subseteq Nat
  BY SolusAssumption
<1>1. SolusTyped /\ BookInv(book) /\ FormsRight /\ CapturesRight /\ KeysRight
  BY Zenon DEF SolusInv
<1>2. ASSUME NEW k \in FormKeys, SendAgain(k) PROVE SolusInv'
  <2>1. BookInv(book') /\ KeysRight'
    BY Zenon, <1>2, RestKept DEF SendAgain
  <2>2. SolusTyped'
    BY Zenon, <1>1, <1>2 DEF SolusTyped, SendAgain
  <2>3. FormsRight'
    BY <1>1, <1>2 DEF FormsRight, SendAgain
  <2>4. CapturesRight'
    BY <1>0, <1>1, <1>2 DEF CapturesRight, SendAgain
  <2> QED BY Zenon, <2>1, <2>2, <2>3, <2>4 DEF SolusInv
<1>3. ASSUME NEW k \in FormKeys, RunForm(k) PROVE SolusInv'
  <2>1. /\ k \in arriving /\ arriving' = arriving \ {k} /\ UNCHANGED <<forms, defaults, captured, run, today>>
    BY <1>3 DEF RunForm
  <2>2. BookInv(book') /\ KeysRight' /\ commands' \in [CommandKeys -> {"none", "success", "cancelled"}]
    <3>1. CASE UNCHANGED <<book, commands>>
      BY Zenon, <1>1, <3>1, RestKept DEF SolusTyped
    <3>2. CASE /\ commands[k] = "none" /\ Accepts(book, k, forms[k])
               /\ book' = Executed(book, k, forms[k])
               /\ commands' = [commands EXCEPT ![k] = "success"]
      <4>1. IsCommand(forms[k])
        BY Zenon, <1>1, <2>1 DEF FormsRight
      <4>2. k \in CommandKeys
        BY DEF CommandKeys
      <4> QED BY Zenon, <1>0, <3>2, <4>1, <4>2, RanKeeps
    <3> QED BY Zenon, <1>3, <3>1, <3>2 DEF RunForm
  <2>3. SolusTyped'
    BY Zenon, <1>1, <2>1, <2>2 DEF SolusTyped
  <2>4. FormsRight' /\ CapturesRight'
    BY <1>1, <2>1 DEF FormsRight, CapturesRight
  <2> QED BY Zenon, <2>2, <2>3, <2>4 DEF SolusInv
<1>4. ASSUME NEW k \in FormKeys, Resolve(k) PROVE SolusInv'
  <2>1. /\ commands[k] = "none" /\ commands' = [commands EXCEPT ![k] = "cancelled"]
        /\ UNCHANGED <<book, forms, arriving, defaults, captured, run, today>>
    BY Zenon, <1>4 DEF Resolve
  <2>2. commands' \in [CommandKeys -> {"none", "success", "cancelled"}]
        /\ \A j \in CommandKeys : commands[j] = "success" => commands'[j] = "success"
    BY <1>1, <2>1 DEF SolusTyped
  <2>3. KeysRight' /\ BookInv(book')
    BY Zenon, <1>1, <2>1, <2>2 DEF KeysRight, Events
  <2>4. SolusTyped' /\ FormsRight' /\ CapturesRight'
    BY Zenon, <1>1, <2>1, <2>2 DEF SolusTyped, FormsRight, CapturesRight
  <2> QED BY Zenon, <2>3, <2>4 DEF SolusInv
<1>5. ASSUME NEW k \in FormKeys, NEW c \in Offered, Compose(k, c) PROVE SolusInv'
  <2> DEFINE d == CASE c.operation = "close_period" -> [c EXCEPT !.revision = book.revision]
                    [] c.operation = "plan_put" -> [c EXCEPT !.version = book.plan.version]
                    [] OTHER -> c
  <2>1. /\ forms' = [forms EXCEPT ![k] = d] /\ arriving' = arriving \cup {k}
        /\ UNCHANGED <<book, commands, defaults, captured, run, today>>
    BY Zenon, <1>5 DEF Compose
  <2>2. IsCommand(d)
    BY Zenon, <1>0, FormSays
  <2>3. d # NoCommand
    BY <2>2 DEF IsCommand, IsPost, Posts, IsReverse, IsClosing, IsPlan, NoCommand
  <2> HIDE DEF d
  <2>4. BookInv(book') /\ KeysRight'
    BY Zenon, <2>1, RestKept
  <2>5. SolusTyped'
    BY <1>1, <2>1 DEF SolusTyped
  <2>6. forms'[k] = d /\ \A j \in FormKeys \ {k} : forms'[j] = forms[j]
    BY <1>1, <2>1 DEF SolusTyped
  <2>7. FormsRight'
    BY <1>1, <2>1, <2>2, <2>3, <2>6 DEF FormsRight
  <2>8. CapturesRight'
    BY <1>0, <1>1, <2>1 DEF CapturesRight
  <2> QED BY Zenon, <2>4, <2>5, <2>7, <2>8 DEF SolusInv
<1>6. ASSUME NEW s \in Sources, ReadSource(s) PROVE SolusInv'
  <2> DEFINE c == [operation |-> "expense", day |-> today, occurrence |-> s, amount |-> 1, count |-> 1,
                   quantity |-> 0, lot |-> 0, account |-> defaults.account, document |-> "none", pays |-> <<>>,
                   routing |-> defaults.version, run |-> run.id]
  <2>1. /\ captured' = [captured EXCEPT ![s] = c] /\ arriving' = arriving \cup {s}
        /\ UNCHANGED <<book, commands, forms, defaults, run, today>>
    BY Zenon, <1>6 DEF ReadSource
  <2>2. today \in Nat
    BY <1>1 DEF SolusTyped
  <2>3. IsPost(c) /\ c.operation = "expense" /\ c.routing = defaults.version /\ c.account = defaults.account
    BY ONLY <2>2, ReadCapture, SMT
  <2> HIDE DEF c
  <2>4. BookInv(book') /\ KeysRight'
    BY Zenon, <2>1, RestKept
  <2>5. SolusTyped'
    BY <1>1, <2>1 DEF SolusTyped
  <2>6. captured'[s] = c /\ \A t \in Sources \ {s} : captured'[t] = captured[t]
    BY <1>1, <2>1 DEF SolusTyped
  <2>7. CapturesRight'
    BY <1>1, <2>1, <2>3, <2>6 DEF CapturesRight, SolusTyped
  <2>8. FormsRight'
    BY <1>0, <1>1, <2>1 DEF FormsRight
  <2> QED BY Zenon, <2>4, <2>5, <2>7, <2>8 DEF SolusInv
<1>7. ASSUME NEW s \in Sources, PostCapture(s) PROVE SolusInv'
  <2>1. /\ s \in arriving /\ arriving' = arriving \ {s} /\ captured' = [captured EXCEPT ![s] = NoCommand]
        /\ UNCHANGED <<forms, defaults, run, today>>
    BY <1>7 DEF PostCapture
  <2>2. BookInv(book') /\ KeysRight' /\ commands' \in [CommandKeys -> {"none", "success", "cancelled"}]
    <3>1. CASE UNCHANGED <<book, commands>>
      BY Zenon, <1>1, <3>1, RestKept DEF SolusTyped
    <3>2. CASE /\ commands[s] = "none" /\ Accepts(book, s, captured[s])
               /\ book' = Executed(book, s, captured[s])
               /\ commands' = [commands EXCEPT ![s] = "success"]
      <4>1. IsCommand(captured[s])
        BY Zenon, <1>1, <2>1 DEF CapturesRight, IsCommand
      <4>2. s \in CommandKeys
        BY DEF CommandKeys
      <4> QED BY Zenon, <1>0, <3>2, <4>1, <4>2, RanKeeps
    <3> QED BY Zenon, <1>7, <3>1, <3>2 DEF PostCapture
  <2>3. SolusTyped'
    BY <1>1, <2>1, <2>2 DEF SolusTyped
  <2>4. \A t \in Sources : t \in arriving' => t \in arriving /\ captured'[t] = captured[t]
    BY <1>1, <2>1 DEF SolusTyped
  <2>5. FormsRight' /\ CapturesRight'
    BY <1>1, <2>1, <2>4 DEF FormsRight, CapturesRight
  <2> QED BY Zenon, <2>2, <2>3, <2>5 DEF SolusInv
<1>8. ASSUME NEW a \in Accounts, Configure(a) PROVE SolusInv'
  <2>1. /\ defaults' = [version |-> defaults.version + 1, account |-> a]
        /\ UNCHANGED <<book, commands, forms, arriving, captured, run, today>>
    BY Zenon, <1>8 DEF Configure
  <2>2. BookInv(book') /\ KeysRight'
    BY Zenon, <2>1, RestKept
  <2>3. SolusTyped' /\ FormsRight'
    BY <1>1, <2>1 DEF SolusTyped, FormsRight
  <2>4. CapturesRight'
    BY <1>1, <2>1 DEF CapturesRight, SolusTyped
  <2> QED BY Zenon, <2>2, <2>3, <2>4 DEF SolusInv
<1>9. ASSUME RunOver \/ NewRun \/ Midnight \/ ServerDies \/ UNCHANGED solusVars PROVE SolusInv'
  <2>1. /\ UNCHANGED <<book, commands, forms, defaults>> /\ today' \in 1 .. MaxDay /\ arriving' \subseteq arriving
    <3>1. CASE Midnight
      BY <1>0, <1>1, <3>1 DEF Midnight, SolusTyped
    <3>2. CASE RunOver \/ NewRun \/ ServerDies \/ UNCHANGED solusVars
      BY <1>1, <3>2 DEF RunOver, NewRun, ServerDies, solusVars, SolusTyped
    <3> QED BY Zenon, <1>9, <3>1, <3>2
  <2>2. BookInv(book') /\ KeysRight'
    BY Zenon, <2>1, RestKept
  <2>3. DOMAIN captured' = Sources /\ \A s \in Sources : s \in arriving' => captured'[s] = captured[s]
    <3>1. CASE ServerDies
      BY <3>1 DEF ServerDies
    <3>2. CASE Midnight \/ RunOver \/ NewRun \/ UNCHANGED solusVars
      BY <1>1, <3>2 DEF RunOver, NewRun, Midnight, solusVars, SolusTyped
    <3> QED BY Zenon, <1>9, <3>1, <3>2
  <2>4. SolusTyped'
    BY Zenon, <1>1, <2>1, <2>3 DEF SolusTyped
  <2>5. FormsRight' /\ CapturesRight'
    BY <1>1, <2>1, <2>3 DEF FormsRight, CapturesRight
  <2> QED BY Zenon, <2>2, <2>4, <2>5 DEF SolusInv
<1> QED
  BY Zenon, <1>2, <1>3, <1>4, <1>5, <1>6, <1>7, <1>8, <1>9 DEF SolusNext

\* The invariant says that the books are sound.
LEMMA BooksAreSound == SolusInv => BooksSound
<1> SUFFICES ASSUME SolusInv PROVE BooksSound
  OBVIOUS
<1>1. BookInv(book) /\ KeysRight /\ MaxDay \in Nat
  BY SolusAssumption DEF SolusInv
<1>2. BookFine(book) /\ Distinct(book) /\ SettledWithin(book) /\ LotsFine(book)
  BY Zenon, <1>1 DEF BookInv
<1>3. LotsRight(book)
  BY Zenon, <1>1, <1>2, LotsAreRight
<1>4. PostedOnce
  BY Zenon, <1>1, <1>2 DEF PostedOnce, Distinct, KeysRight
<1> QED BY Zenon, <1>2, <1>3, <1>4 DEF BooksSound

\* For any forms, keys, calendars and defaults: an occurrence is posted once and
\* only under a key that succeeded, no installment is settled beyond its amount, no
\* lot is sold beyond its units or reversed under its sales, and its cost is shared
\* exactly unless a sale was put behind a reversal.
THEOREM BooksHold == SolusSpec => []BooksSound
<1>1. SolusInit => SolusInv
  BY SolusInitInv
<1>2. SolusInv /\ [SolusNext]_solusVars => SolusInv'
  BY SolusStep
<1>3. SolusInv => BooksSound
  BY BooksAreSound
<1> QED BY <1>1, <1>2, <1>3, PTL DEF SolusSpec

-----------------------------------------------------------------------------
(* What is posted. *)

\* A book that stays posts nothing.
LEMMA NothingPosted == ASSUME book' = book PROVE PostingFenced
BY DEF PostingFenced

\* What a step posts, it posts in an open period and to the account of the moment.
LEMMA PostingIsFenced == ASSUME SolusInv, [SolusNext]_solusVars PROVE PostingFenced
<1>0. MaxDay \in Nat /\ FormKeys \cap Sources = {}
  BY SolusAssumption
<1>1. SolusTyped /\ BookInv(book) /\ FormsRight /\ CapturesRight /\ today \in 1 .. MaxDay
  BY Zenon DEF SolusInv, SolusTyped
<1>2. ASSUME NEW k \in FormKeys, RunForm(k) PROVE PostingFenced
  <2>1. CASE book' = book
    BY Zenon, <2>1, NothingPosted
  <2>2. CASE k \in arriving /\ Accepts(book, k, forms[k]) /\ book' = Executed(book, k, forms[k])
    <3>1. IsCommand(forms[k])
      BY Zenon, <1>1, <2>2 DEF FormsRight
    <3>2. Grew(book, book', k)
      BY Zenon, <1>0, <1>1, <2>2, <3>1, ExecutedKeeps
    <3>3. k \notin Sources
      BY <1>0
    <3> QED BY Zenon, <3>2, <3>3 DEF Grew, PostingFenced
  <2> QED BY <1>2, <2>1, <2>2 DEF RunForm
<1>3. ASSUME NEW s \in Sources, PostCapture(s) PROVE PostingFenced
  <2>1. CASE book' = book
    BY Zenon, <2>1, NothingPosted
  <2>2. CASE /\ s \in arriving /\ Fenced(captured[s]) /\ Accepts(book, s, captured[s])
             /\ book' = Executed(book, s, captured[s])
    <3>1. /\ IsPost(captured[s]) /\ captured[s].operation = "expense"
          /\ captured[s].routing = defaults.version => captured[s].account = defaults.account
      BY Zenon, <1>1, <2>2 DEF CapturesRight
    <3>2. run.live /\ captured[s].account = defaults.account
      BY Zenon, <2>2, <3>1 DEF Fenced
    <3>3. Grew(book, Executed(book, s, captured[s]), s)
      <4>1. IsCommand(captured[s])
        BY Zenon, <3>1 DEF IsCommand
      <4>2. BookInv(book) /\ Accepts(book, s, captured[s])
        BY Zenon, <1>1, <2>2
      <4> QED BY ONLY <1>0, <1>1, <4>1, <4>2, ExecutedKeeps, SMT
    <3>4. \A e \in Events(Executed(book, s, captured[s])) \ Events(book) :
            Executed(book, s, captured[s]).journal[e].account = captured[s].account
      <4>1. BookInv(book) /\ Accepts(book, s, captured[s])
        BY Zenon, <1>1, <2>2
      <4> QED BY ONLY <1>0, <1>1, <3>1, <4>1, CapturePosts, SMT
    <3>5. Grew(book, book', s)
      BY Zenon, <2>2, <3>3
    <3>6. \A e \in Events(book') \ Events(book) : book'.journal[e].account = captured[s].account
      BY Zenon, <2>2, <3>4
    <3> QED BY Zenon, <3>2, <3>5, <3>6 DEF Grew, PostingFenced
  <2> QED BY <1>3, <2>1, <2>2 DEF PostCapture
<1>4. ASSUME \/ \E k \in FormKeys : SendAgain(k) \/ Resolve(k) \/ \E c \in Offered : Compose(k, c)
             \/ \E s \in Sources : ReadSource(s)
             \/ (\E a \in Accounts : Configure(a)) \/ RunOver \/ NewRun \/ ServerDies \/ Midnight
             \/ UNCHANGED solusVars
      PROVE  PostingFenced
  <2>1. book' = book
    BY <1>4 DEF SendAgain, Resolve, Compose, ReadSource, Configure, RunOver, NewRun, ServerDies, Midnight, solusVars
  <2> QED BY Zenon, <2>1, NothingPosted
<1> QED BY Zenon, <1>2, <1>3, <1>4 DEF SolusNext

\* Nothing is posted into a closed period, and what Sentinel posts is posted by an
\* active contribution to the account the defaults name at that moment.
THEOREM PostingsHold == SolusSpec => PostingsFenced
<1>1. SolusInit => SolusInv
  BY SolusInitInv
<1>2. SolusInv /\ [SolusNext]_solusVars => SolusInv'
  BY SolusStep
<1>3. SolusInv /\ [SolusNext]_solusVars => [PostingFenced]_solusVars
  BY PostingIsFenced
<1> QED BY <1>1, <1>2, <1>3, PTL DEF SolusSpec, PostingsFenced

(***************************************************************************)
(* The steps of the ledger and of the memory never do what they may not.   *)
(***************************************************************************)
THEOREM StepsFencedHold == SolusSpec /\ IaconSpec => StepsFenced
<1>1. ASSUME UNCHANGED solusVars PROVE PostingFenced
  BY <1>1, NothingPosted DEF solusVars
<1>2. ASSUME UNCHANGED iaconVars PROVE ServedAsCurrent
  BY <1>2 DEF iaconVars, ServedAsCurrent
<1>3. [PostingFenced]_solusVars /\ [ServedAsCurrent]_iaconVars => [PostingFenced /\ ServedAsCurrent]_serviceVars
  BY <1>1, <1>2
<1> QED BY <1>3, PostingsHold, ServedHolds, PTL DEF StepsFenced, PostingsFenced, ServedCurrent
=============================================================================
