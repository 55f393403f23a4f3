------------------------ MODULE SharedSpendingProofs ------------------------
(***************************************************************************)
(* Proofs about SharedSpending, for any callers, fallbacks, prices and     *)
(* policies: the state's shape, the quiet restart, the bound on requests   *)
(* at work, and that paid attempts implement EffectOnce.                   *)
(***************************************************************************)
EXTENDS SharedSpending, FiniteSetTheorems, TLAPS

Spenders == Callers \cup Speech
Statuses == {"none", "started", "complete", "unknown", "rejected"}
Stages == {"idle", "next", "reserve", "mark", "open", "stream", "done", "failed"}

SpendTypeOK ==
  /\ policy \in SpendPolicies
  /\ spentDay \in [1..SpendDays -> Nat]
  /\ call \in [Attempts -> [status : Statuses, day : Nat]]
  /\ stage \in [Spenders -> Stages]
  /\ attempt \in [Spenders -> 1..Fallbacks]
  /\ working \in SUBSET Attempts /\ worked \in SUBSET Attempts
  /\ day \in 1..SpendDays
  /\ restarting \in BOOLEAN

\* Who is under way, and how: the stages of a call and of a speech request
\* differ, speech has one attempt, and later candidates are untouched.
Course ==
  /\ \A c \in Callers : stage[c] \notin {"reserve", "mark"}
  /\ \A s \in Speech : stage[s] \notin {"next", "stream"} /\ attempt[s] = 1
  /\ \A c \in Callers, k \in 1..Fallbacks : k > attempt[c] => call[<<c, k>>] = NoCall
  /\ \A c \in Spenders : stage[c] \in {"idle", "next", "reserve"} => call[Trying(c)] = NoCall

\* What the rows say of the requests.
Booked ==
  /\ \A c \in Spenders : stage[c] \in {"mark", "open", "stream"} => call[Trying(c)].status = "started"
  /\ \A s \in Spenders : stage[s] = "mark" => Trying(s) \notin worked
  /\ \A c \in Spenders : stage[c] = "stream" => Trying(c) \in worked
  /\ \A a \in Attempts : call[a].status \in {"none", "rejected"} => a \notin worked
  /\ \A a \in Attempts : call[a].status = "complete" => a \in worked \ working
  /\ working \subseteq worked

SpendInv == SpendTypeOK /\ Course /\ Booked /\ RestartQuiet

-----------------------------------------------------------------------------
(* The invariant. *)

\* What a spender is trying is one of the attempts, and no one else's.
LEMMA TryingType ==
  ASSUME SpendTypeOK, Course
  PROVE  /\ \A c \in Spenders : Trying(c) \in Attempts
         /\ \A s \in Speech : Trying(s) = <<s, 1>>
         /\ \A c \in Callers, k \in 1..Fallbacks : <<c, k>> \in Attempts
         /\ \A a \in Attempts : a = <<a[1], a[2]>> /\ a[1] \in Spenders /\ a[2] \in 1..Fallbacks
  BY SMTT(60), SpendingAssumption DEF SpendTypeOK, Course, Trying, Attempts, Spenders

LEMMA SpendInitInv == SpendInit => SpendInv
<1> SUFFICES ASSUME SpendInit PROVE SpendInv
  OBVIOUS
<1>1. SpendTypeOK
  <2>1. NoCall \in [status : Statuses, day : Nat] /\ "idle" \in Stages
    BY DEF NoCall, Statuses, Stages
  <2>2. 1 \in 1..Fallbacks /\ 1 \in 1..SpendDays
    BY SpendingAssumption
  <2> QED BY <2>1, <2>2 DEF SpendInit, SpendTypeOK, Spenders
<1>2. Course
  BY <1>1, SpendingAssumption DEF SpendInit, Course, Spenders, Trying, Attempts, NoCall
<1>3. Booked
  BY <1>1 DEF SpendInit, Booked, Spenders, NoCall
<1> QED BY <1>1, <1>2, <1>3 DEF SpendInv, RestartQuiet, SpendInit

\* The reservation of an untouched attempt writes its row and the day's sum.
LEMMA ReservedRow ==
  ASSUME SpendTypeOK, NEW a \in Attempts, Reserved(a), a[2] \in 1..Fallbacks
  PROVE  /\ call' \in [Attempts -> [status : Statuses, day : Nat]]
         /\ spentDay' \in [1..SpendDays -> Nat]
         /\ call'[a].status = "started"
         /\ \A b \in Attempts : b # a => call'[b] = call[b]
  BY SMTT(60), SpendingAssumption DEF SpendTypeOK, Reserved, Statuses

\* Finishing writes the status of one started row.
LEMMA FinishedRow ==
  ASSUME SpendTypeOK, NEW a \in Attempts, NEW st \in Statuses, Finish(a, st),
         call[a].status = "started"
  PROVE  /\ call' \in [Attempts -> [status : Statuses, day : Nat]]
         /\ call'[a].status = st
         /\ \A b \in Attempts : b # a => call'[b] = call[b]
  BY DEF SpendTypeOK, Finish, Statuses

\* A row that changes leaves the other spenders' attempts alone.
LEMMA OthersKept ==
  ASSUME SpendTypeOK, Course, NEW c \in Spenders, NEW d \in Spenders, c # d
  PROVE  Trying(c) # Trying(d)
  BY DEF Trying

\* Every step keeps the types.
LEMMA SpendTypeStep ==
  ASSUME SpendInv, [SpendNext]_spendVars
  PROVE  SpendTypeOK'
<1> USE DEF SpendInv
<1>0. Callers \subseteq Spenders /\ Speech \subseteq Spenders
  BY DEF Spenders
<1>1. ASSUME NEW c \in Callers, Reserve(c) PROVE SpendTypeOK'
  <2>1. Trying(c) \in Attempts /\ Trying(c)[2] \in 1..Fallbacks
    BY <1>0, TryingType
  <2>2. CASE Reserved(Trying(c))
    BY <1>0, <1>1, <2>1, <2>2, ReservedRow DEF Reserve, SpendTypeOK, Stages
  <2>3. CASE UNCHANGED <<call, spentDay>>
    BY <1>0, <1>1, <2>3 DEF Reserve, SpendTypeOK, Stages
  <2> QED BY <1>1, <2>2, <2>3 DEF Reserve
<1>2. ASSUME NEW c \in Callers, HttpError(c) \/ Transport(c) \/ StreamEnds(c) \/ StreamBreaks(c)
      PROVE  SpendTypeOK'
  <2>1. Trying(c) \in Attempts /\ call[Trying(c)].status = "started"
    BY <1>0, <1>2, TryingType DEF HttpError, Transport, StreamEnds, StreamBreaks, Booked
  <2>2. PICK st \in {"rejected", "unknown", "complete"} : Finish(Trying(c), st)
    BY <1>2 DEF HttpError, Transport, StreamEnds, StreamBreaks
  <2>3. call' \in [Attempts -> [status : Statuses, day : Nat]]
    BY <2>1, <2>2, FinishedRow DEF Statuses
  <2>4. attempt' \in [Spenders -> 1..Fallbacks] /\ stage' \in [Spenders -> Stages]
    <3>1. ASSUME NEW r \in BOOLEAN, Retried(c, r)
          PROVE  attempt' \in [Spenders -> 1..Fallbacks] /\ stage' \in [Spenders -> Stages]
      <4>1. attempt[c] < Fallbacks => attempt[c] + 1 \in 1..Fallbacks
        BY SMTT(60), <1>0, SpendingAssumption DEF SpendTypeOK
      <4> QED BY <3>1, <4>1 DEF Retried, SpendTypeOK, Stages
    <3> QED BY <1>2, <3>1 DEF HttpError, Transport, StreamEnds, StreamBreaks, SpendTypeOK, Stages
  <2> QED BY <1>2, <2>3, <2>4 DEF HttpError, Transport, StreamEnds, StreamBreaks, SpendTypeOK
<1>3. ASSUME NEW c \in Callers, Opens(c) PROVE SpendTypeOK'
  BY <1>3 DEF Opens, SpendTypeOK, Stages
<1>4. ASSUME NEW c \in Spenders, SendRequest(c) PROVE SpendTypeOK'
  BY <1>4, TryingType DEF SendRequest, SpendTypeOK
<1>5. ASSUME NEW s \in Speech, SpeechReserve(s) PROVE SpendTypeOK'
  <2>1. <<s, 1>> \in Attempts /\ <<s, 1>>[2] \in 1..Fallbacks
    BY <1>0, TryingType, SpendingAssumption
  <2>2. CASE Reserved(<<s, 1>>)
    BY <1>5, <2>1, <2>2, ReservedRow DEF SpeechReserve, SpendTypeOK, Stages
  <2>3. CASE UNCHANGED <<call, spentDay>>
    BY <1>5, <2>3 DEF SpeechReserve, SpendTypeOK, Stages
  <2> QED BY <1>5, <2>2, <2>3 DEF SpeechReserve
<1>6. ASSUME NEW s \in Speech, SpeechDone(s) \/ SpeechFails(s) PROVE SpendTypeOK'
  <2>1. <<s, 1>> \in Attempts /\ call[<<s, 1>>].status = "started"
    BY <1>0, <1>6, TryingType DEF SpeechDone, SpeechFails, Booked
  <2>2. PICK st \in {"unknown", "complete"} : Finish(<<s, 1>>, st)
    BY <1>6 DEF SpeechDone, SpeechFails
  <2>3. call' \in [Attempts -> [status : Statuses, day : Nat]]
    BY <2>1, <2>2, FinishedRow DEF Statuses
  <2> QED BY <1>6, <2>3 DEF SpeechDone, SpeechFails, SpendTypeOK, Stages
<1>7. ASSUME NEW s \in Speech, SpeechAdmit(s) \/ SpeechMark(s) PROVE SpendTypeOK'
  BY <1>7 DEF SpeechAdmit, SpeechMark, SpendTypeOK, Stages
<1>8. ASSUME NEW a \in Attempts, ProviderEnds(a) PROVE SpendTypeOK'
  BY <1>8 DEF ProviderEnds, SpendTypeOK
<1>9. CASE NextSpendDay
  BY SMTT(60), <1>9, SpendingAssumption DEF NextSpendDay, SpendTypeOK
<1>10. CASE SpenderDies
  <2>1. "idle" \in Stages /\ "done" \in Stages /\ "failed" \in Stages
    BY DEF Stages
  <2> QED BY <1>10, <2>1 DEF SpenderDies, SpendTypeOK, Spenders
<1>11. CASE SavePolicy \/ RequestRestart \/ UNCHANGED spendVars
  BY <1>11 DEF SavePolicy, RequestRestart, spendVars, SpendTypeOK
<1> QED
  BY <1>1, <1>2, <1>3, <1>4, <1>5, <1>6, <1>7, <1>8, <1>9, <1>10, <1>11 DEF SpendNext, Spenders

\* A step of one spender touches its own stage, its attempt and that row only.
OwnStep(c) ==
  /\ \A d \in Spenders : d # c => stage'[d] = stage[d] /\ attempt'[d] = attempt[d]
  /\ \A a \in Attempts : a # Trying(c) => call'[a] = call[a]
  /\ \A a \in Attempts : a # Trying(c) => (a \in worked' <=> a \in worked)
  /\ working' \ {Trying(c)} \subseteq working

LEMMA OwnSteps ==
  ASSUME SpendInv, NEW c \in Spenders,
         \/ c \in Callers /\ (Reserve(c) \/ HttpError(c) \/ Transport(c) \/ Opens(c) \/ StreamEnds(c) \/ StreamBreaks(c))
         \/ SendRequest(c)
         \/ c \in Speech /\ (SpeechAdmit(c) \/ SpeechReserve(c) \/ SpeechMark(c) \/ SpeechDone(c) \/ SpeechFails(c))
  PROVE  OwnStep(c)
<1>1. SpendTypeOK /\ Course /\ Trying(c) \in Attempts /\ (c \in Speech => Trying(c) = <<c, 1>>)
  BY TryingType DEF SpendInv
<1>2. \A d \in Spenders : d # c => stage'[d] = stage[d]
  BY <1>1 DEF SpendTypeOK, Reserve, HttpError, Transport, Opens, StreamEnds, StreamBreaks, SendRequest,
              SpeechAdmit, SpeechReserve, SpeechMark, SpeechDone, SpeechFails, Retried
<1>3. \A d \in Spenders : d # c => attempt'[d] = attempt[d]
  BY <1>1 DEF SpendTypeOK, Reserve, HttpError, Transport, Opens, StreamEnds, StreamBreaks, SendRequest,
              SpeechAdmit, SpeechReserve, SpeechMark, SpeechDone, SpeechFails, Retried
<1>4. \A a \in Attempts : a # Trying(c) => call'[a] = call[a]
  BY <1>1 DEF SpendTypeOK, Reserve, HttpError, Transport, Opens, StreamEnds, StreamBreaks, SendRequest,
              SpeechAdmit, SpeechReserve, SpeechMark, SpeechDone, SpeechFails, Reserved, Finish
<1>5. /\ \A a \in Attempts : a # Trying(c) => (a \in worked' <=> a \in worked)
      /\ working' \ {Trying(c)} \subseteq working
  BY <1>1 DEF Reserve, HttpError, Transport, Opens, StreamEnds, StreamBreaks, SendRequest,
              SpeechAdmit, SpeechReserve, SpeechMark, SpeechDone, SpeechFails
<1> QED BY <1>2, <1>3, <1>4, <1>5 DEF OwnStep

\* Such a step keeps the course when it does so for its own spender.
LEMMA CourseOwn ==
  ASSUME SpendInv, SpendTypeOK', NEW c \in Spenders, OwnStep(c),
         c \in Callers => stage'[c] \notin {"reserve", "mark"} /\ attempt'[c] >= attempt[c],
         c \in Speech => stage'[c] \notin {"next", "stream"} /\ attempt'[c] = 1,
         stage'[c] \in {"idle", "next", "reserve"} => call'[Trying(c)'] = NoCall
  PROVE  Course'
<1>1. SpendTypeOK /\ Course /\ Callers \subseteq Spenders /\ Speech \subseteq Spenders
  BY DEF SpendInv, Spenders
<1>2. \A d \in Spenders : d # c => Trying(d)' = Trying(d) /\ call'[Trying(d)] = call[Trying(d)]
  BY <1>1, TryingType, OthersKept DEF OwnStep, Trying
<1>3. \A d \in Callers, k \in 1..Fallbacks : k > attempt'[d] => call'[<<d, k>>] = NoCall
  <2>1. SUFFICES ASSUME NEW d \in Callers, NEW k \in 1..Fallbacks, k > attempt'[d]
                 PROVE  call'[<<d, k>>] = NoCall
    OBVIOUS
  <2>2. d \in Spenders /\ attempt[d] \in Nat /\ attempt'[d] \in Nat /\ k \in Nat
    <3>1. d \in Spenders /\ attempt[d] \in 1..Fallbacks /\ attempt'[d] \in 1..Fallbacks
      BY <1>1 DEF SpendTypeOK
    <3> QED BY <3>1
  <2>3. k > attempt[d]
    <3>1. CASE d = c
      BY <2>1, <2>2, <3>1
    <3>2. CASE d # c
      BY <2>1, <2>2, <3>2 DEF OwnStep
    <3> QED BY <3>1, <3>2
  <2>4. <<d, k>> \in Attempts /\ <<d, k>> # Trying(c)
    BY <1>1, <2>2, <2>3, TryingType DEF Trying
  <2> QED BY <1>1, <2>3, <2>4 DEF OwnStep, Course
<1>4. \A d \in Spenders : stage'[d] \in {"idle", "next", "reserve"} => call'[Trying(d)'] = NoCall
  BY <1>1, <1>2 DEF OwnStep, Course
<1>5. /\ \A d \in Callers : stage'[d] \notin {"reserve", "mark"}
      /\ \A s \in Speech : stage'[s] \notin {"next", "stream"} /\ attempt'[s] = 1
  BY <1>1 DEF OwnStep, Course
<1> QED BY <1>3, <1>4, <1>5 DEF Course, Trying

\* ... and what the rows say, likewise.
LEMMA BookedOwn ==
  ASSUME SpendInv, SpendTypeOK', NEW c \in Spenders, OwnStep(c),
         stage'[c] \in {"mark", "open", "stream"} =>
           call'[Trying(c)].status = "started" /\ attempt'[c] = attempt[c],
         stage'[c] = "mark" => Trying(c) \notin worked',
         stage'[c] = "stream" => Trying(c) \in worked',
         call'[Trying(c)].status \in {"none", "rejected"} => Trying(c) \notin worked',
         call'[Trying(c)].status = "complete" => Trying(c) \in worked' \ working',
         Trying(c) \in working' => Trying(c) \in worked'
  PROVE  Booked'
<1>1. SpendTypeOK /\ Course /\ Booked
  BY DEF SpendInv
<1>2. \A d \in Spenders : d # c => Trying(d)' = Trying(d) /\ Trying(d) # Trying(c) /\ Trying(d) \in Attempts
                                 /\ call'[Trying(d)] = call[Trying(d)]
  BY <1>1, TryingType, OthersKept DEF OwnStep, Trying
<1>3. stage'[c] \in {"mark", "open", "stream"} => Trying(c)' = Trying(c)
  BY DEF Trying
<1>4. \A d \in Spenders : stage'[d] \in {"mark", "open", "stream"} => call'[Trying(d)'].status = "started"
  BY <1>1, <1>2, <1>3 DEF OwnStep, Booked
<1>5. /\ \A s \in Spenders : stage'[s] = "mark" => Trying(s)' \notin worked'
      /\ \A d \in Spenders : stage'[d] = "stream" => Trying(d)' \in worked'
  BY <1>1, <1>2, <1>3 DEF OwnStep, Booked
<1>6. /\ \A a \in Attempts : call'[a].status \in {"none", "rejected"} => a \notin worked'
      /\ \A a \in Attempts : call'[a].status = "complete" => a \in worked' \ working'
  BY <1>1 DEF OwnStep, Booked
<1>7. working' \subseteq worked'
  BY <1>1 DEF OwnStep, Booked, SpendTypeOK
<1> QED BY <1>4, <1>5, <1>6, <1>7 DEF Booked, Trying

\* Every step keeps the course and the books.
LEMMA SpendStep ==
  ASSUME SpendInv, [SpendNext]_spendVars
  PROVE  Course' /\ Booked'
<1>0. /\ SpendTypeOK /\ Course /\ Booked /\ SpendTypeOK'
      /\ Callers \subseteq Spenders /\ Speech \subseteq Spenders /\ Callers \cap Speech = {}
  BY SpendTypeStep, SpendingAssumption DEF SpendInv, Spenders
<1>t. ASSUME NEW c \in Spenders
      PROVE  /\ Trying(c) \in Attempts /\ call[Trying(c)] \in [status : Statuses, day : Nat]
             /\ (c \in Speech => Trying(c) = <<c, 1>>) /\ attempt[c] \in Nat
  <2>1. Trying(c) \in Attempts /\ attempt[c] \in 1..Fallbacks /\ (c \in Speech => Trying(c) = <<c, 1>>)
    BY <1>0, TryingType DEF SpendTypeOK
  <2> QED BY <1>0, <2>1, SpendingAssumption DEF SpendTypeOK
<1>1. ASSUME NEW c \in Callers, Reserve(c) PROVE Course' /\ Booked'
  <2>1. OwnStep(c) /\ c \notin Speech /\ attempt'[c] = attempt[c] /\ Trying(c)' = Trying(c)
    BY <1>0, <1>1, OwnSteps DEF Reserve, Trying
  <2>2. call[Trying(c)] = NoCall /\ Trying(c) \notin worked /\ Trying(c) \notin worked'
    BY <1>0, <1>1, <1>t DEF Reserve, Course, Booked, NoCall
  <2>3. \/ stage'[c] = "open" /\ call'[Trying(c)].status = "started"
        \/ stage'[c] = "failed" /\ call'[Trying(c)] = NoCall
    BY <1>0, <1>1, <1>t, <2>2 DEF Reserve, Reserved, SpendTypeOK
  <2>4. Trying(c) \notin working'
    BY <1>0, <1>1, <2>2 DEF Reserve, Booked
  <2> QED BY <1>0, <1>t, <2>1, <2>2, <2>3, <2>4, CourseOwn, BookedOwn DEF NoCall
<1>2. ASSUME NEW c \in Callers, HttpError(c) \/ Transport(c) PROVE Course' /\ Booked'
  <2>1. OwnStep(c) /\ c \notin Speech /\ call[Trying(c)].status = "started" /\ attempt[c] \in 1..Fallbacks
    BY <1>0, <1>2, OwnSteps DEF HttpError, Transport, Booked, SpendTypeOK
  <2>2. /\ call'[Trying(c)].status \in {"rejected", "unknown"}
        /\ call'[Trying(c)].status = "rejected" => Trying(c) \notin worked'
        /\ working' = working /\ worked' = worked
    <3>1. \/ Finish(Trying(c), "rejected") /\ Trying(c) \notin worked
          \/ Finish(Trying(c), "unknown")
      BY <1>2 DEF HttpError, Transport
    <3>2. working' = working /\ worked' = worked
      BY <1>2 DEF HttpError, Transport
    <3> QED BY <1>0, <1>t, <2>1, <3>1, <3>2, FinishedRow DEF Statuses
  <2>3. \/ stage'[c] = "next" /\ attempt'[c] = attempt[c] + 1 /\ attempt[c] < Fallbacks
        \/ stage'[c] = "failed" /\ attempt'[c] = attempt[c]
    BY <1>0, <1>2 DEF HttpError, Transport, Retried, SpendTypeOK
  <2>4. stage'[c] = "next" => call'[Trying(c)'] = NoCall
    <3>1. HAVE stage'[c] = "next"
    <3>2. Trying(c)' = <<c, attempt[c] + 1>> /\ attempt[c] + 1 \in 1..Fallbacks /\ attempt[c] + 1 > attempt[c]
      BY <2>1, <2>3, <3>1, SpendingAssumption DEF Trying
    <3>3. Trying(c)' \in Attempts /\ Trying(c)' # Trying(c) /\ call[Trying(c)'] = NoCall
      BY <1>0, <2>1, <3>2, TryingType DEF Trying, Course
    <3> QED BY <2>1, <3>3 DEF OwnStep
  <2>5. attempt'[c] >= attempt[c]
    BY <2>1, <2>3, SpendingAssumption
  <2> QED BY <1>0, <2>1, <2>2, <2>3, <2>4, <2>5, CourseOwn, BookedOwn DEF Booked
<1>3. ASSUME NEW c \in Callers, Opens(c) \/ StreamEnds(c) \/ StreamBreaks(c) PROVE Course' /\ Booked'
  <2>1. OwnStep(c) /\ c \notin Speech /\ call[Trying(c)].status = "started" /\ attempt' = attempt
        /\ Trying(c) \in worked /\ working' = working /\ worked' = worked
    BY <1>0, <1>3, OwnSteps DEF Opens, StreamEnds, StreamBreaks, Booked
  <2>2. \/ stage'[c] = "stream" /\ call'[Trying(c)].status = "started"
        \/ stage'[c] = "done" /\ call'[Trying(c)].status = "complete" /\ Trying(c) \notin working
        \/ stage'[c] = "failed" /\ call'[Trying(c)].status = "unknown"
    BY <1>0, <1>3, <1>t, <2>1 DEF Opens, StreamEnds, StreamBreaks, Finish, SpendTypeOK
  <2> QED BY <1>0, <1>t, <2>1, <2>2, CourseOwn, BookedOwn
<1>4. ASSUME NEW c \in Spenders, SendRequest(c) PROVE Course' /\ Booked'
  <2>1. OwnStep(c) /\ stage' = stage /\ attempt' = attempt /\ call' = call /\ stage[c] = "open"
        /\ Trying(c) \in worked' /\ call[Trying(c)].status = "started"
    BY <1>0, <1>4, OwnSteps DEF SendRequest, Booked
  <2> QED BY <1>0, <1>t, <2>1, CourseOwn, BookedOwn DEF Course
<1>5. ASSUME NEW s \in Speech, SpeechAdmit(s) \/ SpeechReserve(s) \/ SpeechMark(s) PROVE Course' /\ Booked'
  <2>1. OwnStep(s) /\ s \notin Callers /\ s \in Spenders /\ Trying(s) = <<s, 1>> /\ Trying(s)' = <<s, 1>>
        /\ attempt' = attempt /\ attempt[s] = 1 /\ working' = working /\ worked' = worked
    BY <1>0, <1>5, <1>t, OwnSteps DEF SpeechAdmit, SpeechReserve, SpeechMark, Trying, Course
  <2>2. Trying(s) \notin worked
    BY <1>0, <1>5, <1>t, <2>1 DEF SpeechAdmit, SpeechReserve, SpeechMark, Course, Booked, NoCall
  <2>3. \/ stage'[s] = "reserve" /\ call'[Trying(s)] = NoCall
        \/ stage'[s] \in {"mark", "open"} /\ call'[Trying(s)].status = "started"
        \/ stage'[s] = "failed" /\ call'[Trying(s)] = NoCall
    <3>1. CASE SpeechAdmit(s) \/ SpeechMark(s)
      BY <1>0, <2>1, <3>1 DEF SpeechAdmit, SpeechMark, SpendTypeOK, Booked
    <3>2. CASE SpeechReserve(s)
      <4>1. \/ stage'[s] = "mark" /\ Reserved(Trying(s))
            \/ stage'[s] = "failed" /\ call' = call
        BY <1>0, <2>1, <3>2 DEF SpeechReserve, SpendTypeOK
      <4>2. Trying(s) \in Attempts /\ Trying(s)[2] \in 1..Fallbacks /\ call[Trying(s)] = NoCall
        BY <1>0, <2>1, <3>2, TryingType DEF SpeechReserve, Course
      <4> QED BY <1>0, <4>1, <4>2, ReservedRow
    <3> QED BY <1>5, <3>1, <3>2
  <2>4. Trying(s) \notin working'
    BY <1>0, <2>1, <2>2 DEF Booked
  <2> QED BY <1>0, <2>1, <2>2, <2>3, <2>4, CourseOwn, BookedOwn DEF NoCall
<1>6. ASSUME NEW s \in Speech, SpeechDone(s) \/ SpeechFails(s) PROVE Course' /\ Booked'
  <2>1. OwnStep(s) /\ s \notin Callers /\ s \in Spenders /\ Trying(s) = <<s, 1>> /\ Trying(s)' = <<s, 1>>
        /\ attempt' = attempt /\ attempt[s] = 1 /\ working' = working /\ worked' = worked
        /\ call[Trying(s)].status = "started"
    BY <1>0, <1>6, <1>t, OwnSteps DEF SpeechDone, SpeechFails, Trying, Course, Booked
  <2>2. \/ stage'[s] = "done" /\ call'[Trying(s)].status = "complete" /\ Trying(s) \in worked \ working
        \/ stage'[s] = "failed" /\ call'[Trying(s)].status = "unknown"
    <3>1. \/ stage'[s] = "done" /\ Finish(Trying(s), "complete") /\ Trying(s) \in worked \ working
          \/ stage'[s] = "failed" /\ Finish(Trying(s), "unknown")
      BY <1>0, <1>6, <2>1 DEF SpeechDone, SpeechFails, SpendTypeOK
    <3> QED BY <1>0, <1>t, <2>1, <3>1, FinishedRow DEF Statuses
  <2> QED BY <1>0, <2>1, <2>2, CourseOwn, BookedOwn DEF Booked
<1>7. ASSUME NEW a \in Attempts, ProviderEnds(a) PROVE Course' /\ Booked'
  BY <1>0, <1>7 DEF ProviderEnds, Course, Booked, Trying
<1>8. CASE SavePolicy \/ NextSpendDay \/ RequestRestart \/ UNCHANGED spendVars
  BY <1>0, <1>8 DEF SavePolicy, NextSpendDay, RequestRestart, spendVars, Course, Booked, Trying
<1>9. CASE SpenderDies
  <2>1. \A c \in Spenders : stage'[c] \in {"idle", "done", "failed"} /\ (stage'[c] = "idle" => stage[c] = "idle")
    BY <1>9 DEF SpenderDies, Spenders
  <2> QED BY <1>0, <1>9, <2>1 DEF SpenderDies, Course, Booked, Trying
<1> QED
  BY <1>1, <1>2, <1>3, <1>4, <1>5, <1>6, <1>7, <1>8, <1>9 DEF SpendNext, Spenders

\* Once a restart is accepted nothing gets under way.
LEMMA QuietStep ==
  ASSUME SpendInv, [SpendNext]_spendVars
  PROVE  RestartQuiet'
<1>0. /\ SpendTypeOK /\ Course /\ Booked /\ RestartQuiet
      /\ Callers \subseteq Spenders /\ Speech \subseteq Spenders /\ Callers \cup Speech = Spenders
  BY DEF SpendInv, Spenders
<1>1. ASSUME NEW c \in Spenders,
             \/ Reserve(c) \/ HttpError(c) \/ Transport(c) \/ Opens(c) \/ StreamEnds(c) \/ StreamBreaks(c)
             \/ SendRequest(c)
             \/ SpeechAdmit(c) \/ SpeechReserve(c) \/ SpeechMark(c) \/ SpeechDone(c) \/ SpeechFails(c)
      PROVE  RestartQuiet'
  <2>1. restarting' = restarting
    BY <1>1 DEF Reserve, HttpError, Transport, Opens, StreamEnds, StreamBreaks, SendRequest,
                SpeechAdmit, SpeechReserve, SpeechMark, SpeechDone, SpeechFails
  <2>2. restarting => \A d \in Spenders : stage'[d] \notin {"mark", "open", "stream"}
    BY <1>0, <1>1 DEF RestartQuiet, SpendTypeOK, CanReserve, Retried,
                Reserve, HttpError, Transport, Opens, StreamEnds, StreamBreaks, SendRequest,
                SpeechAdmit, SpeechReserve, SpeechMark, SpeechDone, SpeechFails
  <2> QED BY <1>0, <2>1, <2>2 DEF RestartQuiet
<1>2. CASE RequestRestart
  <2>1. \A c \in Spenders : Trying(c) \in Attempts
    BY <1>0, TryingType
  <2> QED BY <1>0, <1>2, <2>1 DEF RequestRestart, RestartQuiet, Booked
<1>3. CASE SpenderDies
  BY <1>3 DEF SpenderDies, RestartQuiet
<1>4. CASE (\E a \in Attempts : ProviderEnds(a)) \/ SavePolicy \/ NextSpendDay \/ UNCHANGED spendVars
  BY <1>0, <1>4 DEF ProviderEnds, SavePolicy, NextSpendDay, spendVars, RestartQuiet
<1> QED BY <1>0, <1>1, <1>2, <1>3, <1>4 DEF SpendNext

\* Every reachable state of the allowance has the shape of SpendInv.
THEOREM SpendingShape == SpendSpec => []SpendInv
<1>1. SpendInv /\ [SpendNext]_spendVars => SpendInv'
  BY SpendTypeStep, SpendStep, QuietStep DEF SpendInv
<1> QED BY <1>1, SpendInitInv, PTL DEF SpendSpec

\* A restart that was accepted interrupts nothing that is paid for, whatever
\* was reserved, lost or handed to a fallback before.
THEOREM RestartsQuietly == SpendSpec => []RestartQuiet
<1>1. SpendInv => RestartQuiet
  BY DEF SpendInv
<1> QED BY <1>1, SpendingShape, PTL

-----------------------------------------------------------------------------
(* The attempts implement EffectOnce. *)

\* A finished row is its attempt's new state and no other's.
LEMMA FinishedState ==
  ASSUME SpendTypeOK, NEW a \in Attempts, NEW st \in {"complete", "unknown", "rejected"},
         Finish(a, st), call[a].status = "started"
  PROVE  [b \in Attempts |-> CallState(b)]' =
           [[b \in Attempts |-> CallState(b)] EXCEPT ![a] =
              IF st = "complete" THEN "confirmed" ELSE IF st = "unknown" THEN "unknown" ELSE "refused"]
<1>1. call'[a].status = st /\ \A b \in Attempts : b # a => call'[b] = call[b]
  BY FinishedRow DEF Statuses
<1> QED BY <1>1 DEF CallState

\* A step that gives up one attempt.
LEMMA GivenUp ==
  ASSUME SpendTypeOK, NEW a \in Attempts, Finish(a, "unknown"), call[a].status = "started",
         worked' = worked
  PROVE  Paid!EffectNext
<1>1. [b \in Attempts |-> CallState(b)]' = [b \in Attempts |-> IF b \in {a} THEN "unknown" ELSE CallState(b)]
  BY FinishedState
<1>2. CallState(a) = "admitted"
  BY DEF CallState
<1>3. Paid!GiveUp({a})
  BY <1>1, <1>2 DEF Paid!GiveUp
<1> QED BY <1>3 DEF Paid!EffectNext

\* Every step is a step of EffectOnce on the attempt it is about, or none.
LEMMA PaidStep ==
  ASSUME SpendInv, [SpendNext]_spendVars
  PROVE  [Paid!EffectNext]_(Paid!effectVars)
<1>0. /\ SpendTypeOK /\ Course /\ Booked
      /\ Callers \subseteq Spenders /\ Speech \subseteq Spenders
  BY DEF SpendInv, Spenders
<1>q. ASSUME call' = call, worked' = worked PROVE UNCHANGED Paid!effectVars
  BY <1>q DEF Paid!effectVars, CallState
<1>t. \A c \in Spenders : Trying(c) \in Attempts /\ (c \in Speech => Trying(c) = <<c, 1>>)
  BY <1>0, TryingType
<1>1. ASSUME NEW a \in Attempts, call[a] = NoCall, Reserved(a), worked' = worked PROVE Paid!EffectNext
  <2>1. a[2] \in 1..Fallbacks
    BY <1>0, TryingType
  <2>2. call'[a].status = "started" /\ \A b \in Attempts : b # a => call'[b] = call[b]
    BY <1>0, <1>1, <2>1, ReservedRow
  <2>3. CallState(a) = "new" /\ CallState(a)' = "admitted" /\ \A b \in Attempts : b # a => CallState(b)' = CallState(b)
    BY <1>1, <2>2 DEF CallState, NoCall
  <2>4. Paid!Admit(a)
    BY <1>1, <2>3 DEF Paid!Admit
  <2> QED BY <2>4 DEF Paid!EffectNext
<1>2. ASSUME NEW c \in Callers, Reserve(c) PROVE [Paid!EffectNext]_(Paid!effectVars)
  <2>1. Trying(c) \in Attempts /\ call[Trying(c)] = NoCall /\ worked' = worked
    BY <1>0, <1>2, <1>t DEF Reserve, Course
  <2> QED BY <1>1, <1>2, <1>q, <2>1 DEF Reserve
<1>3. ASSUME NEW c \in Callers, HttpError(c) PROVE Paid!EffectNext
  <2>1. Trying(c) \in Attempts /\ call[Trying(c)].status = "started" /\ Trying(c) \notin worked
        /\ Finish(Trying(c), "rejected") /\ worked' = worked
    BY <1>0, <1>3, <1>t DEF HttpError, Booked
  <2>2. Paid!Refuse(Trying(c))
    BY <1>0, <2>1, FinishedState DEF Paid!Refuse, CallState
  <2> QED BY <2>1, <2>2 DEF Paid!EffectNext
<1>4. ASSUME NEW c \in Callers, Transport(c) \/ StreamBreaks(c) PROVE Paid!EffectNext
  <2>1. Trying(c) \in Attempts /\ call[Trying(c)].status = "started"
        /\ Finish(Trying(c), "unknown") /\ worked' = worked
    BY <1>0, <1>4, <1>t DEF Transport, StreamBreaks, Booked
  <2> QED BY <1>0, <2>1, GivenUp
<1>5. ASSUME NEW a \in Attempts, call[a].status = "started", a \in worked, Finish(a, "complete"), worked' = worked
      PROVE  Paid!EffectNext
  <2>1. Paid!Confirm(a)
    BY <1>0, <1>5, FinishedState DEF Paid!Confirm, CallState
  <2> QED BY <2>1 DEF Paid!EffectNext
<1>6. ASSUME NEW c \in Callers, StreamEnds(c) PROVE Paid!EffectNext
  BY <1>0, <1>5, <1>6, <1>t DEF StreamEnds, Booked
<1>7. ASSUME NEW c \in Spenders, SendRequest(c) PROVE Paid!EffectNext
  <2>1. PICK a \in Attempts : a = Trying(c)
    BY <1>t
  <2>2. call[a].status = "started" /\ a \notin worked /\ call' = call /\ worked' = worked \cup {a}
    BY <1>0, <1>7, <2>1 DEF SendRequest, Booked
  <2>3. Paid!Happen(a)
    BY <2>2 DEF Paid!Happen, CallState
  <2> QED BY <2>3 DEF Paid!EffectNext
<1>8. ASSUME NEW s \in Speech, SpeechReserve(s) PROVE [Paid!EffectNext]_(Paid!effectVars)
  <2>1. <<s, 1>> \in Attempts /\ call[<<s, 1>>] = NoCall /\ worked' = worked
    BY <1>0, <1>8, <1>t DEF SpeechReserve, Course
  <2> QED BY <1>1, <1>8, <1>q, <2>1 DEF SpeechReserve
<1>9. ASSUME NEW s \in Speech, SpeechDone(s) \/ SpeechFails(s) PROVE Paid!EffectNext
  <2>1. <<s, 1>> \in Attempts /\ call[<<s, 1>>].status = "started" /\ worked' = worked
    BY <1>0, <1>9, <1>t DEF SpeechDone, SpeechFails, Booked
  <2> QED BY <1>0, <1>5, <1>9, <2>1, GivenUp DEF SpeechDone, SpeechFails
<1>10. CASE UNCHANGED <<call, worked>>
  BY <1>10, <1>q
<1>11. ASSUME NEW c \in Callers, Opens(c) PROVE UNCHANGED <<call, worked>>
  BY <1>11 DEF Opens
<1>12. ASSUME NEW s \in Speech, SpeechAdmit(s) \/ SpeechMark(s) PROVE UNCHANGED <<call, worked>>
  BY <1>12 DEF SpeechAdmit, SpeechMark
<1>13. ASSUME (\E a \in Attempts : ProviderEnds(a)) \/ SavePolicy \/ NextSpendDay \/ RequestRestart \/ SpenderDies
              \/ UNCHANGED spendVars
       PROVE  UNCHANGED <<call, worked>>
  BY <1>13 DEF ProviderEnds, SavePolicy, NextSpendDay, RequestRestart, SpenderDies, spendVars
<1> QED
  BY <1>2, <1>3, <1>4, <1>6, <1>7, <1>8, <1>9, <1>10, <1>11, <1>12, <1>13 DEF SpendNext, Spenders

\* Every paid attempt is reserved before it leaves, leaves at most once and is
\* written off only when the provider did nothing: for any callers, fallbacks,
\* policies and deaths the attempts implement EffectOnce.
THEOREM SpendingPaysOnce == SpendSpec => PaidOnce
<1>1. SpendInit => Paid!EffectInit
  BY DEF SpendInit, Paid!EffectInit, CallState, NoCall
<1>2. SpendInv /\ [SpendNext]_spendVars => [Paid!EffectNext]_(Paid!effectVars)
  BY PaidStep
<1> QED BY <1>1, <1>2, SpendingShape, PTL DEF SpendSpec, PaidOnce, Paid!EffectSpec

-----------------------------------------------------------------------------
(* The requests at work. *)

\* The attempts that hold a slot.
Holding == {a \in Attempts : call[a].status \in {"started", "unknown"}}

SlotsTaken ==
  /\ working \subseteq Holding
  /\ \E p \in SpendPolicies : Cardinality(Holding) <= p.slots

\* The attempts are finitely many.
LEMMA HoldingFinite ==
  /\ IsFiniteSet(Attempts)
  /\ \A S \in SUBSET Attempts : IsFiniteSet(S) /\ Cardinality(S) \in Nat
<1>1. IsFiniteSet(1..Fallbacks) /\ IsFiniteSet({1})
  <2>1. 1 \in Int /\ Fallbacks \in Int
    BY SpendingAssumption
  <2>2. IsFiniteSet(1..Fallbacks)
    BY <2>1, FS_Interval
  <2> QED BY <2>2, FS_Singleton
<1>2. IsFiniteSet(Attempts)
  BY <1>1, SpendingAssumption, FS_Product, FS_Union DEF Attempts
<1> QED BY <1>2, FS_Subset, FS_CardinalityType

\* A step after which no attempt newly holds a slot keeps the bound.
LEMMA HoldingShrinks ==
  ASSUME SlotsTaken, \A a \in Attempts : call'[a].status \in {"started", "unknown"}
                                          => call[a].status \in {"started", "unknown"}
  PROVE  \E p \in SpendPolicies : Cardinality(Holding') <= p.slots
<1>1. Holding' \subseteq Holding /\ Holding \in SUBSET Attempts /\ Holding' \in SUBSET Attempts
  BY DEF Holding
<1>2. Cardinality(Holding') <= Cardinality(Holding) /\ Cardinality(Holding) \in Nat /\ Cardinality(Holding') \in Nat
  BY <1>1, HoldingFinite, FS_Subset
<1>3. PICK p \in SpendPolicies : Cardinality(Holding) <= p.slots
  BY DEF SlotsTaken
<1>4. p.slots \in Nat
  BY SpendingAssumption
<1> QED BY <1>2, <1>3, <1>4

\* A reservation takes a slot that the policy in force has free.
LEMMA HoldingGrows ==
  ASSUME SpendTypeOK, NEW a \in Attempts, Live < policy.slots, Reserved(a)
  PROVE  \E p \in SpendPolicies : Cardinality(Holding') <= p.slots
<1>1. a[2] \in 1..Fallbacks
  BY SpendingAssumption DEF Attempts
<1>2. Holding' = Holding \cup {a} /\ Holding \in SUBSET Attempts /\ Holding' \in SUBSET Attempts
  BY <1>1, ReservedRow DEF Holding
<1>3. Cardinality(Holding') <= Cardinality(Holding) + 1 /\ Cardinality(Holding) \in Nat /\ Cardinality(Holding') \in Nat
  BY <1>2, HoldingFinite, FS_AddElement
<1>4. policy \in SpendPolicies /\ policy.slots \in Nat /\ Cardinality(Holding) < policy.slots
  BY SpendingAssumption DEF SpendTypeOK, Live, Holding
<1> QED BY <1>3, <1>4

\* Every step keeps the slots.
LEMMA SlotsStep ==
  ASSUME SpendInv, SlotsTaken, [SpendNext]_spendVars
  PROVE  SlotsTaken'
<1>0. /\ SpendTypeOK /\ Course /\ Booked /\ SpendTypeOK' /\ Course' /\ Booked'
      /\ Callers \subseteq Spenders /\ Speech \subseteq Spenders /\ working \subseteq Holding
  BY SpendTypeStep, SpendStep DEF SpendInv, Spenders, SlotsTaken
<1>t. \A c \in Spenders : Trying(c) \in Attempts /\ (c \in Speech => Trying(c) = <<c, 1>>)
  BY <1>0, TryingType
<1>w. working' \subseteq Holding'
  <2>1. \A a \in working' : a \in Attempts /\ call'[a].status \in Statuses
                         /\ call'[a].status \notin {"none", "rejected", "complete"}
    BY <1>0 DEF Booked, SpendTypeOK
  <2> QED BY <2>1 DEF Holding, Statuses
<1>k. ASSUME \A a \in Attempts : call'[a].status \in {"started", "unknown"} => call[a].status \in {"started", "unknown"}
      PROVE  SlotsTaken'
  BY <1>k, <1>w, HoldingShrinks DEF SlotsTaken, Holding
<1>g. ASSUME NEW a \in Attempts, CanReserve(a), Reserved(a) PROVE SlotsTaken'
  BY <1>0, <1>g, <1>w, HoldingGrows DEF SlotsTaken, Holding, CanReserve
<1>e. ASSUME NEW a \in Attempts, NEW st \in {"complete", "unknown", "rejected"},
             Finish(a, st), call[a].status = "started"
      PROVE  SlotsTaken'
  <2>1. \A b \in Attempts : b # a => call'[b] = call[b]
    BY <1>0, <1>e, FinishedRow DEF Statuses
  <2> QED BY <1>e, <1>k, <2>1
<1>1. ASSUME NEW c \in Callers, Reserve(c) PROVE SlotsTaken'
  <2>1. PICK a \in Attempts : a = Trying(c)
    BY <1>0, <1>t
  <2>2. (CanReserve(a) /\ Reserved(a)) \/ call' = call
    BY <1>1, <2>1 DEF Reserve, Reserved
  <2> QED BY <1>g, <1>k, <2>2
<1>2. ASSUME NEW c \in Callers, HttpError(c) \/ Transport(c) \/ StreamEnds(c) \/ StreamBreaks(c) PROVE SlotsTaken'
  <2>1. PICK a \in Attempts : a = Trying(c)
    BY <1>0, <1>t
  <2>2. call[a].status = "started" /\ \E st \in {"complete", "unknown", "rejected"} : Finish(a, st)
    BY <1>0, <1>2, <2>1 DEF HttpError, Transport, StreamEnds, StreamBreaks, Booked, Finish
  <2> QED BY <1>e, <2>2
<1>3. ASSUME NEW s \in Speech, SpeechReserve(s) PROVE SlotsTaken'
  <2>1. <<s, 1>> \in Attempts
    BY <1>0, <1>t
  <2> QED BY <1>3, <1>g, <1>k, <2>1 DEF SpeechReserve
<1>4. ASSUME NEW s \in Speech, SpeechDone(s) \/ SpeechFails(s) PROVE SlotsTaken'
  <2>1. <<s, 1>> \in Attempts /\ call[<<s, 1>>].status = "started"
    BY <1>0, <1>4, <1>t DEF SpeechDone, SpeechFails, Booked
  <2> QED BY <1>4, <1>e, <2>1 DEF SpeechDone, SpeechFails
<1>5. CASE UNCHANGED call
  BY <1>5, <1>k
<1>6. ASSUME NEW c \in Spenders, (c \in Callers /\ Opens(c)) \/ SendRequest(c)
                                 \/ (c \in Speech /\ (SpeechAdmit(c) \/ SpeechMark(c)))
      PROVE  UNCHANGED call
  BY <1>6 DEF Opens, SendRequest, SpeechAdmit, SpeechMark
<1>7. ASSUME (\E a \in Attempts : ProviderEnds(a)) \/ SavePolicy \/ NextSpendDay \/ RequestRestart \/ SpenderDies
             \/ UNCHANGED spendVars
      PROVE  UNCHANGED call
  BY <1>7 DEF ProviderEnds, SavePolicy, NextSpendDay, RequestRestart, SpenderDies, spendVars
<1> QED
  BY <1>1, <1>2, <1>3, <1>4, <1>5, <1>6, <1>7 DEF SpendNext, Spenders

\* Lost answers keep their slot, so providers never work on more requests at
\* once than the widest policy the owner may set has slots.
THEOREM SpendingSlots == SpendSpec => []RequestsBounded
<1>1. ASSUME SpendInit PROVE SlotsTaken
  <2>1. Holding = {} /\ working = {} /\ policy \in SpendPolicies
    BY <1>1 DEF SpendInit, Holding, NoCall
  <2>2. Cardinality({}) = 0 /\ policy.slots \in Nat
    BY <2>1, FS_EmptySet, SpendingAssumption
  <2> QED BY <2>1, <2>2 DEF SlotsTaken
<1>2. ASSUME SlotsTaken PROVE RequestsBounded
  <2>1. PICK p \in SpendPolicies : Cardinality(Holding) <= p.slots
    BY <1>2 DEF SlotsTaken
  <2>2. working \subseteq Holding /\ Holding \in SUBSET Attempts /\ p.slots \in Nat
    BY <1>2, SpendingAssumption DEF SlotsTaken, Holding
  <2>3. Cardinality(working) <= Cardinality(Holding) /\ Cardinality(working) \in Nat /\ Cardinality(Holding) \in Nat
    BY <2>2, HoldingFinite, FS_Subset
  <2> QED BY <2>1, <2>2, <2>3 DEF RequestsBounded
<1> QED BY <1>1, <1>2, SlotsStep, SpendingShape, PTL DEF SpendSpec
=============================================================================
