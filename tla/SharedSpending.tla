--------------------------- MODULE SharedSpending ---------------------------
(***************************************************************************)
(* The owner's global spending allowance (services/global_budget.py), the   *)
(* model client that reserves from it for every attempt (llm_client.py),    *)
(* paid speech, which reserves by resource units (voice.py), and the gate   *)
(* that lets the backend restart only when nothing paid is under way        *)
(* (backend_restart.py).                                                   *)
(*                                                                         *)
(* A call tries its model and then the fallbacks, one reservation each. An  *)
(* answer may be lost while the provider goes on working, the process may   *)
(* die, midnight passes and the owner changes the policy.                   *)
(***************************************************************************)
EXTENDS Naturals, FiniteSets, FiniteSetsExt

CONSTANTS
  Callers,        \* model calls
  Speech,         \* speech requests, by identity
  Fallbacks,      \* number of models a call may try
  Price,          \* what an attempt reserves, by its number
  SpendPolicies,  \* policies the owner may set
  SpendDays,      \* bound on days
  MaxSpendDeaths  \* bound on process deaths

Attempts == (Callers \X (1..Fallbacks)) \cup (Speech \X {1})

ASSUME SpendingAssumption ==
  /\ IsFiniteSet(Callers) /\ IsFiniteSet(Speech) /\ Callers \cap Speech = {}
  /\ Fallbacks \in Nat \ {0} /\ SpendDays \in Nat \ {0} /\ MaxSpendDeaths \in Nat
  /\ Price \in [1..Fallbacks -> Nat]
  /\ SpendPolicies \subseteq [paused : BOOLEAN, enforce : BOOLEAN, slots : Nat, daily : Nat, lifetime : Nat]

VARIABLES
  policy,         \* GlobalControl
  spentDay,       \* GlobalDay.microdollars
  call,           \* GlobalCall by attempt: its day and status
  stage,          \* where each call or speech request is
  attempt,        \* which model it is trying
  working,        \* attempts the provider is working on
  worked,         \* attempts the provider has taken
  speechRow,      \* SpeechAttempt.status
  day, restarting, spendDeaths

spendVars == <<policy, spentDay, call, stage, attempt, working, worked, speechRow, day, restarting, spendDeaths>>

NoCall == [status |-> "none", day |-> 0]
Trying(c) == <<c, attempt[c]>>

SpendInit ==
  /\ policy \in SpendPolicies
  /\ spentDay = [d \in 1..SpendDays |-> 0]
  /\ call = [a \in Attempts |-> NoCall]
  /\ stage = [c \in Callers \cup Speech |-> "idle"]
  /\ attempt = [c \in Callers \cup Speech |-> 1]
  /\ working = {} /\ worked = {}
  /\ speechRow = [s \in Speech |-> "none"]
  /\ day = 1 /\ restarting = FALSE /\ spendDeaths = 0

\* A mistake: an attempt without an answer gives its slot back.
LiveStarted == Cardinality({a \in Attempts : call[a].status = "started"})

\* Calls that hold a slot: a lost one for as long as its outcome is unknown.
Live == Cardinality({a \in Attempts : call[a].status \in {"started", "unknown"}})

\* What all calls so far have reserved.
Lifetime == MapThenSumSet(LAMBDA a : Price[a[2]], {a \in Attempts : call[a].status # "none"})

\* A mistake: the reservation does not look at the restart.
CanReserveAnyway(a) ==
  /\ ~policy.paused
  /\ Live < policy.slots
  /\ policy.enforce => /\ Lifetime + Price[a[2]] <= policy.lifetime
                       /\ spentDay[day] + Price[a[2]] <= policy.daily

\* _reserve() and _reserve_external() in one transaction, behind admission().
CanReserve(a) ==
  /\ ~restarting
  /\ ~policy.paused
  /\ Live < policy.slots
  /\ policy.enforce => /\ Lifetime + Price[a[2]] <= policy.lifetime
                       /\ spentDay[day] + Price[a[2]] <= policy.daily

Reserved(a) ==
  /\ call' = [call EXCEPT ![a] = [status |-> "started", day |-> day]]
  /\ spentDay' = [spentDay EXCEPT ![day] = @ + Price[a[2]]]

\* stream_message(): the next candidate is reserved, or the call fails.
Reserve(c) ==
  /\ stage[c] \in {"idle", "next"}
  /\ IF CanReserve(Trying(c))
     THEN Reserved(Trying(c)) /\ stage' = [stage EXCEPT ![c] = "open"]
     ELSE UNCHANGED <<call, spentDay>> /\ stage' = [stage EXCEPT ![c] = "failed"]
  /\ UNCHANGED <<policy, attempt, working, worked, speechRow, day, restarting, spendDeaths>>

\* finish(): only a started call changes.
Finish(a, status) == call' = [call EXCEPT ![a].status = IF @ = "started" THEN status ELSE @]

\* The request reaches the provider.
SendRequest(c) ==
  /\ stage[c] = "open"
  /\ Trying(c) \notin worked
  /\ working' = working \cup {Trying(c)} /\ worked' = worked \cup {Trying(c)}
  /\ UNCHANGED <<policy, spentDay, call, stage, attempt, speechRow, day, restarting, spendDeaths>>

\* After a failure to open: the next candidate when the error allows one.
Retried(c, retryable) ==
  IF retryable /\ attempt[c] < Fallbacks
  THEN stage' = [stage EXCEPT ![c] = "next"] /\ attempt' = [attempt EXCEPT ![c] = @ + 1]
  ELSE stage' = [stage EXCEPT ![c] = "failed"] /\ UNCHANGED attempt

\* The provider answers with an HTTP error and does nothing.
HttpError(c) ==
  /\ c \in Callers /\ stage[c] = "open" /\ Trying(c) \notin worked
  /\ Finish(Trying(c), "rejected")
  /\ \E retryable \in BOOLEAN : Retried(c, retryable)
  /\ UNCHANGED <<policy, spentDay, working, worked, speechRow, day, restarting, spendDeaths>>

\* A mistake: a broken connection is taken for a refusal.
TransportRejected(c) ==
  /\ c \in Callers /\ stage[c] = "open"
  /\ Finish(Trying(c), "rejected")
  /\ Retried(c, TRUE)
  /\ UNCHANGED <<policy, spentDay, working, worked, speechRow, day, restarting, spendDeaths>>

\* The connection breaks, before or after the request got through.
Transport(c) ==
  /\ c \in Callers /\ stage[c] = "open"
  /\ Finish(Trying(c), "unknown")
  /\ Retried(c, TRUE)
  /\ UNCHANGED <<policy, spentDay, working, worked, speechRow, day, restarting, spendDeaths>>

\* open() succeeded: from here on there is no second attempt.
Opens(c) ==
  /\ c \in Callers /\ stage[c] = "open" /\ Trying(c) \in worked
  /\ stage' = [stage EXCEPT ![c] = "stream"]
  /\ UNCHANGED <<policy, spentDay, call, attempt, working, worked, speechRow, day, restarting, spendDeaths>>

\* The stream ended with its terminal event and was decoded.
StreamEnds(c) ==
  /\ stage[c] = "stream"
  /\ Trying(c) \notin working
  /\ Finish(Trying(c), "complete")
  /\ stage' = [stage EXCEPT ![c] = "done"]
  /\ UNCHANGED <<policy, spentDay, attempt, working, worked, speechRow, day, restarting, spendDeaths>>

\* Interrupted, invalid, cancelled by its reader, or past the deadline.
StreamBreaks(c) ==
  /\ stage[c] = "stream"
  /\ Finish(Trying(c), "unknown")
  /\ stage' = [stage EXCEPT ![c] = "failed"]
  /\ UNCHANGED <<policy, spentDay, attempt, working, worked, speechRow, day, restarting, spendDeaths>>

(***************************************************************************)
(* Paid speech (Voice.execute)                                             *)
(***************************************************************************)
\* The attempt is admitted once; one that was refused before it had a
\* reservation may be tried again, any other one is held.
SpeechAdmit(s) ==
  /\ stage[s] \in {"idle", "failed"}
  /\ speechRow[s] \in {"none", "rejected"} /\ call[<<s, 1>>] = NoCall
  /\ speechRow' = [speechRow EXCEPT ![s] = "admitted"]
  /\ stage' = [stage EXCEPT ![s] = "reserve"]
  /\ UNCHANGED <<policy, spentDay, call, attempt, working, worked, day, restarting, spendDeaths>>

SpeechReserve(s) ==
  /\ stage[s] = "reserve"
  /\ IF CanReserve(<<s, 1>>)
     THEN /\ Reserved(<<s, 1>>) /\ stage' = [stage EXCEPT ![s] = "mark"]
          /\ UNCHANGED speechRow
     ELSE /\ UNCHANGED <<call, spentDay>> /\ stage' = [stage EXCEPT ![s] = "failed"]
          /\ speechRow' = [speechRow EXCEPT ![s] = "rejected"]
  /\ UNCHANGED <<policy, attempt, working, worked, day, restarting, spendDeaths>>

SpeechMark(s) ==
  /\ stage[s] = "mark"
  /\ speechRow' = [speechRow EXCEPT ![s] = "started"]
  /\ stage' = [stage EXCEPT ![s] = "open"]
  /\ UNCHANGED <<policy, spentDay, call, attempt, working, worked, day, restarting, spendDeaths>>

SpeechDone(s) ==
  /\ s \in Speech /\ stage[s] = "open" /\ <<s, 1>> \in worked \ working
  /\ speechRow' = [speechRow EXCEPT ![s] = "complete"]
  /\ Finish(<<s, 1>>, "complete")
  /\ stage' = [stage EXCEPT ![s] = "done"]
  /\ UNCHANGED <<policy, spentDay, attempt, working, worked, day, restarting, spendDeaths>>

SpeechFails(s) ==
  /\ s \in Speech /\ stage[s] \in {"mark", "open"}
  /\ speechRow' = [speechRow EXCEPT ![s] = "unknown"]
  /\ Finish(<<s, 1>>, "unknown")
  /\ stage' = [stage EXCEPT ![s] = "failed"]
  /\ UNCHANGED <<policy, spentDay, attempt, working, worked, day, restarting, spendDeaths>>

(***************************************************************************)
(* The provider, the owner and the process                                 *)
(***************************************************************************)
ProviderEnds(a) ==
  /\ a \in working
  /\ working' = working \ {a}
  /\ UNCHANGED <<policy, spentDay, call, stage, attempt, worked, speechRow, day, restarting, spendDeaths>>

SavePolicy ==
  /\ policy' \in SpendPolicies \ {policy}
  /\ UNCHANGED <<spentDay, call, stage, attempt, working, worked, speechRow, day, restarting, spendDeaths>>

NextSpendDay ==
  /\ day < SpendDays
  /\ day' = day + 1
  /\ UNCHANGED <<policy, spentDay, call, stage, attempt, working, worked, speechRow, restarting, spendDeaths>>

\* request(), under the lifecycle lock admission() takes too.
RequestRestart ==
  /\ ~restarting
  /\ \A a \in Attempts : call[a].status # "started"
  /\ restarting' = TRUE
  /\ UNCHANGED <<policy, spentDay, call, stage, attempt, working, worked, speechRow, day, spendDeaths>>

\* The process ends, by a restart or on its own; rows stay as they are.
SpenderDies ==
  /\ restarting \/ spendDeaths < MaxSpendDeaths
  /\ spendDeaths' = IF restarting THEN spendDeaths ELSE spendDeaths + 1
  /\ restarting' = FALSE
  /\ stage' = [c \in Callers \cup Speech |-> IF stage[c] = "idle" THEN "idle" ELSE
                 IF stage[c] = "done" THEN "done" ELSE "failed"]
  /\ UNCHANGED <<policy, spentDay, call, attempt, working, worked, speechRow, day>>

SpendNext ==
  \/ \E c \in Callers : Reserve(c) \/ HttpError(c) \/ Transport(c) \/ Opens(c) \/ StreamEnds(c) \/ StreamBreaks(c)
  \/ \E c \in Callers \cup Speech : SendRequest(c)
  \/ \E s \in Speech : SpeechAdmit(s) \/ SpeechReserve(s) \/ SpeechMark(s) \/ SpeechDone(s) \/ SpeechFails(s)
  \/ \E a \in Attempts : ProviderEnds(a)
  \/ SavePolicy \/ NextSpendDay \/ RequestRestart \/ SpenderDies

SpendSpec == SpendInit /\ [][SpendNext]_spendVars

(***************************************************************************)
(* Properties                                                              *)
(***************************************************************************)
CallState(a) ==
  CASE call[a].status = "none" -> "new"
    [] call[a].status = "started" -> "admitted"
    [] call[a].status = "complete" -> "confirmed"
    [] call[a].status = "unknown" -> "unknown"
    [] OTHER -> "refused"

Paid == INSTANCE EffectOnce WITH
  Op <- Attempts, state <- [a \in Attempts |-> CallState(a)],
  times <- [a \in Attempts |-> IF a \in worked THEN 1 ELSE 0]

\* Every paid attempt is on the books before it leaves, leaves at most once, and
\* is written off only when the provider did nothing: fallbacks, lost answers
\* and dead processes included, the calls implement EffectOnce.
PaidOnce == Paid!EffectSpec

\* The requests providers work on at the same time never exceed the widest
\* policy's slots, though callers forget requests that are still being worked on.
RequestsBounded ==
  \E p \in SpendPolicies : Cardinality(working) <= p.slots

\* backend_restart: once a restart is accepted no call of this process is under
\* way or gets under way, so the restart interrupts nothing that is paid for.
RestartQuiet ==
  restarting => \A c \in Callers \cup Speech : stage[c] \notin {"mark", "open", "stream"}
=============================================================================
