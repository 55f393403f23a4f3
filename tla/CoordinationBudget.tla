------------------------- MODULE CoordinationBudget -------------------------
(***************************************************************************)
(* app/services/coordination_budget.py: the allowance one owner's runs     *)
(* draw on.  Every model call of a room's speakers and of their workers    *)
(* reserves its ceiling in one transaction before it is sent; the charge   *)
(* is never refunded; a call whose answer was lost keeps its slot.         *)
(*                                                                         *)
(* Calls of different runs and of one run overlap.  The provider is        *)
(* external: a request is at work there until it ends, whatever the        *)
(* backend knows about it.  Tokens stand for the conservative ceiling of a *)
(* request; its price is one microdollar a token.  Only cancellation of a  *)
(* run, the loss of its lease and its resumption are taken from module     *)
(* Coordination, in one step each.                                         *)
(***************************************************************************)
EXTENDS Naturals, FiniteSets, FiniteSetsExt

CONSTANTS Runs,
          Calls,        \* call keys: "<step or request id>:<index>"
          RunOf,        \* the run of each call
          Tokens,       \* the token ceiling of each call
          Limits,       \* SpendingPolicy.run and enforce_limits, fixed per run
          Policies,     \* the values the owner's live SpendingPolicy takes
          LastDay,      \* bound on midnights
          MaxCrashes,   \* bound on process deaths
          MaxResumes    \* bound on resumed runs

Days == 0..LastDay

ASSUME BudgetAssumption ==
  /\ IsFiniteSet(Calls)
  /\ RunOf \in [Calls -> Runs] /\ Tokens \in [Calls -> Nat]
  /\ Limits \in [Runs -> [calls : Nat, tokens : Nat, money : Nat,
                          conc : Nat \ {0}, enforce : BOOLEAN]]
  /\ Policies \subseteq [paused : BOOLEAN, enforce : BOOLEAN, calls : Nat,
                         tokens : Nat, conc : Nat \ {0}]
  /\ LastDay \in Nat /\ MaxCrashes \in Nat /\ MaxResumes \in Nat

VARIABLES
  policy,      \* CoordinationControl.policy
  today,
  receipt,     \* ModelCallReceipt.status by call key, "none" without a row
  spent,       \* CoordinationRun.calls, tokens and microdollars
  day,         \* CoordinationDay.calls and tokens
  open,        \* the run is running or waiting_tasks and not cancelled
  lease,       \* lease_until > now, executor = this Coordinator
  pc,          \* where stream() is for each call
  asof,        \* the day reserve() computed, 0 outside reserve()
  wire,        \* requests at work at the provider
  crashes, resumes

vars == <<policy, today, receipt, spent, day, open, lease, pc, asof, wire,
          crashes, resumes>>

Init ==
  /\ policy \in Policies
  /\ today = 0
  /\ receipt = [c \in Calls |-> "none"]
  /\ spent = [r \in Runs |-> [calls |-> 0, tokens |-> 0, money |-> 0]]
  /\ day = [d \in Days |-> [calls |-> 0, tokens |-> 0]]
  /\ open = [r \in Runs |-> TRUE] /\ lease = [r \in Runs |-> TRUE]
  /\ pc = [c \in Calls |-> "idle"]
  /\ asof = [c \in Calls |-> 0]
  /\ wire = {}
  /\ crashes = 0 /\ resumes = 0

-----------------------------------------------------------------------------
CallsOf(r) == {c \in Calls : RunOf[c] = r}

OccupyingStarted(S) == {c \in S : receipt[c] = "started"}
\* The receipts that hold a slot: sent and not known to have ended.
Occupying(S) == {c \in S : receipt[c] \in {"started", "unknown"}}

UncertainUnknown(S) == {c \in S : receipt[c] = "unknown"}
\* Receipts nobody is going to complete: their outcome was lost, or the run
\* they belong to is over or lost its executor.
Uncertain(S) ==
  {c \in S : \/ receipt[c] = "unknown"
             \/ receipt[c] = "started" /\ (~open[RunOf[c]] \/ ~lease[RunOf[c]])}

Active(r) == open[r] /\ lease[r]

WithinRunBefore(c) ==
  LET r == RunOf[c] l == Limits[r] u == spent[r] IN
  ~policy.paused /\ u.calls < l.calls /\ u.tokens < l.tokens /\ (l.enforce => u.money < l.money)
\* The checks of reserve() before its slots: pause, then the run's ceilings.
WithinRun(c) ==
  LET r == RunOf[c] l == Limits[r] u == spent[r] IN
  /\ ~policy.paused
  /\ u.calls + 1 <= l.calls
  /\ u.tokens + Tokens[c] <= l.tokens
  /\ l.enforce => u.money + Tokens[c] <= l.money

RunSlotFree(c) == Cardinality(Occupying(CallsOf(RunOf[c]))) < Limits[RunOf[c]].conc
OwnerSlotFree == Cardinality(Occupying(Calls)) < policy.conc

WithinDay(c) ==
  policy.enforce => /\ day[asof[c]].calls + 1 <= policy.calls
                    /\ day[asof[c]].tokens + Tokens[c] <= policy.tokens

\* stream(): a call key is computed and reserve() looks at the clock.
Begin(c) ==
  /\ pc[c] = "idle" /\ Active(RunOf[c])
  /\ pc' = [pc EXCEPT ![c] = "reserving"]
  /\ asof' = [asof EXCEPT ![c] = today]
  /\ UNCHANGED <<policy, today, receipt, spent, day, open, lease, wire, crashes, resumes>>

\* The charge: to the run, and to the day reserve() saw.
ChargedRun(c) == [spent EXCEPT ![RunOf[c]] =
  [calls |-> @.calls + 1, tokens |-> @.tokens + Tokens[c], money |-> @.money + Tokens[c]]]
ChargedDay(c) == [day EXCEPT ![asof[c]] =
  [calls |-> @.calls + 1, tokens |-> @.tokens + Tokens[c]]]

\* The admission transaction of reserve().
Admit(c) ==
  /\ pc[c] = "reserving" /\ Active(RunOf[c]) /\ receipt[c] = "none"
  /\ WithinRun(c) /\ RunSlotFree(c) /\ OwnerSlotFree /\ WithinDay(c)
  /\ receipt' = [receipt EXCEPT ![c] = "started"]
  /\ spent' = ChargedRun(c)
  /\ day' = ChargedDay(c)
  /\ pc' = [pc EXCEPT ![c] = "admitted"]
  /\ asof' = [asof EXCEPT ![c] = 0]
  /\ UNCHANGED <<policy, today, open, lease, wire, crashes, resumes>>

\* A completed receipt answers a repeated call without a charge.
Replay(c) ==
  /\ pc[c] = "reserving" /\ Active(RunOf[c]) /\ receipt[c] = "complete"
  /\ pc' = [pc EXCEPT ![c] = "done"]
  /\ asof' = [asof EXCEPT ![c] = 0]
  /\ UNCHANGED <<policy, today, receipt, spent, day, open, lease, wire,
                 crashes, resumes>>

\* reserve_when_available: a full slot is waited for, unless one of the
\* receipts that fill it is uncertain.
SlotsFull(c) == /\ Active(RunOf[c]) /\ receipt[c] = "none" /\ WithinRun(c)
                /\ ~RunSlotFree(c) \/ ~OwnerSlotFree
Contended(c) == IF RunSlotFree(c) THEN Calls ELSE CallsOf(RunOf[c])

Wait(c) ==
  /\ pc[c] = "reserving" /\ SlotsFull(c) /\ Uncertain(Contended(c)) = {}
  /\ pc' = [pc EXCEPT ![c] = "waiting"]
  /\ asof' = [asof EXCEPT ![c] = 0]
  /\ UNCHANGED <<policy, today, receipt, spent, day, open, lease, wire,
                 crashes, resumes>>

\* Notified, or 0.2 s later; reserve() looks at the clock again.
Wake(c) ==
  /\ pc[c] = "waiting"
  /\ pc' = [pc EXCEPT ![c] = "reserving"]
  /\ asof' = [asof EXCEPT ![c] = today]
  /\ UNCHANGED <<policy, today, receipt, spent, day, open, lease, wire, crashes, resumes>>

\* Every other outcome of reserve() is an error for the caller.
Refuse(c) ==
  /\ pc[c] = "reserving"
  /\ \/ ~Active(RunOf[c])
     \/ receipt[c] \in {"started", "unknown"}
     \/ receipt[c] = "none" /\ ~WithinRun(c)
     \/ SlotsFull(c) /\ Uncertain(Contended(c)) # {}
     \/ receipt[c] = "none" /\ RunSlotFree(c) /\ OwnerSlotFree /\ ~WithinDay(c)
  /\ pc' = [pc EXCEPT ![c] = "failed"]
  /\ asof' = [asof EXCEPT ![c] = 0]
  /\ UNCHANGED <<policy, today, receipt, spent, day, open, lease, wire,
                 crashes, resumes>>

\* The request leaves for the provider.
Send(c) ==
  /\ pc[c] = "admitted"
  /\ pc' = [pc EXCEPT ![c] = "streaming"]
  /\ wire' = wire \cup {c}
  /\ UNCHANGED <<policy, today, receipt, spent, day, open, lease, asof, crashes, resumes>>

\* The provider is through with a request.
ProviderEnds(c) ==
  /\ c \in wire
  /\ wire' = wire \ {c}
  /\ UNCHANGED <<policy, today, receipt, spent, day, open, lease, pc, asof,
                 crashes, resumes>>

\* The whole answer arrived; the receipt is completed with it.
Complete(c) ==
  /\ pc[c] = "streaming" /\ c \notin wire
  /\ receipt' = [receipt EXCEPT ![c] = "complete"]
  /\ pc' = [pc EXCEPT ![c] = "done"]
  /\ UNCHANGED <<policy, today, spent, day, open, lease, asof, wire, crashes, resumes>>

HeldMisspelt(c) == [receipt EXCEPT ![c] = IF @ = "started" THEN "unkown" ELSE @]
HeldRefunded(c) == [receipt EXCEPT ![c] = "none"]
\* hold(): a call that fails or is cancelled after its admission is unknown.
Held(c) == [receipt EXCEPT ![c] = IF @ = "started" THEN "unknown" ELSE @]

Fail(c) ==
  /\ pc[c] \in {"admitted", "streaming"}
  /\ receipt' = Held(c)
  /\ pc' = [pc EXCEPT ![c] = "failed"]
  /\ UNCHANGED <<policy, today, spent, day, open, lease, asof, wire, crashes, resumes>>

-----------------------------------------------------------------------------
\* save(): an edit of the current version.
Save(p) ==
  /\ p # policy
  /\ policy' = p
  /\ UNCHANGED <<today, receipt, spent, day, open, lease, pc, asof, wire, crashes, resumes>>

Midnight ==
  /\ today < LastDay
  /\ today' = today + 1
  /\ UNCHANGED <<policy, receipt, spent, day, open, lease, pc, asof, wire, crashes, resumes>>

\* The process dies: its calls are gone, their receipts stay as they were.
Crash ==
  /\ crashes < MaxCrashes
  /\ crashes' = crashes + 1
  /\ pc' = [c \in Calls |-> "dead"]
  /\ asof' = [c \in Calls |-> 0]
  /\ UNCHANGED <<policy, today, receipt, spent, day, open, lease, wire, resumes>>

Gone(r) == \A c \in CallsOf(r) : pc[c] = "dead"

\* A run whose executor died is not renewed.
LeaseLapses(r) ==
  /\ lease[r] /\ Gone(r)
  /\ lease' = [lease EXCEPT ![r] = FALSE]
  /\ UNCHANGED <<policy, today, receipt, spent, day, open, pc, asof, wire, crashes, resumes>>

\* cancel() of a run, or recover() of one whose lease lapsed.
Close(r) ==
  /\ open[r]
  /\ open' = [open EXCEPT ![r] = FALSE]
  /\ UNCHANGED <<policy, today, receipt, spent, day, lease, pc, asof, wire, crashes, resumes>>

\* resume(): refused while a receipt of the run is not complete; the new
\* executor makes the same calls again.
Resume(r) ==
  /\ resumes < MaxResumes
  /\ ~open[r] /\ ~lease[r] /\ Occupying(CallsOf(r)) = {}
  /\ open' = [open EXCEPT ![r] = TRUE] /\ lease' = [lease EXCEPT ![r] = TRUE]
  /\ pc' = [c \in Calls |-> IF RunOf[c] = r THEN "idle" ELSE pc[c]]
  /\ resumes' = resumes + 1
  /\ UNCHANGED <<policy, today, receipt, spent, day, asof, wire, crashes>>

CallStep(c) == \/ Begin(c) \/ Admit(c) \/ Replay(c) \/ Wait(c) \/ Wake(c) \/ Refuse(c)
               \/ Send(c) \/ Complete(c)

Next ==
  \/ \E c \in Calls : CallStep(c) \/ Fail(c) \/ ProviderEnds(c)
  \/ \E r \in Runs : LeaseLapses(r) \/ Close(r) \/ Resume(r)
  \/ \E p \in Policies : Save(p)
  \/ Midnight \/ Crash

Spec == Init /\ [][Next]_vars

\* stream() goes on, requests end, and the leases of dead executors lapse.
BudgetFairness == /\ \A c \in Calls : WF_vars(CallStep(c)) /\ WF_vars(ProviderEnds(c))
                  /\ \A r \in Runs : WF_vars(LeaseLapses(r))
FairSpec == Spec /\ BudgetFairness

-----------------------------------------------------------------------------
(* What is checked. *)

\* The type of every variable.
TypeOK ==
  /\ policy \in Policies /\ today \in Days
  /\ receipt \in [Calls -> {"none", "started", "unknown", "complete"}]
  /\ spent \in [Runs -> [calls : Nat, tokens : Nat, money : Nat]]
  /\ day \in [Days -> [calls : Nat, tokens : Nat]]
  /\ open \in [Runs -> BOOLEAN] /\ lease \in [Runs -> BOOLEAN]
  /\ pc \in [Calls -> {"idle", "reserving", "waiting", "admitted", "streaming",
                       "done", "failed", "dead"}]
  /\ asof \in [Calls -> Days] /\ wire \subseteq Calls
  /\ crashes \in 0..MaxCrashes /\ resumes \in 0..MaxResumes

\* However calls overlap, fail, are replayed or resumed, a run never exceeds
\* the ceilings fixed at its admission.
RunCeiling ==
  \A r \in Runs :
    /\ spent[r].calls <= Limits[r].calls
    /\ spent[r].tokens <= Limits[r].tokens
    /\ Limits[r].enforce => spent[r].money <= Limits[r].money

\* "No guessed cache refunds": the counters are the sum of every reservation
\* ever admitted, each charged once, to its run and to one day.
LedgerAgrees ==
  LET charged(S) == {c \in S : receipt[c] # "none"}
      sum(S) == MapThenSumSet(LAMBDA c : Tokens[c], S)
  IN /\ \A r \in Runs : /\ spent[r].calls = Cardinality(charged(CallsOf(r)))
                        /\ spent[r].tokens = sum(charged(CallsOf(r)))
                        /\ spent[r].money = spent[r].tokens
     /\ MapThenSumSet(LAMBDA d : day[d].calls, Days) = Cardinality(charged(Calls))
     /\ MapThenSumSet(LAMBDA d : day[d].tokens, Days) = sum(charged(Calls))

\* The provider never works on more requests of a run than the run's slots, nor
\* on more of the owner's than the widest policy, though answers get lost and
\* processes die while requests are at work.
InFlightBounded ==
  /\ \A r \in Runs : Cardinality(wire \cap CallsOf(r)) <= Limits[r].conc
  /\ \E p \in Policies : Cardinality(wire) <= p.conc

\* "Wait only for known in-flight admission slots": a call stops waiting even
\* if its deadline never comes, because a slot nobody will free is an error.
NoWaitForever == \A c \in Calls : pc[c] = "waiting" ~> pc[c] \notin {"waiting", "reserving"}
=============================================================================
