---------------------------- MODULE TelegramInbox ----------------------------
(***************************************************************************)
(* Messages from the owner (services/telegram_gateway.py). A webhook call   *)
(* saves the update, asks the Coordinator for a run and notes the run on    *)
(* the saved update. Telegram repeats an update it got no answer for, the   *)
(* drain takes up updates without a run, both may work at the same time,    *)
(* the Coordinator may refuse for the moment and the process may die        *)
(* between any two of these steps.                                         *)
(***************************************************************************)
EXTENDS Naturals

CONSTANTS
  Updates,        \* update identities, natural numbers
  Offset,         \* updates below it were handled before the cutover
  Handlers,       \* concurrent webhook calls and drains
  MaxUnlinks,     \* bound on pairings
  MaxInboxDeaths  \* bound on process deaths

ASSUME InboxAssumption ==
  Updates \subseteq Nat /\ {Offset, MaxUnlinks, MaxInboxDeaths} \subseteq Nat

VARIABLES
  principal,      \* TelegramOwner exists
  paired,         \* TelegramLink.chat_id is the owner's
  nonce,          \* a pairing link is out
  input,          \* TelegramInput: none, saved, noted (run_id set)
  startedRuns,    \* runs of the Coordinator by input identity
  handler,        \* what each call is doing
  unlinks, inboxDeaths

inboxVars == <<principal, paired, nonce, input, startedRuns, handler, unlinks, inboxDeaths>>

IdleHandler == [at |-> "idle", u |-> 0]

InboxInit ==
  /\ principal = FALSE /\ paired = FALSE /\ nonce = FALSE
  /\ input = [u \in Updates |-> "none"]
  /\ startedRuns = [u \in Updates |-> 0]
  /\ handler = [h \in Handlers |-> IdleHandler]
  /\ unlinks = 0 /\ inboxDeaths = 0

\* link(): authenticated settings hand out a nonce.
OfferLink ==
  /\ ~nonce /\ unlinks <= MaxUnlinks
  /\ nonce' = TRUE
  /\ UNCHANGED <<principal, paired, input, startedRuns, handler, unlinks, inboxDeaths>>

\* accept_text() with /start: the first sender becomes the owner.
PairOwner ==
  /\ nonce
  /\ principal' = TRUE /\ paired' = TRUE /\ nonce' = FALSE
  /\ UNCHANGED <<input, startedRuns, handler, unlinks, inboxDeaths>>

DisconnectBot ==
  /\ unlinks < MaxUnlinks
  /\ unlinks' = unlinks + 1
  /\ paired' = FALSE /\ nonce' = FALSE
  /\ UNCHANGED <<principal, input, startedRuns, handler, inboxDeaths>>

\* A mistake: an update that was saved before counts as worked.
TakeNewOnly(h, u) ==
  /\ handler[h] = IdleHandler
  /\ principal /\ paired
  /\ u >= Offset /\ input[u] = "none"
  /\ input' = [input EXCEPT ![u] = "saved"]
  /\ handler' = [handler EXCEPT ![h] = [at |-> "start", u |-> u]]
  /\ UNCHANGED <<principal, paired, nonce, startedRuns, unlinks, inboxDeaths>>

\* The transaction of accept_text() for an update that is not yet worked.
Take(h, u) ==
  /\ handler[h] = IdleHandler
  /\ principal /\ paired
  /\ u >= Offset
  /\ IF startedRuns[u] > 0
     THEN input' = [input EXCEPT ![u] = "noted"] /\ UNCHANGED handler
     ELSE /\ input' = [input EXCEPT ![u] = IF @ = "none" THEN "saved" ELSE @]
          /\ handler' = [handler EXCEPT ![h] = [at |-> "start", u |-> u]]
  /\ UNCHANGED <<principal, paired, nonce, startedRuns, unlinks, inboxDeaths>>

\* receive(): the update arrives, for the first time or again.
Receive(h, u) == Take(h, u)

\* drain(): saved updates without a run are worked again.
DrainInput(h, u) == input[u] = "saved" /\ Take(h, u)

\* A mistake: the Coordinator gives every request a run of its own.
StartRunAlways(h) ==
  /\ handler[h].at = "start"
  /\ handler' = [handler EXCEPT ![h].at = "note"]
  /\ startedRuns' = [startedRuns EXCEPT ![handler[h].u] = @ + 1]
  /\ UNCHANGED <<principal, paired, nonce, input, unlinks, inboxDeaths>>

\* Coordinator.start(): the input identity finds the run it already has.
StartRun(h) ==
  /\ handler[h].at = "start"
  /\ handler' = [handler EXCEPT ![h].at = "note"]
  /\ startedRuns' = [startedRuns EXCEPT ![handler[h].u] = 1]
  /\ UNCHANGED <<principal, paired, nonce, input, unlinks, inboxDeaths>>

\* Coordinator.start() refuses (a full queue, an exhausted allowance).
StartRefused(h) ==
  /\ handler[h].at = "start"
  /\ startedRuns[handler[h].u] = 0
  /\ handler' = [handler EXCEPT ![h] = IdleHandler]
  /\ UNCHANGED <<principal, paired, nonce, input, startedRuns, unlinks, inboxDeaths>>

NoteRun(h) ==
  /\ handler[h].at = "note"
  /\ input' = [input EXCEPT ![handler[h].u] = "noted"]
  /\ handler' = [handler EXCEPT ![h] = IdleHandler]
  /\ UNCHANGED <<principal, paired, nonce, startedRuns, unlinks, inboxDeaths>>

GatewayDies ==
  /\ inboxDeaths < MaxInboxDeaths
  /\ inboxDeaths' = inboxDeaths + 1
  /\ handler' = [h \in Handlers |-> IdleHandler]
  /\ UNCHANGED <<principal, paired, nonce, input, startedRuns, unlinks>>

InboxNext ==
  \/ OfferLink \/ PairOwner \/ DisconnectBot \/ GatewayDies
  \/ \E h \in Handlers :
       \/ StartRun(h) \/ StartRefused(h) \/ NoteRun(h)
       \/ \E u \in Updates : Receive(h, u) \/ DrainInput(h, u)

\* n8n calls the drain again and again; a refusal is not for ever.
InboxFairness ==
  \A h \in Handlers :
    /\ SF_inboxVars(StartRun(h)) /\ WF_inboxVars(NoteRun(h))
    /\ \A u \in Updates : SF_inboxVars(DrainInput(h, u))

InboxSpec == InboxInit /\ [][InboxNext]_inboxVars /\ InboxFairness

(***************************************************************************)
(* Properties                                                              *)
(***************************************************************************)
Work == INSTANCE EffectOnce WITH
  Op <- Updates, times <- startedRuns,
  state <- [u \in Updates |-> CASE input[u] = "none" -> "new"
                                [] input[u] = "saved" -> "admitted"
                                [] OTHER -> "confirmed"]

\* Whatever is repeated, interleaved or interrupted, an update of the owner is
\* worked by at most one run and marked worked only when that run exists.
InputOnce == Work!EffectSpec

\* An update the gateway has saved gets its run, unless the owner unlinks the bot.
InputWorked == \A u \in Updates : input[u] = "saved" ~> input[u] = "noted" \/ ~paired

\* What the owner types is worked, and once.
InputWorkedOnce == InputOnce /\ InputWorked
=============================================================================
