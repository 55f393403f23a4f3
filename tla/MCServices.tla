----------------------------- MODULE MCServices -----------------------------
(***************************************************************************)
(* The services beside the rooms, each explored on its own and in parts:   *)
(* the books of Solus, the memory of Iacon and its sending to Telegram,    *)
(* the library's mirror, the accounts of Google and Microsoft, the health  *)
(* samples of the telephone.                                               *)
(***************************************************************************)
EXTENDS Solus, Iacon, Library, Accounts, Health

CONSTANTS c1, c2
VARIABLE part     \* which part of which component moves

serviceVars == <<solusVars, iaconVars, libraryVars, accountVars, healthVars, part>>

----------------------------------------------------------------------------
\* Solus: one bill paid twice and reversed, one lot sold and reversed, and the
\* desk: a period closed, a plan, two overlapping statements.
Form(op, day, occurrence, amount) ==
  [operation |-> op, day |-> day, occurrence |-> occurrence, amount |-> amount, count |-> 1, quantity |-> 0,
   lot |-> 0, account |-> "bank", document |-> "none", pays |-> <<>>, routing |-> 0, run |-> 0]
Undo(e, day) == [operation |-> "reverse", event |-> e, day |-> day]
ClosePeriod(day) == [operation |-> "close_period", day |-> day, revision |-> 0]
Plan(kind) == [operation |-> "plan_put", plan |-> kind, version |-> 0]
Statement(original, rows) == [operation |-> "import_commit", original |-> original, rows |-> rows]
ByDocument(occurrence, amount) == [Form("payment", 1, occurrence, amount) EXCEPT !.document = "b"]
Sell(occurrence, day) == [Form("sell", day, occurrence, 0) EXCEPT !.quantity = 1, !.lot = 1]
Expense == Form("expense", 1, "e", 1)
Row == Form("expense", 2, "r2", 1)

Bills ==
  <<[Form("bill", 1, "b", 3) EXCEPT !.count = 2], [Form("payment", 2, "p1", 2) EXCEPT !.pays = (<<1, 1>> :> 2)],
    ByDocument("p2", 2), ByDocument("p3", 1), Undo(1, 2), Undo(2, 2), Undo(3, 2)>>
Lots ==
  <<[Form("buy", 1, "l", 5) EXCEPT !.quantity = 3], Sell("x1", 1), Sell("x1", 2), Sell("x2", 1), Sell("x2", 2),
    Undo(1, 1), Undo(1, 2), Undo(2, 1), Undo(2, 2), Undo(3, 1), Undo(3, 2)>>
Desk ==
  {ClosePeriod(1), ClosePeriod(0), Plan("budget"), Plan("goal"), Expense,
   Statement("o1", <<Form("expense", 1, "r1", 1), Row>>), Statement("o2", <<Row, Expense>>)}
MCOffered == ToSet(Bills \o Lots) \cup Desk

UsedKeys == {k \in FormKeys : forms'[k] # NoCommand}
OnlyForms(S) == \A k \in FormKeys : forms'[k] # forms[k] => forms'[k] \in S
\* The keys are alike: they are used in their order, and the forms of one list
\* in its order. (A form that was lost or refused is run when it is sent again.)
InOrder == \A k \in UsedKeys : k = 1 \/ k - 1 \in UsedKeys
Place(list, form) == CHOOSE i \in DOMAIN list : list[i] = form
InListOrder(list) ==
  /\ OnlyForms(ToSet(list))
  /\ forms' # forms => InOrder /\ \A k \in UsedKeys \ {1} : Place(list, forms'[k - 1]) <= Place(list, forms'[k])
Routing == <<captured, defaults, run>>

BillsPart == SolusNext /\ InListOrder(Bills) /\ UNCHANGED Routing /\ \A k \in FormKeys : commands'[k] # "cancelled"
LotsPart == SolusNext /\ InListOrder(Lots) /\ UNCHANGED Routing /\ \A k \in FormKeys : commands'[k] # "cancelled"
DeskPart ==
  /\ SolusNext /\ UNCHANGED Routing /\ InOrder /\ Cardinality(UsedKeys) <= 3
  /\ \A k \in FormKeys : forms'[k] # forms[k] => forms'[k] \in Desk \/ forms'[k].operation \in {"close_period", "plan_put"}
CapturesPart == SolusNext /\ InOrder /\ OnlyForms({Expense}) /\ Cardinality(UsedKeys) <= 1

----------------------------------------------------------------------------
\* Iacon: the work of one note, two slices and one review; the questions of
\* its second slice; the memory a turn is given.
NotesPart ==
  /\ IaconNext /\ UNCHANGED <<turn, telegram>>
  /\ (record' # record /\ orion.pc # "answered") => (record'.phase = "open" /\ record'.version = 2)
  /\ \A u \in Units : work'[u].status = "discarded" => u[2] \in Agents
QuestionsPart ==
  /\ IaconNext /\ UNCHANGED turn
  /\ orion'.pc = "asking" => orion'.job[3] = 1 /\ notes[orion'.job[2]].bound > 0
  /\ orion.pc \in {"idle", "between"} =>
       \A u \in Units : /\ work'[u].status # "discarded"
                        /\ work'[u].status \in {"held", "quarantined"} => work'[u] = work[u]
  /\ orion.pc # "idle" => iaconDeaths' = iaconDeaths
  /\ iaconDays' + iaconDeaths' <= 1
  /\ record'.phase # "retracted"
  /\ \A a \in Agents : work'[<<"review", a, 1>>].status = "none"
GivenPart ==
  /\ IaconNext /\ orion'.pc = "idle" /\ sending' = 0
  /\ \A n \in Notes : notes'[n].outcome = "none"
  /\ \A u \in Units : work'[u].status = "none"

----------------------------------------------------------------------------
\* The library: two editions of one document.
TheEditions == [first |-> "hall", second |-> "hall"]
TheFirst == [hall |-> "first"]

----------------------------------------------------------------------------
\* The accounts: the owner links and unlinks; two calls at once; every tool; a
\* recurring event is split.
AllTools == Tools
Mailing == \A c \in AccountCalls : calls'[c].pc # "idle" => calls'[c].tool = "gmail_send"
LinkPart == AccountsNext /\ UNCHANGED calendarVars /\ Mailing /\ calls'[c2].pc = "idle"
PairPart == AccountsNext /\ UNCHANGED calendarVars /\ Mailing /\ signIns' <= 1 /\ accountDeaths' = 0
CallsPart ==
  AccountsNext /\ UNCHANGED calendarVars /\ signIns' <= 1 /\ accountDeaths' = 0 /\ client'.epoch <= 1
  /\ calls'[c2].pc = "idle"
CalendarPart == AccountsNext /\ UNCHANGED linkVars

----------------------------------------------------------------------------
\* Health: three samples, two kinds of metric; two uploads, or one upload and
\* two questions.
TheMetrics == ("k1" :> "steps" @@ "k2" :> "steps" @@ "k3" :> "heart")
TheKinds == ("steps" :> "cumulative" @@ "heart" :> "instant")
TheBudgets == ("steps" :> 1 @@ "heart" :> 1)
Sample(value, day, end) == [value |-> value, day |-> day, end |-> end]
TheBatches ==
  {("k1" :> Sample(1, 1, 1) @@ "k2" :> Sample(2, 1, 1)), ("k1" :> Sample(3, 1, 2) @@ "k3" :> Sample(5, 1, 1)),
   ("k2" :> Sample(2, 2, 2)), ("k3" :> Sample(4, 1, 3))}
IngestPart == HealthNext /\ UNCHANGED <<askers, phone, now, demand>>
AsksPart ==
  /\ HealthNext /\ UNCHANGED wipes /\ sends' <= 2
  /\ \A u \in Uploads \ {"u1"} : uploads'[u] = NoUpload
  /\ phone'.active => phone.active
  /\ askers'["a1"].stage # "idle" => askers'["a1"].metrics = Metrics
  /\ askers'["a2"].stage # "idle" => askers'["a2"].metrics = {"heart"} /\ askers'["a2"].live

----------------------------------------------------------------------------
ServicesInit ==
  /\ SolusInit /\ IaconInit /\ LibraryInit /\ AccountsInit /\ HealthInit
  /\ part \in {"bills", "lots", "desk", "captures", "notes", "questions", "given", "library",
               "link", "pair", "calls", "calendar", "ingest", "asks"}
  /\ part # "captures" => defaults.account = "bank"
  /\ part # "calendar" => series = {[first |-> 1, until |-> Horizon, count |-> 0, settings |-> "old"]}

ServicesNext ==
  /\ UNCHANGED part
  /\ \/ /\ \/ part = "bills" /\ BillsPart
           \/ part = "lots" /\ LotsPart
           \/ part = "desk" /\ DeskPart
           \/ part = "captures" /\ CapturesPart
        /\ UNCHANGED <<iaconVars, libraryVars, accountVars, healthVars>>
     \/ /\ \/ part = "notes" /\ NotesPart
           \/ part = "questions" /\ QuestionsPart
           \/ part = "given" /\ GivenPart
        /\ UNCHANGED <<solusVars, libraryVars, accountVars, healthVars>>
     \/ part = "library" /\ LibraryNext /\ (libraryDeaths' = 1 => Len(feed') <= 2) /\ UNCHANGED <<solusVars, iaconVars, accountVars, healthVars>>
     \/ /\ \/ part = "link" /\ LinkPart
           \/ part = "pair" /\ PairPart
           \/ part = "calls" /\ CallsPart
           \/ part = "calendar" /\ CalendarPart
        /\ UNCHANGED <<solusVars, iaconVars, libraryVars, healthVars>>
     \/ /\ \/ part = "ingest" /\ IngestPart
           \/ part = "asks" /\ AsksPart
        /\ UNCHANGED <<solusVars, iaconVars, libraryVars, accountVars>>

ServicesSpec == ServicesInit /\ [][ServicesNext]_serviceVars

----------------------------------------------------------------------------
(***************************************************************************)
(* What a step of Solus and of Iacon may never do, see there.              *)
(***************************************************************************)
StepsFenced == [][PostingFenced /\ ServedAsCurrent]_serviceVars
(***************************************************************************)
(* What the two mirrors of foreign data promise, see Library and Health.   *)
(***************************************************************************)
MirrorsSound == LibrarySound /\ HealthSound
=============================================================================
