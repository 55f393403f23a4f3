------------------------------- MODULE Solus -------------------------------
(***************************************************************************)
(* The accounting ledger of one book: every command is one transaction     *)
(* under the writer lock, keyed by its client, and leaves a receipt; the   *)
(* journal only grows, corrections are reversals.  Commands come from the  *)
(* owner's forms, composed before they are run and sent again with their   *)
(* key when the answer is lost, and from Sentinel, which reads the         *)
(* bookkeeping defaults in one snapshot and posts in a later transaction.  *)
(*                                                                         *)
(* An entry of the journal is one posted event with what hangs on it: a    *)
(* bill its installments, a payment its settlements, a purchase its lot, a *)
(* sale its disposal.  These tables are immutable in the code, so they     *)
(* need no variables here.                                                 *)
(***************************************************************************)
EXTENDS Integers, Sequences, SequencesExt, FiniteSetsExt

CONSTANTS
  FormKeys,        \* command keys of the owner's forms
  Sources,         \* monetary tokens in original sources: keys of captures
  Offered,         \* what the owner's forms may say
  Accounts,        \* asset accounts a default may name
  MaxDay,          \* bound on the calendar
  MaxEvents,       \* bound on the journal
  MaxRuns,         \* bound on the runs of Sentinel
  MaxSettings,     \* bound on the editions of the defaults
  MaxAtOnce        \* bound on the commands composed and not yet run

CommandKeys == FormKeys \cup Sources
NoCommand == [operation |-> "none"]

\* What the forms may say: schemas/solus.py, and parse_csv() for the rows.
Posts == {"bill", "payment", "expense", "buy", "sell"}
PostFields == {"operation", "day", "occurrence", "amount", "count", "quantity", "lot", "account",
               "document", "pays", "routing", "run"}
IsPost(c) ==
  /\ c = [f \in PostFields |-> c[f]]
  /\ c.operation \in Posts
  /\ {c.day, c.amount, c.quantity, c.lot} \subseteq Nat /\ c.count \in 1 .. 3
  /\ c.operation \in {"buy", "sell"} => c.quantity > 0
  /\ \A item \in DOMAIN c.pays : c.pays[item] \in Nat
  /\ c.operation # "payment" => c.pays = <<>>
IsRow(c) == IsPost(c) /\ c.operation \notin {"buy", "sell"} /\ c.document = "none" /\ c.pays = <<>>
IsForm(c) ==
  \/ c.operation \in Posts /\ IsPost(c)
  \/ c.operation = "reverse" /\ c = [operation |-> "reverse", event |-> c.event, day |-> c.day]
     /\ c.event \in Nat /\ c.day \in Nat
  \/ c.operation = "close_period" /\ c.day \in 0 .. MaxDay
     /\ c = [operation |-> "close_period", day |-> c.day, revision |-> c.revision]
  \/ c.operation = "plan_put"
     /\ c = [operation |-> "plan_put", plan |-> c.plan, version |-> c.version]
  \/ c.operation = "import_commit"
     /\ c = [operation |-> "import_commit", original |-> c.original, rows |-> c.rows]
     /\ c.rows \in Seq(ToSet(c.rows)) /\ \A i \in DOMAIN c.rows : IsRow(c.rows[i])

ASSUME SolusAssumption ==
  /\ {MaxEvents, MaxRuns, MaxSettings, MaxAtOnce} \subseteq Nat /\ MaxDay \in Nat \ {0}
  /\ FormKeys \cap Sources = {} /\ \A c \in Offered : IsForm(c)

VARIABLES
  book,            \* journal, closed_through, revision, imports, plan
  commands,        \* receipt of each key
  forms,           \* the payload retained with each form's key
  arriving,        \* requests on their way to run_financial_command
  defaults,        \* SolusRouting: version and payment account
  captured,        \* what a capture's snapshot read, until it has run
  run,             \* Sentinel's current run, and whether its contribution is active
  today

solusVars == <<book, commands, forms, arriving, defaults, captured, run, today>>

EmptyBook == [journal |-> <<>>, closed |-> 0, revision |-> 0,
              imports |-> {}, plan |-> [version |-> 0, kind |-> "none"]]

SolusTypeOK ==
  /\ Len(book.journal) <= MaxEvents /\ book.closed \in 0 .. MaxDay /\ book.revision \in Nat
  /\ commands \in [CommandKeys -> {"none", "success", "cancelled"}]
  /\ arriving \subseteq CommandKeys /\ today \in 1 .. MaxDay
  /\ defaults \in [version : 0 .. MaxSettings, account : Accounts] /\ run \in [id : 1 .. MaxRuns, live : BOOLEAN]

SolusInit ==
  /\ book = EmptyBook
  /\ commands = [k \in CommandKeys |-> "none"]
  /\ forms = [k \in FormKeys |-> NoCommand]
  /\ arriving = {} /\ captured = [s \in Sources |-> NoCommand]
  /\ defaults \in [version : {0}, account : Accounts]
  /\ run = [id |-> 1, live |-> TRUE] /\ today = 1

(***************************************************************************)
(* Reading a book                                                          *)
(***************************************************************************)
Events(b) == DOMAIN b.journal

\* The sum of what the first k ordinals are worth.
SumUpTo(amounts, k) ==
  LET upto[n \in 0 .. k] == IF n = 0 THEN 0 ELSE upto[n - 1] + amounts[n] IN upto[k]
\* The sum over a set of events of the journal.
SumOver(b, S, amount) == SumUpTo([e \in Events(b) |-> IF e \in S THEN amount[e] ELSE 0], Len(b.journal))

Reversed(b, e) == \E r \in Events(b) : b.journal[r].reverses = e
ReversedBy(b, e, day) == \E r \in Events(b) : b.journal[r].reverses = e /\ b.journal[r].day <= day

\* allocate(): the first installments take the odd minor units.
Installment(total, count, i) == (total \div count) + (IF i <= total % count THEN 1 ELSE 0)

Items(b) ==
  {item \in Events(b) \X (1 .. 3) : b.journal[item[1]].kind = "bill" /\ item[2] <= b.journal[item[1]].count}
ItemAmount(b, item) == Installment(b.journal[item[1]].amount, b.journal[item[1]].count, item[2])

\* effective_settled(): reversing a payment releases what it had settled.
PaymentsOf(b, item) == {p \in Events(b) : item \in DOMAIN b.journal[p].pays}
EffectiveSettled(b, item) ==
  SumOver(b, {p \in PaymentsOf(b, item) : ~Reversed(b, p)}, [p \in PaymentsOf(b, item) |-> b.journal[p].pays[item]])
Remaining(b, item) == ItemAmount(b, item) - EffectiveSettled(b, item)

\* Disposals of a lot that count on a day: a reversal counts from its own day on.
Disposals(b, lot, day) ==
  {d \in Events(b) : /\ b.journal[d].kind = "sell" /\ b.journal[d].lot = lot
                     /\ b.journal[d].day <= day /\ ~ReversedBy(b, d, day)}
LotHeld(b, lot, day) == b.journal[lot].day <= day /\ ~ReversedBy(b, lot, day)

\* remainder()
UnitsGone(b, lot, day) == SumOver(b, Disposals(b, lot, day), [d \in Events(b) |-> b.journal[d].quantity])
CostGone(b, lot, day) == SumOver(b, Disposals(b, lot, day), [d \in Events(b) |-> b.journal[d].amount])
UnitsLeft(b, lot, day) == IF LotHeld(b, lot, day) THEN b.journal[lot].quantity - UnitsGone(b, lot, day) ELSE 0
CostLeft(b, lot, day) == IF LotHeld(b, lot, day) THEN b.journal[lot].amount - CostGone(b, lot, day) ELSE 0

\* The cost of `n` units: cumulative, so that the last unit takes what is left.
Basis(b, lot, n, day) ==
  LET l == b.journal[lot]
      left == UnitsLeft(b, lot, day)
  IN IF n = left THEN CostLeft(b, lot, day)
     ELSE (l.amount * (l.quantity - left + n)) \div l.quantity - (l.amount - CostLeft(b, lot, day))

(***************************************************************************)
(* Commands                                                                *)
(***************************************************************************)
Named(occurrence) == <<"given", occurrence>>
Entry(key, c) ==
  [key |-> key, kind |-> c.operation, day |-> c.day, occurrence |-> Named(c.occurrence), amount |-> c.amount,
   count |-> c.count, quantity |-> c.quantity, lot |-> c.lot, reverses |-> 0, account |-> c.account,
   pays |-> c.pays]

\* create_event()
MayBook(b, day) == day <= today /\ day > b.closed
NewOccurrence(b, c) == \A e \in Events(b) : b.journal[e].occurrence # Named(c.occurrence)

\* What a payment settles altogether.
Settles(pays) == MapThenSumSet(LAMBDA item : pays[item], DOMAIN pays)
\* The settlements of a payment, checked one after the other.
AllocationsFit(b, c) ==
  /\ \A item \in DOMAIN c.pays :
        /\ item \in Items(b) /\ ~Reversed(b, item[1])
        /\ c.pays[item] + EffectiveSettled(b, item) <= ItemAmount(b, item)
  /\ Settles(c.pays) <= c.amount

\* allocate_document_payment(): installments in order, as far as the money goes.
Before(b, bill, i) == SumUpTo([j \in 1 .. (i - 1) |-> Remaining(b, <<bill, j>>)], i - 1)
PaidInOrder(b, bill, amount) ==
  LET share(i) == Min({Remaining(b, <<bill, i>>), Max({0, amount - Before(b, bill, i)})})
  IN [item \in {<<bill, i>> : i \in {j \in 1 .. b.journal[bill].count : share(j) > 0}} |-> share(item[2])]

\* The one unreversed bill with the document's number, or none.
Documented(b, number) ==
  {e \in Events(b) : b.journal[e].kind = "bill" /\ b.journal[e].occurrence = Named(number) /\ ~Reversed(b, e)}

\* The command with the allocation that the fence computed for it.
Allocated(b, c) ==
  IF c.operation = "payment" /\ c.document # "none" /\ Documented(b, c.document) # {}
  THEN [c EXCEPT !.pays = PaidInOrder(b, CHOOSE e \in Documented(b, c.document) : TRUE, c.amount)]
  ELSE c

\* A mistake: any disposal may be reversed while its lot stays.
ReversibleLoosely(b, e) ==
  b.journal[e].kind = "buy" => UnitsLeft(b, e, MaxDay) = b.journal[e].quantity

\* assert_reversible(): a lot without active disposals; a disposal with none after it.
Reversible(b, e) ==
  /\ b.journal[e].kind = "buy" => UnitsLeft(b, e, MaxDay) = b.journal[e].quantity
  /\ b.journal[e].kind = "sell" =>
       \A d \in Events(b) : d > e /\ b.journal[d].kind = "sell" /\ b.journal[d].lot = b.journal[e].lot
                            => Reversed(b, d)

MayReverse(b, c) ==
  /\ c.event \in Events(b)
  /\ b.journal[c.event].reverses = 0
  /\ Reversible(b, c.event)
  /\ c.day >= b.journal[c.event].day
  /\ ~Reversed(b, c.event)
  /\ \A item \in Items(b) : item[1] = c.event => EffectiveSettled(b, item) = 0

\* Backdating a sale into a lot disposed of later would rewrite later costs.
MaySell(b, c) ==
  /\ c.lot \in Events(b) /\ b.journal[c.lot].kind = "buy"
  /\ UnitsLeft(b, c.lot, c.day) = UnitsLeft(b, c.lot, MaxDay)
  /\ c.quantity <= UnitsLeft(b, c.lot, c.day)

CommandAdmitted(b, c) ==
  CASE c.operation \in Posts ->
         /\ MayBook(b, c.day) /\ NewOccurrence(b, c)
         /\ c.operation = "payment" => AllocationsFit(b, c)
         /\ (c.operation = "payment" /\ c.document # "none") =>
              \E e \in Documented(b, c.document) : b.journal[e].day <= c.day
         /\ c.operation = "sell" => MaySell(b, c)
    [] c.operation = "reverse" -> MayBook(b, c.day) /\ MayReverse(b, c)
    [] c.operation = "close_period" -> c.revision = b.revision /\ c.day <= today
    [] c.operation = "plan_put" -> c.version = b.plan.version /\ b.plan.kind \in {"none", c.plan}

\* apply(), for a command that is admitted.
Applied(b, key, c) ==
  LET next == [b EXCEPT !.revision = @ + 1]
  IN CASE c.operation = "sell" ->
            [next EXCEPT !.journal = Append(@, [Entry(key, c) EXCEPT
                                                  !.amount = Basis(b, c.lot, c.quantity, c.day)])]
       [] c.operation \in Posts \ {"sell"} ->
            [next EXCEPT !.journal = Append(@, Entry(key, c))]
       [] c.operation = "reverse" ->
            [next EXCEPT !.journal = Append(@, [b.journal[c.event] EXCEPT
                 !.key = key, !.kind = "reversal", !.day = c.day, !.occurrence = <<"reverse", c.event>>,
                 !.reverses = c.event, !.pays = <<>>])]
       [] c.operation = "close_period" -> [next EXCEPT !.closed = c.day]
       [] c.operation = "plan_put" ->
            [next EXCEPT !.plan = [version |-> b.plan.version + 1, kind |-> c.plan]]

\* ImportCommit: the rows of one original, all or none, each original once.
AfterRow(b, key, rows, k) ==
  LET after[n \in 0 .. k] == IF n = 0 THEN b ELSE Applied(after[n - 1], key, rows[n]) IN after[k]
RowsFit(b, key, rows) ==
  \A i \in DOMAIN rows : CommandAdmitted(AfterRow(b, key, rows, i - 1), rows[i])
Imported(b, key, c) ==
  [AfterRow(b, key, c.rows, Len(c.rows)) EXCEPT !.imports = @ \cup {c.original}]

Accepts(b, key, c) ==
  IF c.operation = "import_commit"
  THEN c.original \notin b.imports /\ RowsFit(b, key, c.rows) /\ Len(b.journal) + Len(c.rows) <= MaxEvents
  ELSE /\ CommandAdmitted(b, Allocated(b, c))
       /\ c.operation \in Posts \cup {"reverse"} => Len(b.journal) < MaxEvents

Executed(b, key, c) ==
  IF c.operation = "import_commit" THEN Imported(b, key, c) ELSE Applied(b, key, Allocated(b, c))

(***************************************************************************)
(* Requests of the owner                                                   *)
(***************************************************************************)
\* The owner composes a form over what the ledger shows now, and sends it.
Compose(k, c) ==
  /\ forms[k] = NoCommand /\ Cardinality(arriving) < MaxAtOnce
  /\ forms' = [forms EXCEPT ![k] =
       CASE c.operation = "close_period" -> [c EXCEPT !.revision = book.revision]
         [] c.operation = "plan_put" -> [c EXCEPT !.version = book.plan.version]
         [] OTHER -> c]
  /\ arriving' = arriving \cup {k}
  /\ UNCHANGED <<book, commands, defaults, captured, run, today>>

\* The answer was lost: the unchanged form is sent again with its key.
SendAgain(k) ==
  /\ forms[k] # NoCommand /\ k \notin arriving /\ Cardinality(arriving) < MaxAtOnce
  /\ arriving' = arriving \cup {k}
  /\ UNCHANGED <<book, commands, forms, defaults, captured, run, today>>

\* run_financial_command(): a known key answers from its receipt or is refused.
RunForm(k) ==
  /\ k \in arriving \cap FormKeys
  /\ arriving' = arriving \ {k}
  /\ \/ commands[k] = "none" /\ Accepts(book, k, forms[k])
        /\ book' = Executed(book, k, forms[k])
        /\ commands' = [commands EXCEPT ![k] = "success"]
     \/ (commands[k] # "none" \/ ~Accepts(book, k, forms[k])) /\ UNCHANGED <<book, commands>>
  /\ UNCHANGED <<forms, defaults, captured, run, today>>

\* resolve_financial_command(): an uncertain key is cancelled for good.
Resolve(k) ==
  /\ forms[k] # NoCommand /\ commands[k] = "none"
  /\ commands' = [commands EXCEPT ![k] = "cancelled"]
  /\ UNCHANGED <<book, forms, arriving, defaults, captured, run, today>>

(***************************************************************************)
(* Sentinel                                                                *)
(***************************************************************************)
\* capture(): one snapshot finds the account the source leaves to the defaults.
ReadSource(s) ==
  /\ run.live /\ s \notin arriving
  /\ captured' = [captured EXCEPT ![s] =
       [operation |-> "expense", day |-> today, occurrence |-> s, amount |-> 1, count |-> 1, quantity |-> 0,
        lot |-> 0, account |-> defaults.account, document |-> "none", pays |-> <<>>,
        routing |-> defaults.version, run |-> run.id]]
  /\ arriving' = arriving \cup {s}
  /\ UNCHANGED <<book, commands, forms, defaults, run, today>>

\* A mistake: the defaults that the snapshot read are taken on trust.
FencedLoosely(c) == run.live /\ c.run = run.id

\* validate_agent() and the version of the defaults, under the writer lock.
Fenced(c) == run.live /\ c.run = run.id /\ c.routing = defaults.version

PostCapture(s) ==
  /\ s \in arriving
  /\ arriving' = arriving \ {s} /\ captured' = [captured EXCEPT ![s] = NoCommand]
  /\ LET ok == commands[s] = "none" /\ Fenced(captured[s]) /\ Accepts(book, s, captured[s])
     IN \/ /\ ok
           /\ book' = Executed(book, s, captured[s])
           /\ commands' = [commands EXCEPT ![s] = "success"]
        \/ ~ok /\ UNCHANGED <<book, commands>>
  /\ UNCHANGED <<forms, defaults, run, today>>

\* configure_routing(): an unchanged request is acknowledged, a new one is an edition.
Configure(a) ==
  /\ run.live /\ a # defaults.account /\ defaults.version < MaxSettings
  /\ defaults' = [version |-> defaults.version + 1, account |-> a]
  /\ UNCHANGED <<book, commands, forms, arriving, captured, run, today>>

\* The run is cancelled, ends or loses its lease; a later turn is a new run.
RunOver ==
  /\ run.live /\ run' = [run EXCEPT !.live = FALSE]
  /\ UNCHANGED <<book, commands, forms, arriving, defaults, captured, today>>
NewRun ==
  /\ ~run.live /\ run.id < MaxRuns /\ run' = [id |-> run.id + 1, live |-> TRUE]
  /\ UNCHANGED <<book, commands, forms, arriving, defaults, captured, today>>

ServerDies ==
  /\ arriving # {} /\ arriving' = {}
  /\ captured' = [s \in Sources |-> NoCommand]
  /\ UNCHANGED <<book, commands, forms, defaults, run, today>>

Midnight ==
  /\ today < MaxDay /\ today' = today + 1
  /\ UNCHANGED <<book, commands, forms, arriving, defaults, captured, run>>

SolusNext ==
  \/ \E k \in FormKeys : SendAgain(k) \/ RunForm(k) \/ Resolve(k) \/ \E c \in Offered : Compose(k, c)
  \/ \E s \in Sources : ReadSource(s) \/ PostCapture(s)
  \/ \E a \in Accounts : Configure(a)
  \/ RunOver \/ NewRun \/ ServerDies \/ Midnight

SolusSpec == SolusInit /\ [][SolusNext]_solusVars

(***************************************************************************)
(* Properties                                                              *)
(***************************************************************************)
\* One occurrence is posted once, and a key the owner gave up posts nothing.
PostedOnce ==
  /\ \A d, e \in Events(book) : book.journal[d].occurrence = book.journal[e].occurrence => d = e
  /\ \A e \in Events(book) : commands[book.journal[e].key] = "success"

\* No installment is settled beyond its amount, no payment settles more than it
\* paid, and nothing counts as settled on an obligation that was reversed.
SettledWithin(b) ==
  /\ \A item \in Items(b) :
       EffectiveSettled(b, item) <= IF Reversed(b, item[1]) THEN 0 ELSE ItemAmount(b, item)
  /\ \A e \in Events(b) : b.journal[e].kind = "payment" => Settles(b.journal[e].pays) <= b.journal[e].amount

\* A sale was recorded on a day before the reversal of an earlier sale of the lot.
SoldBehindReversal(b, lot) ==
  \E s \in Events(b) : \E r \in 1 .. (s - 1) :
    LET d == b.journal[r].reverses
    IN /\ b.journal[s].kind = "sell" /\ b.journal[s].lot = lot
       /\ d # 0 /\ b.journal[d].kind = "sell" /\ b.journal[d].lot = lot
       /\ b.journal[s].day < b.journal[r].day

\* The sales of a lot have taken exactly their share of its cost.
CostShared(b, lot) ==
  LET l == b.journal[lot]
  IN CostGone(b, lot, MaxDay) = (l.amount * UnitsGone(b, lot, MaxDay)) \div l.quantity

\* No lot sells more units than it has, a reversed purchase has no sale left that
\* draws on it, and no rounding of a lot's cost is lost or taken twice, unless a
\* sale was put behind a reversal (see LotsExact).
LotsRight(b) ==
  \A e \in Events(b) : b.journal[e].kind = "buy" =>
    /\ UnitsGone(b, e, MaxDay) <= b.journal[e].quantity
    /\ Reversed(b, e) => Disposals(b, e, MaxDay) = {}
    /\ ~SoldBehindReversal(b, e) => CostShared(b, e)

\* "Reverse later lot disposals first to preserve cumulative cost allocation": what
\* the sales of a lot have cost is its cumulative share, whatever was reversed.
LotsExact == \A e \in Events(book) : book.journal[e].kind = "buy" => CostShared(book, e)

\* The books are right after any sequence of posts, payments, sales, reversals,
\* imports, closings and repeated or cancelled requests (store.py, commands.py).
BooksSound == PostedOnce /\ SettledWithin(book) /\ LotsRight(book)

\* A closed period keeps its entries until it is reopened.  What Sentinel posts is
\* posted by a contribution still active, to the account the owner's defaults name
\* at that moment, not when the source was read.
PostingFenced ==
  \A e \in Events(book') \ Events(book) :
    /\ book'.journal[e].day > book.closed
    /\ book'.journal[e].key \in Sources => run.live /\ book'.journal[e].account = defaults.account

PostingsFenced == [][PostingFenced]_solusVars
=============================================================================
