------------------------------ MODULE Watches -------------------------------
(***************************************************************************)
(* What a poll of n8n finds out and who is told of it: the mail watch       *)
(* (services/mail_watch.py), the admission of its events                    *)
(* (services/automation_admission.py, admitted_payload of automations.py),  *)
(* and the web watch (services/web_watch.py). The order of a poll, scan then *)
(* trigger then acknowledge, is the chain automations/composer.py emits.     *)
(* A poll may end anywhere; polls of one watch may overlap.                 *)
(***************************************************************************)
EXTENDS Naturals, FiniteSets

CONSTANTS
  Mail,              \* messages that match the watch
  PageOf,            \* the page of the mailbox listing each is on
  MaxResults,        \* messages taken from a page at a time
  Polls,             \* overlapping executions of the workflow
  Lines,             \* lines of the watched page
  MaxWatchEdits,     \* bound on edits of the definition
  MaxRelinks,        \* bound on account changes
  MaxScans,          \* bound on the scans of one revision and account
  MaxPageMoves       \* bound on the changes of the watched page

ASSUME WatchAssumption ==
  /\ PageOf \in [Mail -> Nat] /\ MaxResults \in Nat \ {0}
  /\ {MaxWatchEdits, MaxRelinks, MaxScans, MaxPageMoves} \subseteq Nat

VARIABLES
  watch,             \* Automation: content revision, bound account, active
  account,           \* OAuthIdentity generation of the mailbox
  mailbox,           \* messages that have arrived
  batch,             \* MailBatch: what was observed, and its acknowledgement
  seenMail,          \* MailSeen: (generation, message)
  cursor,            \* MailCursor of each (revision, generation)
  poll,              \* the polls in progress
  admittedMail,      \* AutomationAdmission: batches admitted
  mailRun,           \* batches whose run exists
  page,              \* lines of the page now
  pageMoves,         \* how often it has changed
  webState,          \* runtime_state: the committed and the parked snapshot
  webPoll,           \* web polls in progress
  toldLines,         \* lines an accepted trigger carried
  baseLines          \* lines first seen as a baseline

watchVars == <<watch, account, mailbox, batch, seenMail, cursor, poll, admittedMail, mailRun,
               page, pageMoves, webState, webPoll, toldLines, baseLines>>
mailVars == <<watch, account, mailbox, batch, seenMail, cursor, poll, admittedMail, mailRun>>
webVars == <<page, pageMoves, webState, webPoll, toldLines, baseLines>>

\* A revision of the watch on an account.
Scopes == (1 .. MaxWatchEdits + 1) \X (1 .. MaxRelinks + 1)
LastPage == CHOOSE n \in {PageOf[m] : m \in Mail} : \A m \in Mail : PageOf[m] <= n
NoPoll == [at |-> "none", rev |-> 0, gen |-> 0, page |-> 0, version |-> 0, ids |-> {}, whole |-> TRUE]
NoWebPoll == [at |-> "none", lines |-> {}, fp |-> {}]

WatchInit ==
  /\ watch = [rev |-> 1, bound |-> 1, on |-> TRUE]
  /\ account = 1 /\ mailbox = {} /\ batch = {} /\ seenMail = {}
  /\ cursor = [at \in Scopes |-> [page |-> 1, version |-> 0]]
  /\ poll = [p \in Polls |-> NoPoll]
  /\ admittedMail = {} /\ mailRun = {}
  /\ page = {} /\ pageMoves = 0
  /\ webState = [committed |-> {}, parked |-> {}, known |-> FALSE]
  /\ webPoll = [p \in Polls |-> NoWebPoll]
  /\ toldLines = {} /\ baseLines = {}

(***************************************************************************)
(* The mail watch                                                          *)
(***************************************************************************)
MailArrives(m) ==
  /\ m \notin mailbox /\ mailbox' = mailbox \union {m}
  /\ UNCHANGED <<watch, account, batch, seenMail, cursor, poll, admittedMail, mailRun, webVars>>

\* The owner edits the watch, which binds it to the account of now; or pauses it.
EditWatch ==
  /\ watch.rev <= MaxWatchEdits
  /\ watch' = [rev |-> watch.rev + 1, bound |-> account, on |-> TRUE]
  /\ UNCHANGED <<account, mailbox, batch, seenMail, cursor, poll, admittedMail, mailRun, webVars>>
PauseWatch ==
  /\ watch.on /\ watch' = [watch EXCEPT !.on = FALSE]
  /\ UNCHANGED <<account, mailbox, batch, seenMail, cursor, poll, admittedMail, mailRun, webVars>>
RelinkAccount ==
  /\ account <= MaxRelinks /\ account' = account + 1
  /\ UNCHANGED <<watch, mailbox, batch, seenMail, cursor, poll, admittedMail, mailRun, webVars>>

\* definition(): active, at the revision the caller names, and still bound to
\* the account that is linked.
Defined(rev) == watch.on /\ watch.rev = rev /\ watch.bound = account

SetPoll(p, to) == poll' = [poll EXCEPT ![p] = to]
EndPoll(p) ==
  /\ poll[p].at # "none" /\ SetPoll(p, NoPoll)
  /\ UNCHANGED <<watch, account, mailbox, batch, seenMail, cursor, admittedMail, mailRun, webVars>>

\* scan(): a batch that waits for its acknowledgement is returned as it is.
StartScan(p) ==
  /\ poll[p] = NoPoll /\ Defined(watch.rev) /\ cursor[<<watch.rev, account>>].version <= MaxScans
  /\ LET waiting == {b \in batch : b.rev = watch.rev /\ b.gen = account /\ ~b.ack}
         at == cursor[<<watch.rev, account>>]
     IN  IF waiting # {}
         THEN \E b \in waiting :
                SetPoll(p, [NoPoll EXCEPT !.at = "trigger", !.rev = b.rev, !.gen = b.gen, !.ids = b.ids])
         ELSE SetPoll(p, [NoPoll EXCEPT !.at = "read", !.rev = watch.rev, !.gen = account,
                                        !.page = at.page, !.version = at.version])
  /\ UNCHANGED <<watch, account, mailbox, batch, seenMail, cursor, admittedMail, mailRun, webVars>>

\* One page of the mailbox, at most MaxResults new messages of it.
ReadPage(p) ==
  /\ poll[p].at = "read" /\ account = poll[p].gen
  /\ LET new == {m \in mailbox : PageOf[m] = poll[p].page /\ <<account, m>> \notin seenMail}
     IN  \E ids \in SUBSET new :
           /\ Cardinality(ids) = IF Cardinality(new) < MaxResults THEN Cardinality(new) ELSE MaxResults
           /\ SetPoll(p, [poll[p] EXCEPT !.at = "commit", !.ids = ids, !.whole = ids = new])
  /\ UNCHANGED <<watch, account, mailbox, batch, seenMail, cursor, admittedMail, mailRun, webVars>>

Scope(p) == <<poll[p].rev, poll[p].gen>>

\* A mistake: a scan does not notice that another one moved the cursor.
NotRacedBlind(p) == account = poll[p].gen /\ watch.on /\ watch.rev = poll[p].rev

\* Nothing of what the scan started from has changed.
NotRaced(p) ==
  /\ account = poll[p].gen /\ watch.on /\ watch.rev = poll[p].rev
  /\ cursor[Scope(p)].version = poll[p].version

CommitScan(p) ==
  /\ poll[p].at = "commit"
  /\ IF ~NotRaced(p) THEN SetPoll(p, NoPoll) /\ UNCHANGED <<batch, cursor>>
     ELSE LET fresh == {m \in poll[p].ids : <<account, m>> \notin seenMail}
              found == [rev |-> poll[p].rev, gen |-> poll[p].gen, ids |-> fresh, ack |-> FALSE]
          IN  /\ cursor' = [cursor EXCEPT ![Scope(p)] =
                   [version |-> @.version + 1,
                    page |-> IF ~poll[p].whole THEN poll[p].page
                             ELSE IF poll[p].page = LastPage THEN 1 ELSE poll[p].page + 1]]
              /\ IF fresh = {} THEN SetPoll(p, NoPoll) /\ UNCHANGED batch
                 ELSE /\ batch' = batch \union {found}
                      /\ SetPoll(p, [poll[p] EXCEPT !.at = "trigger", !.ids = fresh])
  /\ UNCHANGED <<watch, account, mailbox, seenMail, admittedMail, mailRun, webVars>>

Fingerprint(p) == [rev |-> poll[p].rev, gen |-> poll[p].gen, ids |-> poll[p].ids]
BatchPrint(b) == [rev |-> b.rev, gen |-> b.gen, ids |-> b.ids]
Stored(p) == \E b \in batch : BatchPrint(b) = Fingerprint(p)

\* admitted_payload(): the active definition of this revision and the stored
\* batch agree.
Admits(p) == watch.on /\ watch.rev = poll[p].rev /\ account = poll[p].gen /\ Stored(p)

\* POST /trigger: admitted before or now; then the run, which the budget may
\* refuse for now.
TriggerMail(p) ==
  /\ poll[p].at = "trigger"
  /\ IF Fingerprint(p) \in admittedMail \/ Admits(p)
     THEN /\ admittedMail' = admittedMail \union {Fingerprint(p)}
          /\ \/ mailRun' = mailRun \union {Fingerprint(p)} /\ SetPoll(p, [poll[p] EXCEPT !.at = "ack"])
             \/ UNCHANGED mailRun /\ SetPoll(p, NoPoll)
     ELSE SetPoll(p, NoPoll) /\ UNCHANGED <<admittedMail, mailRun>>
  /\ UNCHANGED <<watch, account, mailbox, batch, seenMail, cursor, webVars>>

\* drain(): admitted events without a run are started again.
DrainAdmitted ==
  /\ \E f \in admittedMail \ mailRun : mailRun' = mailRun \union {f}
  /\ UNCHANGED <<watch, account, mailbox, batch, seenMail, cursor, poll, admittedMail, webVars>>

\* A mistake: an admission is enough, its run is not looked for.
AckableAdmitted(p) == Stored(p) /\ account = poll[p].gen

\* acknowledge(): the batch of this revision and account, with a durable run.
Ackable(p) == Stored(p) /\ account = poll[p].gen /\ Fingerprint(p) \in mailRun

\* POST /seen, also by a client that names a batch it has not triggered.
AckMail(p) ==
  /\ poll[p].at \in {"trigger", "ack"}
  /\ IF Defined(poll[p].rev) /\ Ackable(p)
     THEN /\ seenMail' = seenMail \union {<<account, m>> : m \in poll[p].ids}
          /\ batch' = {IF BatchPrint(b) = Fingerprint(p) THEN [b EXCEPT !.ack = TRUE] ELSE b : b \in batch}
     ELSE UNCHANGED <<seenMail, batch>>
  /\ SetPoll(p, NoPoll)
  /\ UNCHANGED <<watch, account, mailbox, cursor, admittedMail, mailRun, webVars>>

MailNext ==
  \/ EditWatch \/ PauseWatch \/ RelinkAccount \/ DrainAdmitted
  \/ \E m \in Mail : MailArrives(m)
  \/ \E p \in Polls :
       \/ StartScan(p) \/ ReadPage(p) \/ CommitScan(p) \/ TriggerMail(p) \/ AckMail(p) \/ EndPoll(p)

(***************************************************************************)
(* The web watch                                                           *)
(***************************************************************************)
PageChanges(lines) ==
  /\ pageMoves < MaxPageMoves /\ pageMoves' = pageMoves + 1
  /\ lines # page /\ page' = lines
  /\ UNCHANGED <<mailVars, webState, webPoll, toldLines, baseLines>>

\* scan(): the first sight is a baseline, later ones are parked and reported.
ScanPage(p) ==
  /\ webPoll[p] = NoWebPoll /\ page # {}
  /\ IF ~webState.known
     THEN /\ webState' = [committed |-> page, parked |-> {}, known |-> TRUE]
          /\ baseLines' = baseLines \union page
          /\ UNCHANGED webPoll
     ELSE /\ webState' = [webState EXCEPT !.parked = page]
          /\ webPoll' = [webPoll EXCEPT ![p] =
               IF page \subseteq webState.committed THEN NoWebPoll
               ELSE [at |-> "trigger", lines |-> page \ webState.committed, fp |-> page]]
          /\ UNCHANGED baseLines
  /\ UNCHANGED <<mailVars, page, pageMoves, toldLines>>

\* The trigger is accepted, or the poll ends here.
TriggerWeb(p) ==
  /\ webPoll[p].at = "trigger"
  /\ \/ /\ toldLines' = toldLines \union webPoll[p].lines
        /\ webPoll' = [webPoll EXCEPT ![p].at = "ack"]
     \/ UNCHANGED toldLines /\ webPoll' = [webPoll EXCEPT ![p] = NoWebPoll]
  /\ UNCHANGED <<mailVars, page, pageMoves, webState, baseLines>>

\* A mistake: the parked snapshot is committed whatever was reported.
SamePrintBlind(p) == webState.parked # {}

SamePrint(p) == webState.parked # {} /\ webState.parked = webPoll[p].fp

\* ack(): the parked snapshot is committed if it is still the reported one.
AckWeb(p) ==
  /\ webPoll[p].at = "ack"
  /\ webState' = IF SamePrint(p)
                 THEN [webState EXCEPT !.committed = webState.parked, !.parked = {}] ELSE webState
  /\ webPoll' = [webPoll EXCEPT ![p] = NoWebPoll]
  /\ UNCHANGED <<mailVars, page, pageMoves, toldLines, baseLines>>

\* reset(): the next scan is a baseline again.
ResetWeb ==
  /\ webState.known
  /\ webState' = [committed |-> {}, parked |-> {}, known |-> FALSE]
  /\ UNCHANGED <<mailVars, page, pageMoves, webPoll, toldLines, baseLines>>

WebNext ==
  \/ ResetWeb \/ \E lines \in SUBSET Lines : PageChanges(lines)
  \/ \E p \in Polls : ScanPage(p) \/ TriggerWeb(p) \/ AckWeb(p)

WatchNext == MailNext \/ WebNext
WatchSpec == WatchInit /\ [][WatchNext]_watchVars

(***************************************************************************)
(* Properties                                                              *)
(***************************************************************************)

\* A message is passed over by later scans only if a durable run was started
\* for a batch that holds it, and within one revision and account no message
\* is in two batches, however polls overlap, fail or meet edits.
MailToldOnce ==
  /\ \A s \in seenMail : \E f \in mailRun : f.gen = s[1] /\ s[2] \in f.ids
  /\ \A b, c \in batch : b.rev = c.rev /\ b.gen = c.gen /\ b.ids \intersect c.ids # {} => b = c

\* A line the web watch has stopped reporting was carried by an accepted
\* trigger or belongs to a baseline: a failed poll loses no publication.
LinesTold == webState.committed \subseteq toldLines \union baseLines

\* Neither watch forgets news before a run was accepted that carries it.
NewsTold == MailToldOnce /\ LinesTold
=============================================================================
