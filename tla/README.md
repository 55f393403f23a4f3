# Verification of SPEDA Mark VI

SPEDA Mark VI is a personal assistant: a FastAPI backend over one SQL database,
with rooms in which several personas answer the owner, delegated workers, project
work in FORGE Cells, a governed memory, accounting, automations and
notifications. This directory holds TLA+ models of the parts whose correctness
depends on order, failure and concurrency, the TLC runs that check them on small
instances and the TLAPS proofs that hold for every instance. Source paths below
are relative to the repository root; `PROJECT.json` maps every definition to the
lines it models, lists the hazards line by line and names the properties that
watch each of them.

## Inventory

| Part (source) | State | Operations | Hard behaviour | Module |
| --- | --- | --- | --- | --- |
| Coordinator (`app/services/coordination.py`) | `Room.active_run`, `CoordinationRun`, `AgentStep`, tasks in memory | start, advance_room, execute, heartbeat, cancel, stop_reply, recover, resume, shutdown | tasks interleave at every await, two processes share the database, leases lapse under live executors | Coordination |
| Dialogue of a round (same file) | `AgentStep` tree, members, lead | collaborate, release_replies, membership | nested questions under stops and restarts | Dialogue |
| Coordination allowance (`coordination_budget.py`) | day and run counters, `ModelCallReceipt` | reserve, stream, save | concurrent reservations, lost answers, dead holders of slots, midnight | CoordinationBudget |
| Global allowance (`global_budget.py`, `llm_client.py`, `voice.py`) | daily and lifetime totals, attempts | reserve, start, finish, quiesce | fallbacks, lost answers, a restart that must wait | SharedSpending |
| Tool loop and receipts (`core/orchestrator.py`, `core/registry.py`, `mcp/client.py`, `connections.py`) | messages of a turn, `ToolExecutionReceipt`, pinned connection | _run, execute_recorded | an effect between two commits, replays, a connection replaced while a call waits | AgentLoop |
| Configuration and restart (`config_store.py`, `backend_restart.py`, `supervisor.py`) | the saved file, accepted identities | save, restart | requests repeated late, to another instance | Configuration |
| Chat turns (`client_compat.py`, `client_room_projection.py`, `chat_history.py`) | request mappings, visible history, event log | start, edit, regenerate, page, stream | retries of two devices, imported history, a stream that reconnects | Conversations |
| Legion workers (`worker_control.py`, `task_runner.py`, `mission_control.py`) | `LegionExecution`, inbox, room events | begin, start, publish, finish, message, interrupt, stop_run | instructions race the last checkpoint, a window loads while events arrive | Legion |
| Projects, Workshop (`projects.py`, `project_*.py`, `forge/workshop.py`) | tasks, folder claim, artifacts, integrations | delegate, drain, claim, run, integrate, roll back, restore | a host that dies between a copy and its record | ProjectTasks |
| Releases (`project_release.py`, `cloud_projects.py`) | plans, receipts, approvals | prepare, decide, deploy, pull | approvals race, the effect between two commits | Releases |
| FORGE agent (`forge/warden`, `forge/gate`) | transcript, permits, pool of Cells | run_messages, dispatch_tool, acquire, release | compaction, interrupts, answers that come late, Cells that outlive their job | Warden, Gauntlet, Cells |
| FORGE terminal (`forge/tui`) | sessions, checkpoints, saved records, draft | say, restore, resume, ask, compose | two terminals, one keyboard with three readers | Terminal |
| Browser desk (`packages/browser/server.py`) | contexts, portal tabs, locks, cookie files | read, act, login, reap, forget | requests share a tab and overlap at every await | Browser |
| Delivery (`delivery.py`, `reminders.py`, `telegram_gateway.py`, `fcm.py`) | outbox rows, reminder cycles, stored updates | enqueue, claim, send, drain | a send between two commits, relinking | Outbox, TelegramInbox |
| Automations (`automations.py`, `automation_admission.py`, `mail_watch.py`, `web_watch.py`) | versioned operations, cursors | sync, scan, trigger, acknowledge | lost answers of n8n, concurrent syncs, polls that overlap | Automations, Watches |
| Solus (`app/services/solus`) | journal, plans, periods, captures | execute, import, capture | backdating, reversal, a command sent again | Solus |
| Iacon (`iacon_*.py`, `memory_runtime.py`) | record and revisions, queue, questions | interpret, review, apply, serve | a worker that dies between paying and recording | Iacon |
| Library (`library_indexer.py`, `library.py`) | mirror, queue, passages, citations | reconcile, index, search | a feed replayed after a crash | Library |
| Accounts (`oauth.py`, `oauth_tokens.py`, `google_rest.py`, `microsoft_rest.py`) | credential, cached token, clients | sign in, refresh, disconnect, call, split | one-use codes and rotating tokens, a series cut in two requests | Accounts |
| Health (`health.py`, `skills/health_data.py`) | samples, rollups, demand | ingest, recompute, ask | batches corrected and repeated, numbers that age | Health |

The Coordinator calls the allowance (every model call), the workers, the projects
and the outbox; all share one database. `write_session` (`app/database.py:81`)
takes SQLite's writer slot before it reads, so each such block is one atomic
action; everything between two blocks is an await at which other tasks run, so
every await is a value of a program counter.

What makes the parts correct: one speaker per room and no room left closed; no
paid call or effect repeated; no answer published twice or out of turn; no lost
outcome hidden by a final status; ceilings that hold at their edge; an owner's
decision (approval, sign-out, stop) that stays decided; every message and
question eventually over.

## Modules

Each component has a module of its own (`VARIABLES`, one action per operation or
per step between two awaits, `Init`, `Next`, the specification, its properties).
**EffectOnce** is the abstract specification of an effect on the world outside:
admitted before it happens, at most once, never confirmed wrongly, visibly
unknown when nobody can vouch for it. AgentLoop's receipts (`ToolEffects`),
Outbox (`OutboxEffects`), Releases (`PublishedAtMostOnce`), SharedSpending
(`PaidOnce`) and TelegramInbox (`InputOnce`) are shown to implement it by
`INSTANCE EffectOnce WITH` their rows as its state.

Suites compose the components for TLC: **MCCoordination** and **MCScenes** (Coordination,
in three scenes), **MCRounds** (Dialogue,
CoordinationBudget), **MCWorkers** (CoordinationBudget, Dialogue, Warden, and Fronts:
Browser and Terminal), **MCTurns** (AgentLoop, SharedSpending, Configuration, Conversations),
**MCMessages** (Outbox, Automations, Watches), **MCForge** (ProjectTasks, Releases,
Legion, Gauntlet, Cells), **MCLive** (Legion, TelegramInbox, Gauntlet, Warden) and
**MCServices** (Solus, Iacon, Library, Accounts, Health), with **MCBooks** for one lot of
Solus. Their components touch
no common state at this grain, so a suite explores them side by side, not
interleaved: the variable `part`, chosen initially, says which one moves, and some
parts restrict their component to a scenario (`BillsPart`, `PagePart`), each named
in the suite.

How the state corresponds: variables are the columns and fields of the table
above. History variables are marked as ghosts in their declarations (`sends`,
`wire`, `times`, `effects`, `signedOut`, `leftDays`, `givenUp`) and no action reads
them in a guard. Time is the comparison the code makes with it (`lease`, `late`,
`due`, `idle`, an age), not a number.

Operators named like `FencedByLeaseOnly` or `TabsOfMapped` beside the definition
they resemble are plausible mistakes in that definition. They belong to no
specification: replacing the definition by one of them makes the property named
with it in `PROJECT.json` fail.

## Runs

| Run | Suite, constants | Properties |
| --- | --- | --- |
| `coord_scenes` | MCScenes, `CoordScenes.cfg`: either 1 process, 2 runs and cancel, stop, shutdown at every await; or 2 overlapping processes, leases that lapse under live executors, a worker, a run of 2 contributions | SlotHeld, OutcomesExplicit, DispatchedOnce, PublishedOnce |
| `coord_restart` | `CoordRestart.cfg`: 2 processes one after the other, 2 runs, deaths anywhere, recovery, resumption, deadlines | SlotReleased, RoundComplete, PublishedInTurn, EveryRunSettles |
| `rounds` | MCRounds | ReturnsComeBack, NoWaitForever |
| `workers` | MCWorkers | RunCeiling, InFlightBounded, ReturnsFaithful, PrivateStaysPrivate, TranscriptPaired, CacheGrounded, FrontsSound |
| `turns` | MCTurns | HistoryHonest, RequestsBounded, ConfiguredOnce, ConversationsSound, ToolEffects, PaidOnce |
| `messages` | MCMessages | OneWorkflow, NewsTold, OutboxEffects |
| `forge` | MCForge | OneWriter, DependentExact, GateHolds, CellsSound, NothingMissed, PublishedAtMostOnce |
| `live` | MCLive | WorkersEnd, InputWorkedOnce, CallReturns |
| `services` | MCServices | BooksSound, MemorySound, AccountsSound, MirrorsSound, StepsFenced |

Three runs show the code disagreeing with what the repository says of it
(`PROJECT.json`, `findings`, quotes the lines): `coord_slot_leak` (after a stall
during `wait_run`, recover and resume, the old task's last transaction ends the
resumed run and leaves the slot taken), `dialogue_stuck` (release_replies
leaves an outer response turn waiting when the same pass cancels the inner one) and
`lot_skewed` (a sale dated before the reversal of an earlier sale of its lot is costed
as if that one still stood; it came out of the attempt to prove that the sales of a
lot take exactly their share of its cost).

Each property is commented where it is defined; `FrontsSound`, `BooksSound`,
`MirrorsSound` and the like are conjunctions of named parts.

**Bounds.** Two messages suffice for one to hold the slot while another waits, two
processes for a lost executor and its successor, two contributions for a step
after a step. A room has its own slot and queue and no operation relates two
rooms, so one is checked. In Dialogue, cap 5 is the smallest in which a colleague
asks a colleague and both callers have their turn. Elsewhere two of each kind of
actor race (syncers, polls, handlers, requests, terminals, devices, uploads), and
three where a third matters (jobs on two conversations, saves when one identity
is kept, messages of a mailbox on two pages). Constants called `Max...` bound how
often the environment fails or the owner acts; limits the code has
(`MaxWaiting`, `MAX_TRUNCATION_RESUMES`, `KEEP_SESSIONS`, ...) are set small enough
to be reached. MCServices takes Solus's keys in their order instead of declaring
symmetry. Deadlock is not checked in any run: a service whose clients and clocks
are idle may stop.

**Fairness.** `ProcessFairness`: asyncio runs every ready task, provider calls end
(their clients have timeouts), heartbeats beat, clocks move. Recovery is a
separate assumption (`SpecRecovered`), because the source leaves it to n8n, to
cancel requests and to startup. `Dialogue` has strong fairness for the end of a
reply, whose model calls are bounded, and `CoordinationBudget!FairSpec` does not
let deadlines pass, which makes NoWaitForever stronger. Legion: the event loop
runs cancelled tasks and recovery is called on every start. TelegramInbox: n8n
calls the drain again and again, and a refusal is not for ever (strong fairness).
Gauntlet and Warden: the loop, its timers and bounded tool calls go on by
themselves.

## Proofs

Every theorem is of the component's own specification, from the named
assumptions of the modules alone (`CoordinationAssumption`, `BudgetAssumption`,
`SpendingAssumption`, ...: constants have their types, limits are naturals, some
sets are finite, sentinels are not members, and for Accounts the tools called are
among those catalogued). TLC evaluates them in the runs. The inductive invariants were
tried on TLC before they were proved.

- **CoordinationProofs.** `TypeCorrect`; `SpeakingSlot` (SlotHeld is inductive with
  the types: a run gives a slot up only if it holds it). `NeverResent`
  (DispatchedOnce) rests on the ledger of calls: one without a receipt was never
  sent, one with a receipt at most once. `OutcomesStayExplicit` needs OutcomesKept:
  a run that ends has settled its calls or goes to reconciliation.
  `NeverPublishedTwice` needs PublishedInv: a step is unpublished while it is
  unclaimed or its one claim is open. The others hold without stalls (`~Stalls`:
  no live executor outlives its lease), which `coord_slot_leak` shows to be
  necessary: `LeasesHold` (LeaseInv: a claimed run has exactly one executor at
  work, and only it moves its steps), then `SlotGivenBack` and `AnswersInTurn`.
  `RoundsComplete` (RoundInv) also assumes that the owner stops no single
  contribution: a reply stopped after its executor died stays `cancel_requested`
  through resume() and is neither spoken nor counted.
- **WorkersProofs.** CoordinationBudget: `BudgetTypeCorrect`, `CeilingsHold`, and
  `SlotsHold` by SlotInv: InFlightBounded speaks of the provider and is not
  inductive; whatever is at work there has a receipt that holds a slot, and those
  are within limits. Browser: BrowserInv (`BrowserShape`) says what each request
  under way takes its tab for: a tab is driven only under its lock, claimed for one
  portal only, and a sign-out that runs alone has all of its portal's tabs before
  it. From it `BrowserHolds`: SignOutFinal, ReadsItsOwn, TabsBelong. Terminal:
  TerminalInv (`TerminalShape`) is inductive in three independent parts. Sessions:
  TurnsKept alone is not (resuming drops a conversation), so every turn said is in a
  record or given up, a record holds nothing its own session lacks, and open ids
  differ unless two terminals wrote one record. Keys: nothing is carried while a
  turn runs, nothing is queued between turns, and an open question has the screen.
  Picker: the cursor is on an option of the rows, which are a FlattenSeq; what it
  computes is proved by set induction. From it `TerminalHolds`, and with the
  browser `FrontsHold` (FrontsSound).
- **SharedSpendingProofs.** SpendInv relates rows, stages and what the provider has
  taken (`SpendingShape`); from it `RestartsQuietly`, the refinement
  `SpendingPaysOnce`, and `SpendingSlots`, which counts the slots taken.
- **TurnsProofs.** ConfigInv: an identity the store forgot belongs to a revision
  that is past, so its repetition conflicts (`ConfiguresOnce`). LoopInv pairs the
  queue of calls with their receipts (`LoopShape`, the refinement `ToolsActOnce`),
  EnteredPinned adds the connection a call was admitted under (`AuthorityPinned`),
  HistoryInv the stored answers and results (`HistoryAlwaysHonest`). Warden:
  LoopSound is inductive (`WardenLoopSound`): on the Gate, where a turn starts from
  a repaired transcript, every call in the transcript has its answer and the model
  is called on a user's message (GateTurn), and a file the cache vouches for is
  quoted in the transcript (Grounded). From it `TranscriptPairedHolds` on the Gate
  (`Entrance = "gate"`, as in the runs) and `CacheGroundedHolds` where no subagents
  are offered.
  Conversations: ConversationsInv says what each event of the log tells of and in
  which order a run's events come (question, contributions, end), that messages and
  contributions know one another, that a run that waits was not admitted to a free
  slot, and that the stream knows the consultations up to its cursor. AnswersVisible
  needs the question of an answer to lie before it, because an edit takes away all
  that is visible above a place; StreamTold needs that nothing of a run follows its
  end. PageShows is a consequence: the fold of the stored rows is unfolded message by
  message (`RowsFold`: which rows stand, and what is held, after each), the places of
  the entries differ (`PlacesApart`), and the page lists the entries by their places
  (`PageListed`, `PageShown`). `Ascending` and `At` say what the code's sorts and
  filters return in a form the provers can use. It gives `ConversationsHold`.
- **MessagesProofs.** OutboxInv: a status is true of the wire, a live sender holds
  only rows in `sending` (`OutboxShape`, the refinement `MessagesSentOnce`,
  `OneQuestionOpen`). MailInv and WebInv: scans are fenced by the version of their
  cursor (`WatchShape`, `NewsAlwaysTold`). AutoInv: a create that was sent shows in
  the stage or the binding (`AutomationShape`, `OneWorkflowAlways`). InboxInv: a
  run exists only for a saved update (`InboxShape`, the refinement
  `InputsWorkedOnce`).
- **ForgeProofs.** GauntletInv keeps how each permit was decided
  (`GauntletShape`, `GateAlwaysHolds`); ProjectInv ties the folder's claim, the
  Cell and the phase of the task (`ProjectShape`, `OneWriterAlways`,
  `DependentAlwaysExact`); ReleaseInv the approval that claimed a plan
  (`ReleaseShape`, the refinement `PublishesOnce`); CellsInv puts a Cell in one
  place (`CellsShape`, `CellsAlwaysSound`).
- **LegionProofs.** LegionInv: LegionTyped, SteeringTrue (an instruction was
  delivered as often as its status says) and CardsTrue (a card has counted what
  the window has read). NothingMissed needs the arithmetic of pages, proved with
  set induction over the naturals (`LegionShape`, `NothingEverMissed`,
  `ResultsStay`, an action property). Dialogue: DialogueInv says of the rows of a
  round that a free response turn came after everything under its caller's
  questions (Faithful), that a caller of questions has one (OneTurn), and what is
  asked in private stays so. The recursions of release_replies are unfolded once
  each (LineageUp, SettledStep, AnswerStep, ReleasedStep); `Grown` relates rows to
  later ones (what is over stays as it ended, only an open step asks), and what
  holds when a turn is freed holds on whatever has Grown from it. It gives
  `DialogueTypes`, `LeadStaysMember`, `ReturnsFaithfulHolds` and
  `PrivateStaysPrivateHolds`.
- **ServicesProofs.** Iacon: RecordWritten, Paid and Asked are inductive separately
  (`MemoryShape`, `MemoryHolds`); `ServedHolds` is an action property. Solus:
  SolusInv says of every book that its entries are well formed, occurrences differ,
  settlements stay within, and every lot is fine, of the forms that they are commands,
  and of a capture that it read the present defaults or an older edition. That the
  sales of a lot took their share is not inductive: reversing one would leave the
  others with the costs of before. LotFine asks it of the sales up to each entry
  (sums by set induction over the ordinals); since only the last sale that stands may
  be reversed, what is left is a prefix, and a sale dated before such a reversal is
  the exception that `lot_skewed` shows. An import is followed row by row. It gives
  `BooksHold`, `PostingsHold` and, with `ServedHolds`, `StepsFencedHold`. Library:
  LibraryInv adds to the properties that the catalogue grows, the sync follows it
  and the indexer works on what it was given (`LibraryShape`, `LibraryHolds`).
  Health: HealthInv (`HealthShape`); with the library it gives `MirrorsHold`.
  Accounts: LinkInv (tickets are spent once, a refresh under way holds its lock, a
  call's account and what it wrote are those of its requests) and SplitInv (the
  occurrences of a series at each request of a split) give `AccountsShape` and
  `AccountsHold`.

Only model-checked: liveness (EveryRunSettles, ReturnsComeBack, NoWaitForever,
CallReturns, and the liveness halves of WorkersEnd and InputWorkedOnce), which is
outside the prover's reach. The safety halves of the last two are `ResultsStay` and
`InputsWorkedOnce`. Every invariant the runs check is proved.

## Where the code falls short of a property

These are modelled as the code has them; where a property is weaker than one would
wish, this is why.

- Coordination: a run whose executor lost it still reports success (LostNotCompleted
  is defined, not checked); a second cancellation in the except branch skips settle()
  until recover() (CancelSettles likewise).
- Iacon: a crash between applying a proposal and marking it done makes the resumed
  review quarantine a unit that was applied; a held interpretation leaves its source
  queued.
- Browser: concurrent opens make two contexts for a portal and the orphan, reaped
  later, overwrites newer cookies; a sign-out that overlaps a read can be undone,
  so SignOutFinal speaks of sign-outs that ran alone.
- Library: an edition archived while its job was queued is not indexed when it is
  restored, until somebody asks for it.
- Accounts: a call admitted under an account that is being replaced may run on the
  new one; a failed second request of a split loses the later occurrences, and the
  tail keeps COUNT (google_rest.py:573), so the property is about series without
  one; the lost answer of a rotation strands the connection.
- Conversations: hiding and editing look at the room's active run only
  (client_compat.py:189, 462); events committed between the last empty page and the
  status read are not streamed.
- Terminal: /restore after /resume puts the other conversation under the resumed
  id; `/restore N` drops checkpoint N; two terminals opened in one second share a
  record (TurnsKept excludes shared ids).
- Health: a sample corrected to another day leaves the old day's rollup
  (`leftDays`).
- Solus: a sale put behind the reversal of an earlier one (`lot_skewed`) leaves the
  lot's cost inexact, so BooksSound asks for exact cost on the other lots; a reversing
  purchase may be dated before the reversed sale; statement cycles overlap
  (commands.py:247).
- Warden: a subagent shares the file cache, so CacheGrounded is checked where no
  subagents are offered (project jobs).

## Not modelled

Prompts, history packets, ranking, formatting, document generation, the client
applications, third-party services (external actions where their answers matter),
the model catalogue and the model policy (pure selection), Skills other than those
named, cloud provisioning. Inside modelled parts: reports and card statements of
Solus, retrieval and ranking of Iacon, extraction of text, schedule arithmetic,
subagents and plugins of FORGE, drawing in the terminal.

## Plan

Larger coverage: the planners and navigation skills hold little state; the MCP
clients and the Workshop's claims hold more and come first.
