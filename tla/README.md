# A TLA+ verification of codex_to_telegram

`ctr-go` is a daemon on the machine of one owner. It talks to a local Codex App Server over
JSON-RPC, keeps its state in one SQLite file, and talks to one Telegram bot. This directory holds
TLA+ models of its stateful parts, TLC configurations that check them on small instances, and
TLAPS proofs of the safety of all of them.

Every definition is translated from the Go code; `PROJECT.json` maps each one to its lines.

## 1. Inventory

### Profiles

The same binary runs in one of three profiles (`internal/config`):

* **notifier** (ADR-022): read-only. Observe every local conversation, send one notice when a turn ends.
* **minimal** (ADR-017 to ADR-021): the notices of the conversations that belong to the chat, replies
  that continue a conversation, a linked thread that Telegram owns, approvals, voice commands.
* **legacy**: live panels, details, plan prompts, cards that are edited in place.

The notifier and the minimal profile open the store with a *protector*: message text is encrypted
and erased once it is not needed. The legacy profile opens it without.

### Components

| component | code | state it keeps | operations |
|---|---|---|---|
| notifier observer | `daemon/notifier_observer.go` | nothing in memory but the running cycle | list head page, list sweep page, store entries, baseline, read due conversations, enqueue notices, record the read |
| notifier store | `storage/store_notifier.go` | `notifier_observations`, `daemon_state` activation instant and sweep cursor | observe, baseline, defer, record, list due, migrate profile |
| outbox | `storage/store.go` 2430-2800, `daemon/service.go` 1860-2010 | `terminal_events`, `delivery_queue`, `telegram_message_routes` | enqueue event or row, claim batch, send, complete, fail, recover at open |
| poll and repair loops | `daemon/service.go` | poll and live sessions, their generations, the repair request | poll tick, reconcile, repair, bootstrap |
| approvals | `daemon/minimal_approval.go`, `storage/store.go` 1540-2330, `appserver/client.go` | `minimal_approvals`, `minimal_approval_routes`, `Client.serverRequests` | store request, replay, replace, send card, claim, answer, finish, expire, recover |
| minimal observer | `daemon/minimal_observer.go` | `minimal_observations` | baseline, terminal transition, enqueue with release, deferred events |
| linked workers | `daemon/minimal_link_worker.go`, `minimal_link_routing.go` | `minimal_linked_threads`, the registry of worker processes | acquire, bind, hand off, release, confirm close |
| continuation | `daemon/minimal_continuation.go`, `storage/store_minimal.go` | `minimal_continuations`, `pending_commands` | claim, start turn, mark, queue, drain, recover |
| router, ingress, picker | `daemon/minimal_router.go`, `minimal_ingress.go`, `minimal_thread_picker.go` | `selected_projects`, `thread_bindings`, `callback_routes`, `minimal_picker_routes`, `pending_commands` | route a message or a button, single-use routes, select a folder, bind a conversation |
| voice | `daemon/minimal_voice.go`, `transcription/` | `voice_confirmations` | transcribe, ask, execute, cancel, abandon, expire |
| terminal gate | `daemon/terminal_gate.go` | `daemon_state`: turns marked as Telegram's, explicit interrupts, deferrals | mark, defer, recover, accept |
| app-server client | `appserver/client.go` | pending requests, server requests, subscribers | call, respond, publish, close |
| Telegram client | `telegram/bot.go`, `api.go` | update offset, in memory | long poll, dispatch, send, edit, delete |
| legacy panels | `daemon/panels.go`, `details.go`, `service.go` | `thread_panels`, `thread_snapshots` | open, edit, final card, Details, prompt |
| legacy input | `daemon/service.go`, `collaboration_reset.go` | `threads`, `chat_steer_state`, the plan override | steer or start, arm, stop |
| everything else | formatting, configuration, secrets, control API, tray, CLI, log archive, diagnostics | files and operating-system stores | no protocol |

### How they interact

* All tables are in one SQLite file behind one connection, so a transaction is atomic and two of them
  never overlap. Between two transactions of one handler anything can happen.
* The daemon runs goroutines: `pollLoop`, `controlLoop`, `deliveryLoop`, one event loop per App Server
  session, one watcher per linked worker, and the bot, which handles one Telegram update at a time.
* Mutexes guard some, not all, of the sections that span several transactions: `notifierCycleMu` for an
  observation cycle and for the swap of the poll session, `minimalApprovalMu` for the sending of an
  approval card and for `serverRequest/resolved` (not for the storing of a request, for the button's
  callback nor for the release of a worker), per-thread locks for linked threads.
* The App Server is a process of its own. It may end at any time, change conversations between two
  calls, miss a deadline, or read an answer and lose the acknowledgement.
* Telegram may accept a message and lose the answer.
* The process may die between any two steps; SQLite survives and is repaired when it is opened.

### What is hard here

Crashes between a side effect (a Bot API call, an answer to Codex, the start of a turn) and the
transaction that records it; retries of what was already done; state read before a call and used after
it; list timestamps in whole seconds; a bounded batch that must not starve; three goroutines working on
one approval; rows erased under a goroutine that still uses them. `PROJECT.json` lists each hazard at the
line where it bites with the property that covers it.

### What makes each component correct

* **observer**: the cursor of a conversation never runs ahead of the stored notices; notices are in
  turn order and not repeated; a resting row is up to date; a turn that ends after activation is announced
  eventually, and what was over before and has not changed since is not.
* **outbox**: parts in order; `terminal_events` agrees with its parts; duplicates only where a failure or a
  death explains them; routes exactly for delivered rows; no text kept of settled rows; everything is
  settled eventually.
* **approvals**: Codex hears one decision for a turn, from the card of this turn; what is stored and shown
  as decided was heard by Codex; once it may have been heard, the buttons are dead; a settled request
  stays settled; the daemon can always start.
* **linked threads**: the owner's reply starts exactly one turn; a thread is handed back only after its
  worker is gone and the result is in the outbox; a command waits, runs or is refused, never twice.
* **panels**: an answer that is recorded as told was sent; repetitions only where a failure explains them; the
  card a row edits exists; Details shows its own run; a panel does not show an answered turn as running for ever.
* **texts and the terminal gate**: a text arrives in one turn, once; no second turn next to a running one; an
  interruption is believed when it is one, and then shown.
* **chat input**: every update is handled, once per life of the daemon; a text runs in the folder the owner
  selected, a reply in the conversation of its card, a voice command only when confirmed and only once.

## 2. Modules

### NotifierObserver

Models `notifier_observer.go`, the statements of `store_notifier.go`, the parts of `service.go` that run
the loops and the pairing of the chat.

Codex (external) owns `turns`, the sequence of turns of each conversation, and `updated`, its list
timestamp. Turns start, get a final answer, complete or are interrupted, and a provisional interruption may
become a completion. Codex acts between any two steps of the daemon, and several times in one second where the
constant `Rapid` allows it.

The observation cycle is a program counter `pc` through `refreshObserverIndex` (list the head page,
store its entries one transaction each, list one sweep page behind the stored cursor) and
`pollNotifierThreads` (baseline, due batch, then for each row read, enqueue each notice in a
transaction of its own, record). `TerminalSnapshotsSince`, `NotifierStartIndex` and `NotifierTerminal`
are the pure functions of the same names; a turn is its number, and a read returns turn statuses after
`normalizeFinalizedTurn`. The control loop (`Reconcile`, `RepairSwap`, `Bootstrap`, `ClearRepair`)
shares `notifierCycleMu` with the cycle: it swaps the session only while `pc = "idle"`, and runs one cycle
of its own afterwards. `Restart` keeps exactly what SQLite keeps.

Three history variables: `owed` records from which turn on the row's cursor answers (turns before it belong to the
history the first read baselines), `changed` the conversations one of whose turns changed after the second of the
activation, and `twice` those that have changed twice in the second their timestamp shows. `Stamp` keeps the last.

### DeliveryQueue

Models the outbox: `EnqueueTerminalEvent`, `EnqueueDelivery`, `ClaimDeliveryBatch`, `processDeliveryBatch`
with every outcome of a send, `CompleteDelivery`, `FailDelivery`, the expiry of an approval in another
goroutine, the recovery at open and the retirement of other profiles' rows.

Rows are numbered by id, and their group, sequence number and kind are constants, so that the same module is
checked for several layouts and proved for all. Text is a Boolean (`payload`: erased or not), a back-off is a
flag that becomes true again, the Bot API call is accepted, accepted with a lost answer, or refused. Two branches of
the handler are left out because no row reaches them: a payload that is not JSON and one without a thread; every
enqueuer marshals a payload that names its thread.

### MinimalApprovals

Models one `request_id` of `minimal_approvals` through its life: Codex asks (again, or for a later turn),
the event loop stores the request with two buttons and a queue row, the delivery loop sends the card,
the user presses, the handler claims, answers and finishes; and, interleaved, `serverRequest/resolved`,
the release of the worker, a lost or replaced session, broken pipes, failed transactions and restarts.

Both buttons of a card always change together, so they are one *pair* with one status. `cards` is what the
user sees in Telegram and `told` what Codex heard: the properties relate the store to these two. After Codex was told,
the handler takes three steps, and the others run between them: the transaction that finishes the claim (`Finish`, or
`FinishFails` and `CancelClaim`, or `FinishLost`), the second read of the row (`ReadLost`, `ReadCard`), and the edit of
the card this read names (`ShowResult`). The request may have been replaced meanwhile.

### Handoff and LinkedHandoff

`Handoff` is the promise of ADR-020 in seven actions: a thread is taken for Telegram, gets a turn, its result
goes to the outbox in the step that ends the ownership, and it is handed back with a notice; a thread orphaned
by a restart is never handed back, a failed one stays failed.

`LinkedHandoff` models one linked thread in the code's own steps: `minimal_continuation.go` (fork, activation,
start of a turn), `minimal_link_worker.go` (processes, generations, receipts of a confirmed end),
`minimal_observer.go` (terminal transition, outbox, release), the part of `minimal_router.go` that queues and
drains commands of the thread, and the observing side of `service.go`. `act[a]` is the place where goroutine `a`
is: the bot, the poll loop, or the event loop of a worker. Each transaction and each call is an action; between
two of them the others run. `lock` is `lockThread` of the fork, and it is taken exactly where the code takes it:
from the moment a turn is seen to be over, and while a canonical turn is started; *not* while the fork is made
and *not* while a running turn is stored. The event loop of a worker runs in a context that is cancelled when
the worker is released, so `Cancelled` makes its next transaction fail.

Codex (external) has the turns of the thread and one writer, a worker process or the Desktop. A process that
ends takes its running turn with it. A turn with a final answer counts as over for every reader although Codex
has not ended it (`normalizeFinalizedTurn`), so `turns` distinguishes `answered` from `over`.

The refinement mapping is `phase <- link.state, turn <- link.turn`, with `outbox`, `notices` and the history
variable `orphaned` under their own names.

### ThreadPanel

Models `panels.go` and `details.go` for one thread in one chat of the legacy profile, with the parts of
`service.go` that load a snapshot and sync the panel. `latest` is what a read of Codex says about the latest
turn, `snap` what the store says, `panels` the rows of `thread_panels` and `chat` the cards in Telegram.

A goroutine (poll loop, event loop, bot) loads the snapshot, takes `panelMu` (`LockPanel`) and syncs: the code locks
only after the load, so the sync may work with an old view. What happens under the mutex is one action, written as a
pipeline over a record of rows, cards and the number of Telegram calls made so far; `fault` says which of the calls is
lost, is accepted with its answer lost, or is the last before the process dies. One thing in it is not under the mutex:
the mark of a turn as started from Telegram. When the turn was marked after the lock was taken, `mark` says after how
many of the sync's calls it was, and every check of the pipeline (`isTelegramOriginTurn`) is answered accordingly. Each
step of the pipeline (`syncThreadPanel` and what it calls: notices, live card, work cards, final card, protection
of a Telegram panel) has the name of its function. A press of Details takes no lock and has two steps.

### TelegramTurn

Models how the legacy profile puts a text into a thread (`sendInputToThreadTurn`: steer the armed turn, the one
replied to, the active one, the one Codex names in its error, or start a new one), `stopThread`, the override
that leaves Plan mode, and `terminal_gate.go`. Codex (external) also reports a running turn as interrupted for a
while (`Drifts`), which is why the gate exists. Reading the thread and storing what was read are two steps of every
goroutine, and the poll loop has taken its row from the list a step earlier; `mergeThreadMetadata`, `ThreadFromPayload`, `SnapshotFromThreadRead` and
`decideTelegramOriginEmptyInterruptedTerminal` are the functions of the same names. A call may fail, may succeed
with its answer lost, or may use up the handler's deadline, which all attempts share.

### ChatInput

Models what the owner of the minimal profile sends. `Bot.Run` (offset in memory, updates confirmed by the next
`getUpdates`, one handler at a time), `HandleInboundText`, the router's choice of a conversation, the pickers with
their two kinds of routes, and voice commands from `HandleVoice` to the verdict on the card. `cards` is what
Telegram shows, `where` the folder of each conversation as Codex knows it; conversations move and disappear at any
time. The handler's `job` makes one write or one call per step, and `Restart` may come between any two: it forgets
the offset, expires pending voice commands and changes the session identity. How a command runs once its
conversation is known (queue, fork, worker) is LinkedHandoff's subject; here it is run there, or refused or queued with
an answer that is no error (`Refuses`), or it fails. The verdict on the card of a voice command is that of the router's
answer, which stands below a heading that is the same for all three.

`Init` is an empty database or one with a card of every menu, so that a few updates reach the deep handlers.

## 3. Runs

The passing runs, with the distinct states TLC finds:

| run | instance | states | shows |
|---|---|---|---|
| `notifier_one` | 1 conversation, 3 turns, completed or interrupted, several changes a second, 2 faults | 4.1 M | `CursorInv`, `QueueInTurnOrder`, `CaughtUp`, `HistoryNotReplayed` |
| `notifier_live` | 2 conversations, one unreadable, batch of one, 1 fault | 0.99 M | `LatestTerminalAnnounced` under `FairSpec` |
| `notifier_sweep` | 3 conversations, pages of one entry | 0.40 M | `EveryThreadTracked` under `FairSpec` |
| `delivery_mixed` | two-part event, notice, approval; batch of 2; 1 restart, 1 failed transaction | 0.75 M | the safety properties of the outbox |
| `delivery_live` | the same with an observer message instead of the approval | 0.13 M | `EventuallySettled` under `FairSpec` |
| `approvals` | 2 turns, 2 sessions, 2 events, 2 cards, 1 fault | 4.1 M | all safety properties of the approvals |
| `linked_handoff` | 3 workers, 4 turns (1 inherited, at most 1 at the PC), 2 replies, 1 fault, 1 restart | 2.2 M | the safety properties of a linked thread, and that it implements `Handoff` |
| `thread_panel` | 2 turns, a poll loop and the bot, `per_run`; 1 press, failed call or death | 0.72 M | an answer is sent when recorded, is not repeated before another one, and reaches a running panel; Details and echo |
| `telegram_turn` | 2 turns, 2 texts; 2 of texts, presses, failed or late calls, deaths | 0.81 M | the ladder of a text and the terminal gate, with `StopIsShown` under fairness |
| `chat_input` | 2 folders, 3 conversations, pages of one, 2 updates, 1 failed call, death, move or ten minutes | 0.31 M | where texts, replies and voice commands run and how often; `EveryUpdateHandled` under fairness |

Each module's type invariant is checked as the first conjunct of the invariant that rests on it: `CursorInv`,
`ButtonsInv`, `QueueInv`, `PanelInv`, `GateInv` and `VoiceInv` are `TypeOK` with `CursorCovered`,
`ButtonsMatchRequest`, `QueueIsHonest`, `CardOnScreen`, `GateHolds` and `PendingVoiceHasCard`. `TypeOK`,
`AttemptsBounded` and `SettledIsErased` of the outbox are proved for every instance (section 5) and are not checked by a
run as well.

The bounds and why they are enough:

* `MaxTurns = 3` is the smallest number with a turn before, at and behind the cursor in one read;
  `MaxFaults = 2` lets a crash follow a failed call; a page and a batch of one make both limits bind.
  The clock runs one second past the last change, so that a deferred read becomes due again. `Rapid` names the
  conversations that may change more than once in a second: the only one of `notifier_one`, one of `notifier_live`, and
  none of `notifier_sweep`, which is about pages.
* In the outbox two parts are the smallest event with an order, `ClaimLimit = 2` splits four rows into
  several batches, and `MaxAttempts = 2` has a first attempt, a retry and a last one. The code's values
  (10 rows, 5 attempts) change nothing in the control flow, and the theorems hold for all of them.
* In the approvals two turns make replacement possible, two events are a request and either a replay, a
  replacement or its resolution, and two sessions are one loss or restart. Two cards
  (`MaxCards`, those that Telegram accepts) let the result of the first turn be shown when the second has its card
  already, and let a card be sent twice. One fault is any failed transaction, edit or write; ambiguous sends are not
  counted as faults.

* In the linked thread four turns are the smallest number with which a command could be started twice (the
  inherited turn, the one it waits behind, and two of its own; so the PC never takes the last one) and three workers the smallest with one for the
  fork, one for the queued command and one to spare for a wrong second start. One fault and one restart in any
  order; the workers of the dead daemon die with it or outlive it. The workers are interchangeable, so `NewWorker`
  takes any unused one; with a symmetry set instead TLC finds exactly as many states.

* In the panel two turns let a row move on while a sync still holds the older view; one event is a press or a
  fault at any Telegram call of any sync. The types do not bound the
  number of panels; the other bounds do.
* For the texts two turns are one running and one that must not be started next to it; two events are a text and
  one fault, two texts, or a press of Stop and a text.
* For the chat two updates after a used database are, for example, the selection of a folder and a text, or a
  press repeated; one fault is a death or a failed call between them.

The outbox, the approvals, the linked thread, the panel, the texts and the chat may come to rest (everything settled, the owner silent, bounds
used up), so their configurations do not check deadlock; the notifier's do.

Runs that refute a statement of the repository (TLC finds the behaviour):

| run | statement | what the code does |
|---|---|---|
| `delivery_poison` | ADR-002: "queue delivery is retried with backoff" | an approval that expires during a failing send leaves a retry row without payload, and every later claim fails on it |
| `linked_stuck` | ADR-020: a worker "closes after terminal persistence and outbox enqueueing" | the end of a fork's first turn is observed before the turn is recorded: nothing is enqueued, the worker stays, the link is `telegram_running` for ever |

## 4. Fairness

`NotifierObserver!FairSpec`: `pollLoop` and `controlLoop` are ticker loops in which every App Server call has a
deadline, so their steps are weakly fair; time passes; the owner pairs the chat. The repair waits in
`Mutex.Lock`, which Go hands to a waiter after at most a millisecond of starvation, however often `TryLock`
succeeds in between: strong fairness for `RepairSwap`. Failed calls and crashes are never required; the
bound `MaxFaults` says that they stop.

`DeliveryQueue!FairSpec`: `deliveryLoop` ticks every second, each call and each transaction returns, each back-off
ends. Telegram is never required to accept anything.

`LinkedHandoff!FairSpec`: `pollLoop` ticks, every call has a deadline, so each goroutine takes its next step; a
goroutine that waits for `lockThread` gets it (Go's mutex hands over to a starved waiter), hence strong fairness
for the two steps that acquire it; a turn of Codex ends. It is used for `linked_stuck` only: even under all of
it the ownership does not end.

`ThreadPanel!Spec`: the poll loop ticks, so `Observe` is weakly fair, a goroutine that waits for `panelMu` gets it
(strong fairness of `LockPanel`, Go's mutex again), and a sync that has begun ends. Codex and the
owner are never required to act. `TelegramTurn!Spec`: the poll loop reads tracked threads and stores what it has
read; the grace is measured by the clock, so `GraceExpires` is weakly fair. `ChatInput!Spec`: the bot's loop does not
stop, and every call it makes returns, so `Bot` is weakly fair.

The approvals have no liveness property: whether the user ever presses is up to the user.

## 5. Proofs

Each proof module extends the module it is about, states the inductive invariant `IInv`, proves that it holds
initially (`InitIInv`) and that every step keeps it (`NextIInv`, from one lemma per action or per group of actions
with the same effect), and derives the theorems a run checks on a small instance. `IInv` of each module was also
checked by TLC on the instance of the module's run before it was proved: a conjunct that is not inductive shows up
as a failed step, one that is false as a counterexample. The theorems hold for every value of the constants
that satisfies the module's assumptions; the bounds of the runs (turns, faults, restarts, events) are parameters
there, not limits.

Common to all: where a step changes one row, sequence or record of many, a lemma about the operator that changes
it (`SetPairsForms`, `SetLatestEffect`, `ObserveEffect`, `RecordEffect`, `EnqueueEffect`, ...) is stated once, and
the steps cite it; and where many steps leave a part of the state alone, a frame lemma (`QuietKeeps`, `IdleKeeps`,
`QuietStep`) does the work for all of them.

### DeliveryQueueProofs

For every set of rows, every layout of groups, every batch size and every number of attempts, restarts and failed
transactions:

* `TypeCorrect`, `Ordered` (`PartsInOrder`), `EventsAgree` (`EventMatchesParts`), `DuplicatesBounded`
  (`DuplicatesAccounted` and `AttemptsBounded`), `RoutesAreDelivered` (`RouteIffDelivered`), `SettledErased`
  (`SettledIsErased`);
* `ClaimsCanScan`: where no row belongs to an approval, a waiting row has its payload. The run
  `delivery_poison` shows that the hypothesis is needed;
* `DeliveredForGood`: the action property `DeliveredIsFinal`.

The assumptions are those of the module: ids are natural numbers; a row has a group exactly when its kind is a
terminal one; parts of a group have the same kind and distinct sequence numbers; limits are positive.

None of these invariants is inductive alone. `IInv` adds what the code relies on silently:

* `Sequential`: not only a *sent* part but one that is processing, waiting for a retry or delivered has all
  earlier parts delivered. Without it, nothing excludes that two parts of one event are in a batch
  together, and then the failure of one would kill the other in mid-send (`FailDelivery` kills the group).
* `BatchProcessing`: a claimed row is processing, unless it is an approval that expired meanwhile. This is
  why an unconditional update in `completeDelivery` is right for every other kind of row.
* `StageFitsBatch`: a row about to be completed was accepted by Telegram.
* `SendBudget`: a row whose next send has not begun has at most one accepted message per stored failure and
  restart, which leaves room for the one of the coming attempt.
* `BatchHasAttempts`, `Fresh`, `ApprovalRows`, `LiveHasPayload`: small facts about counters and kinds.

`DistinctPartsAssumption` and `Sequential` together give the central fact that a killed group has no second row in
the batch.

### NotifierObserverProofs

For every finite set of conversations, every page and batch size, clock, number of turns, crashes, failed calls and
repairs: `CursorsAreCovered` (`CursorInv`), `QueuedInOrder` (`QueueInTurnOrder`), and `RestingRowsCaughtUp`
(`CaughtUp`). Codex lists whole seconds, so a change in the second in which the row was read leaves the timestamp where
it is; `CaughtUp` excepts exactly the conversations in `twice`, whose present turn shares its second with an earlier
change, and no assumption is made about how often a conversation changes.

* `CursorsKept` says of a stored cursor, and `SnapKept` of the cursor a read is about to store, that every turn it
  answers for has a notice: in the queue, or among those the read still has to enqueue. The second becomes the
  first in `RecordRead`, when nothing is left to enqueue. `Covered` needs one part that `CursorInv` does not have:
  a turn that the cursor calls interrupted and that has its final answer. Such a turn is announced because a turn
  that was stored as interrupted can only become completed (`Settles`), never get its answer later.
* `QueueFits` and `SnapQueued` explain the order. After a crash between two enqueues the next read announces
  the same turns again, with keys that are in the queue already; what is not in the queue comes after everything
  that is, since all turns but the last are frozen when a later one exists.
* `SnapFresh`: while the list timestamp has not moved, the read in progress is the present state, again but for the
  conversations in `twice`.
* `RowsFit` and `EntriesFit`: timestamps trail (row, list entry, conversation, clock), and the page and the batch
  name conversations that exist. They also make `First`, the least entry, well defined (`FirstIsIn`, from the fact
  that a set of natural numbers has a least element).

`BaselinesStaySilent` (`HistoryNotReplayed`) needs a second invariant, `HistInv`, proved on top of `IInv`: not only what is
queued but also what is due and what has been read is of a conversation that changed after activation. It enters in
`PollStart`, where a row that stays due is newer than the activation because `BaselineAtOrBefore` has rested all others, and
survives since list timestamps only grow.

TLC checked `IInv` on the instance of `notifier_one` (4 085 895 states).

### MinimalApprovalsProofs

For every number of turns, sessions, events, button pairs, attempts and faults: `AnsweredOnce`
(`AnsweredOnceByItsCard`), `NothingToldTwice` (`ToldIsSpent`), `ResultsAreTrue` (`StatusIsTrue`), `ButtonsAreRight`
(`ButtonsInv`), and `SettledStays` (the action property `SettledIsFinal`).

* `CardsFit`: wherever a pair of buttons or a message is stored with a turn (request, row, edit, send in
  progress, callback), the card shows that turn. A press is answered for the turn of its card because of this.
* `ClaimInv`: a callback that has claimed a request holds it until the request is settled or replaced, and nothing
  was told before it answers.
* `ResultsTrue`: `StatusIsTrue` also of edits that still wait, of an answer that is still to be stored (of the claimed
  turn), and of one that is stored and still to be shown (of the turn of the card it will be shown on, or an earlier
  one: rows only move on to later turns).
* `ButtonsFit`, `TurnsFit`, `AttemptsFit`: one usable pair per pending request; requests are stored in the order of
  their turns; a row that may be sent has an attempt left.

TLC checked this `IInv` on the instance of `approvals` (4 099 347 states).

### LinkedHandoffProofs

For every finite set of workers and every number of turns (at least one), replies, failures and restarts:
`NoSecondStart` (`StartedOnce`), `QueueIsTrue` (`QueueInv`), `ReleasedWhenReady` (`ReadyIsReleased`), `ToldAfterEnd`
(`NoticeAfterEnd`), and `HandoffIsImplemented`: `Spec` implies the specification of `Handoff` under the mapping of
section 2.

* `ControlInv` says where each goroutine may be in each state of the link (`Fits`): who holds the lock, who forks,
  that one goroutine at most is starting the turn the link was taken for, and that whoever may hand the thread back
  knows that no process of it lives (`FinisherIsSafe`). `WorkedBelongsToLink` ties a living process that ran a turn
  to the link and its generation, unless the link failed or was orphaned.
* `TurnsInv`: only the last turn can be unfinished, and then its process is there.
* `CommandsInv`: a claimed command was given to Codex exactly when the goroutine that carries it thinks so. Only
  with this do the failure paths (give back, abort, complete) provably not start it again.
* `ManagerInv`: generations are numbered within a life of the daemon. It needs `WorkersAssumption` (the set of
  workers is finite), because the number of used workers bounds the generation.

The refinement is proved step by step: each action of `LinkedHandoff` is one of the seven actions of `Handoff` or
leaves its variables alone; `IInv` supplies the guards. TLC checked this `IInv` on the instance of `linked_handoff`
(2 238 053 states).

### TelegramTurnProofs

For every number of turns (at least one), texts, presses, failed calls and restarts: `GateIsSafe` (`GateInv`),
`OneAttemptTakesIt` (`TextArrivesOnce`), `NoneInParallel` (`NoParallelTurn`), `StopIsHonoured`
(`StopLeavesPlanMode`).

* `InterruptionExplained`: `GateHolds` also of a turn that is not marked as Telegram's yet and may still be, since
  the mark comes after the turn has started.
* `TextFits`: at each rung of the ladder of attempts, how often the text can have arrived so far, and that it has
  not unless an attempt at this very text was not answered in time (`ranOut`); no other fault counts.
* `FoundFits`: the turn that a text found running is the latest one or does not work any more, and as long as it may
  the handler knows of an active turn and does not start another one.
* `StopIsRemembered`: until a turn is started after Stop, the override is there or the thread is not in Plan mode.

TLC checked this `IInv` on the instance of `telegram_turn` (814 665 states).

### ChatInputProofs

For every finite set of working folders, every set of conversations at the start, every page size and every number of
updates, failed calls, moves and deaths of the daemon: `TypeCorrect` (`VoiceInv`), `Meant` (`TextsRunWhereMeant`),
`OncePerLife` (`UpdateRunsOnce`), `VoiceOnce` (`VoiceRunsOnce`), `PagesShow` (`PageShowsThreads`). The assumption is
that of the module: the folders are finitely many, and there is a conversation at the start.

* `InOrder`: what this life ran is behind the offset, the batch is not and is ascending. An update in hand has
  therefore not been run by this life, which is `UpdateRunsOnce` one step ahead. A death sets the offset back
  to 0 and begins a new life in the same step, so the conjunct speaks of no earlier one.
* `VoicesFit`: a command that is not *executed* was never given to Codex, one on its way to Codex is *executed* and
  was not given yet, and one that is pending has its card or is the one being sent. The order in the code,
  spent first and run second, is what makes this inductive: with the other order (`ConsumeAfterRun`) `VoiceOnce` fails.
* `VerdictsFit` and `RefusalsFit`: what a card says, and what an edit in hand is about to say, agrees with the runs and
  the table; an update that is to be answered as refused or queued was not given to Codex.
* `CardsFit`: a message is about one conversation from its first moment, and its route, stored two steps later, names
  that one. The exception is the card of a voice command for a new conversation, which is about nothing until the
  command was run; as its route is empty until then, no reply in the meantime runs anywhere.
* `TextsFit` and `ListsFit`: the folder of a text in hand is still the selected one (only the handler selects); a menu
  keeps the routes of its buttons, since routes change their status and never what they do.

Twelve of the handlers' steps leave cards, voices, runs and offset alone and only pass the job on. `SimpleStep` says
so, `...Effect` shows it of each, and `SimpleKeeps` proves once that such a step keeps `IInv`. The list of a page
is not empty because a page that is shown is clamped to the last one (`PageFull`, from the division of the code).
TLC checked this `IInv` on the instance of `chat_input` (306 428 states).

### ThreadPanelProofs

For both panel modes, every set of loops and every number of turns, presses, failed calls and deaths: `AnswersSent`
(`FinalsSentOnce`), `RowsHaveCards` (`PanelInv`), `DetailsStay` (`DetailsShowItsRun`), and the action properties
`NoEcho` (`OwnTextNotEchoed`) and `PanelKept` (`TelegramPanelKept`).

* `LiveFits`: every row, current or not, has a card of its own, and it is in the chat. Without the second half (no two
  rows share one) deleting the old live card could take away another row's.
* `CountFits`: the repetitions among the final cards, and one more when the last final card of the current row is not
  the one it records (`OffIn`), are at most the failures. A final card that was sent and not recorded uses up its
  failure at once, before the repetition it leads to; this is the strengthening of `FinalsSentOnce`.
* `ToldFits` and `CardsFit`: the rest of `FinalsSentOnce`, and `DetailsShowItsRun`; `PressFits` carries the latter
  from the check of a press to its edit.
* `ActsFit`: a sync on its way has a view of a real turn, and the observer's are never forced. `PanelKept` needs it.
  `NoEcho` and `PanelKept` except a turn whose mark came when a sync already had the lock (`LockedBeforeMark`); for every
  other sync all checks of the pipeline see the mark (`NoticeUnmarked` is the lemma about the one that sends).

A sync is a pipeline of some ten calls. `Good` says of the record that it carries that its tables fit, counting the
failure once it has happened (`Spent`), and what changed since the sync began (`Since`, from which the two action
properties follow). Each function of the pipeline has a lemma that it keeps `Good` (`RunNoticeKeeps`,
`UserNoticeKeeps`, `CreateKeeps`, `FinalKeeps`, ... up to `SyncKeeps`), so the proof follows the code; whichever call
fails is dealt with once, in `CallKeeps`. What is true of the tables is in a few lemmas about rows and cards alone
(`Restyle`, `AddLive`, `AddRow`, `TakeForTold`, `SendFinal`). TLC checked this `IInv` on the instance of
`thread_panel`.

### Only model-checked

* The liveness properties (`LatestTerminalAnnounced`, `EveryThreadTracked` and those of section 4): fairness is out
  of the prover's reach.
* The instance of the outbox without a protector (`Protected = FALSE`, the legacy profile) is covered by the
  theorems and not by a run.

## 6. Not modelled

Formatting, configuration, secrets, the control API, the tray, the command line, diagnostics and the log
archive keep no protocol state. In the modelled parts the following is left out: texts and message layout;
chats and topics (one target); the notice that sends the user of an approval to the PC and its later
cleanup; the length of back-offs and deadlines; schema migrations other than the recovery of claims. Of the
linked thread: the queue of the source and its rehoming, continuations older than canonical links and their
adoption, discovery by listing, titles, the Telegram-origin terminal gate, a second fork after the first was
given up, and two failures of the store inside one handler.

Of the panel: the Plan card of a turn that waits for an answer, topics, the file of tools, texts. Of texts and gate:
the collaboration mode that the user asks for, turns that wait, live tool events, the hot poll as a goroutine of its
own, database errors. Of the chat: linked children of a binding, changes of the project registry, approvals and
answer choices (other modules), failing calls to the database, a failing `getUpdates` (nothing happens and it is
repeated).

Not modelled at all, and why: correlation of requests and answers in the App Server client (channels and contexts,
the candidate for the next module); the project registry (paths of the file system); configuration, secrets, the
control API, the tray, the command line (no protocol between concurrent parties).

### Read in the code and not stated as a run

Notifier:

* A row that was made a baseline has no cursor, and without a cursor the latest turn is announced
  (`notifier_observer.go:291`). When a conversation that was over at activation is only touched, so that its timestamp
  moves and no new turn starts, its old latest turn is announced after all, although ADR-022 says that such conversations
  "become baselines and are not replayed" (lines 26 to 28). `LatestTerminalAnnounced` does not demand that announcement, and
  `HistoryNotReplayed` says what holds: nothing of a conversation whose timestamp has not moved past the activation is
  announced.
* A turn that is read while active and ends in the same second leaves the timestamp where it is, and its row is not read
  again before the next change (`store_notifier.go:177`, against "one Telegram notification for each newly observed
  terminal" turn of ADR-022). `CaughtUp` and `LatestTerminalAnnounced` except a conversation that has changed twice in its
  present second (`twice`), and nothing else.
* A turn that ends in the second of the activation is a baseline too, and not announced (`store_notifier.go:187`). A turn
  active at activation is not announced when it is no longer the latest at the first read.
* An interrupted turn without a final answer is never announced (`notifier_observer.go:318`); a turn read between its
  final answer and its end gets two notices if its status changes in between (`normalize.go:183`, against the
  same sentence of ADR-022).

Approvals and outbox:

* The result of a decision is shown on the card that the row names after the claim was finished
  (`minimal_approval.go:255`, `:506`): when the next turn's request has replaced it and its card is out by then, that card
  reads "approved" or "denied" and loses its buttons, although nobody has answered it. `StatusIsTrue` therefore allows
  the result of an earlier turn on a later card of the same request id. No document speaks of it.
* `rearmMinimalApprovalDeliveryIfDeadTx` (`store.go:1672`) expires claimed routes and leaves `claim_state`: when the
  earlier card had been accepted with a lost answer and its button is being answered, the claim ends up without
  routes, and `RecoverMinimalApprovalClaims` makes every later start of the daemon fail (`service.go:173`). In
  MinimalApprovals this is the state `~started`.
* A card whose button is pressed before its delivery is stored may read "inactive" although the request was approved
  (`minimal_approval.go:344`). Without a protector nothing recovers rows in `processing` after a restart
  (`store.go:97`).

Linked threads:

* A daemon that dies between the terminal transition of a linked turn and its enqueueing does not announce the turn
  (`minimal_observer.go:25`); a reply may overtake a queued command that was put back while the Desktop had the
  thread (`minimal_router.go:300`).

Panels:

* A turn is marked as started from Telegram after `turn/start` has returned, and without `panelMu` (`service.go:2688`,
  `panels.go:607`): a sync in between, or one that checked before the mark and sends after it, sends the text as a `[User]`
  notice, although ADR-005 says that input from Telegram is "not duplicated" (line 11). `OwnTextNotEchoed` excepts exactly
  the syncs that locked the panel before the mark (`LockedBeforeMark`).
* A sync that waited for `panelMu` with an old view overwrites a final card with live commentary, and as the answer
  is recorded, nothing restores it; with `force` it replaces the panel of a newer turn by one of an older turn, and
  the answer is sent once more from the new row.
* `last_final_notice_fp` names one turn, the last. With `PanelMode = "stable"` an old sync deletes the newer final
  card and sends the older answer again. The same happens with `per_run` and no failure when two loops and the bot
  wait for the lock: an old live sync puts the row back to *in progress*, `panelNeedsRefresh` then keeps the row for
  the next turn, its answer goes out from there, and an old final sync of the first turn sends that answer again
  (TLC: 17 steps). `FinalsSentOnce` therefore says that an answer is not sent again before another one; the stronger
  form, at most one card per row and turn and failure, is false.
* A panel that the observer makes from an empty interrupted turn takes the answer that comes later for a replay of
  the past and does not send it (`panels.go:113`); a panel whose row is terminal already sends its answer once and
  does not retry (`service.go:1924`).

Texts and gate:

* After a steer that timed out the next attempt is still written, as all share one deadline: the text may arrive
  twice, or start a turn next to the running one (`service.go:2561`). `TextArrivesOnce` allows it only of a text whose own
  attempt timed out.
* A thread status `idle` makes `mergeThreadMetadata` keep a stale active turn (`service.go:3600`), which ADR-012 says a
  merge must not. The armed steer is not cleared when the text lands by another rung. The catch-up window may end
  before the grace does. The gate's marks are read, changed and written without a lock.

Chat:

* A text handled right before a death, and not yet confirmed by `getUpdates`, is run again by the next life
  (`bot.go:90`); nothing recognises the update or the message. An edited message is handled as a new text.
* Execute pressed twice, or redelivered after a death, overwrites the verdict on the card by "expired, send the voice
  again" although the command ran. A picker press that was consumed by a life that died is answered as expired.
* The card of a confirmed voice command reads "executed" also when the router refused the command or put it in the queue
  (`minimal_voice.go:194`): the heading is fixed, and only the router's text below it tells them apart. The verdicts of
  `VoiceRunsOnce` are those of that text.
* The action `minimal_projects` has a handler and no button that creates it.

## 7. Plan

In this order:

1. **AppServerClient**: request and answer correlation, close against late answers, the buffer of events.
2. **PendingCommands**: the queue of the source and its rehoming.
3. Composition: observer and outbox, so that "a turn that ends is received once" is one statement.
