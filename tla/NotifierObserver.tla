-------------------------- MODULE NotifierObserver --------------------------
(***************************************************************************)
(* The observation half of the notifier profile (ADR-022): the daemon       *)
(* lists local Codex conversations through one read-only App Server         *)
(* session, keeps one SQLite row per conversation, reads the conversations  *)
(* whose list timestamp moved, and enqueues one Telegram notice for each    *)
(* terminal turn it has not reported yet.                                   *)
(*                                                                         *)
(* Three parties interleave:                                               *)
(*   - Codex itself (external): turns start, get a final answer, finish;    *)
(*   - the observation cycle (pollLoop, under notifierCycleMu): one list    *)
(*     head page, one sweep page, then a bounded batch of thread reads;     *)
(*   - the control loop: replaces the session when a repair is requested.   *)
(* Every SQLite transaction is one step (the store has one connection), and *)
(* the process may die between any two of them.                            *)
(***************************************************************************)
EXTENDS Integers, FiniteSets, Sequences

CONSTANTS
  Threads,         \* conversation ids, ordered as SQLite orders them
  FinishStatuses,  \* statuses with which Codex may finish a turn
  Unreadable,      \* conversations whose thread/read always fails with the
                   \* App Server's sub-agent deserialization error
  Rapid,           \* bound: conversations that may change twice in a second
  PageSize,        \* notifierCatalogLimit
  BatchLimit,      \* notifierThreadReadBatchLimit
  RetryDelay,      \* notifierThreadReadRetryDelay, in clock units
  LastUpdate,      \* bound: Codex changes nothing after this second
  MaxClock,        \* bound on the clock
  MaxTurns,        \* bound on the turns of one conversation
  MaxFaults        \* bound on failed calls, crashes and operator repairs

ASSUME ThreadsAssumption == Threads \subseteq Nat /\ IsFiniteSet(Threads)
ASSUME StatusAssumption ==
  FinishStatuses \subseteq {"completed", "failed", "interrupted", "cancelled"}
ASSUME BoundsAssumption ==
  /\ Unreadable \subseteq Threads /\ Rapid \subseteq Threads
  /\ PageSize \in Nat \ {0}
  /\ BatchLimit \in Nat \ {0}
  /\ RetryDelay \in Nat
  /\ LastUpdate \in Nat /\ MaxClock \in Nat /\ MaxTurns \in Nat /\ MaxFaults \in Nat

VARIABLES
  clock,         \* wall clock, Unix seconds
  turns,         \* Codex: the turns of each conversation, oldest first
  updated,       \* Codex: updated_at of each conversation, in whole seconds
  changed,       \* history: conversations a turn of which changed after activation
  twice,         \* history: conversations whose last change fell in the same
                 \* second as the change before it
  rows,          \* notifier_observations, one row per conversation
  activation,    \* daemon_state notifier.activated_at
  sweepCursor,   \* daemon_state sweep cursor: {} or one list entry
  queue,         \* terminal_events and their delivery rows, in insert order
  target,        \* is a Telegram chat paired (observer.global_*)?
  repairRequest, \* is daemon_state control.repair_request non-empty?
  pc,            \* where the observation cycle is
  page,          \* list entries of the page still to be stored
  nextCursor,    \* the cursor that came with the page
  due,           \* rows of the batch still to be read
  snap,          \* what the last thread/read returned and still has to be stored
  firstErr,      \* first error of the batch
  connected,     \* pollConnected
  control,       \* where the control loop is
  faults,        \* faults so far
  owed           \* history: first turn the row's cursor answers for

codex == <<clock, turns, updated, changed, twice>>
store == <<rows, activation, sweepCursor, queue, target, repairRequest>>
cycle == <<pc, page, nextCursor, due, snap, firstErr>>
session == <<connected, control>>
ghosts == <<faults, owed>>
vars == <<codex, store, cycle, session, ghosts>>

-----------------------------------------------------------------------------
(***************************************************************************)
(* Turns and statuses.                                                     *)
(***************************************************************************)

RawStatuses == {"active", "completed", "failed", "interrupted", "cancelled"}

Turn == [status : RawStatuses, final : BOOLEAN]

\* SnapshotFromThreadRead with normalizeFinalizedTurn: a turn that is not
\* terminal but already has its final answer is presented as completed, unless
\* it waits for an approval or a reply: "final" says that the answer is there
\* and nothing is waited for, or that the turn ended with its answer there.
NormalizeFinalizedTurn(turn) ==
  IF turn.final /\ turn.status = "active" THEN "completed" ELSE turn.status

\* canonicalMinimalTerminalStatus
Canonical(status) == IF status = "cancelled" THEN "interrupted" ELSE status

SnapshotStatus(turn) == Canonical(NormalizeFinalizedTurn(turn))

\* notifierTerminalStatus: an interrupted turn counts only with a final answer.
NotifierTerminal(turn) ==
  \/ SnapshotStatus(turn) \in {"completed", "failed"}
  \/ SnapshotStatus(turn) = "interrupted" /\ turn.final

NoTurn == 0
NoStatus == ""

Statuses == RawStatuses \cup {NoStatus}

Row == [tracked : BOOLEAN, watermark : Nat, turn : Nat,
        status : Statuses, baseline : BOOLEAN,
        required : BOOLEAN, deferUntil : Nat]

Untracked == [tracked |-> FALSE, watermark |-> 0, turn |-> NoTurn, status |-> NoStatus,
              baseline |-> FALSE, required |-> FALSE, deferUntil |-> 0]

Key == [thread : Threads, turn : Nat, status : {"completed", "failed", "interrupted"}]

Events == {queue[i] : i \in DOMAIN queue}

-----------------------------------------------------------------------------
(***************************************************************************)
(* thread/list, sorted by updated_at, newest first, one page per request.   *)
(* A cursor names the last entry of the page it came with.                 *)
(***************************************************************************)

Entry == [thread : Threads, at : Nat]

Precedes(a, b) == a.at > b.at \/ (a.at = b.at /\ a.thread < b.thread)

\* The first k entries of S.
Newest(S, k) == {e \in S : Cardinality({x \in S : Precedes(x, e)}) < k}

First(S) == CHOOSE e \in S : \A x \in S : x = e \/ Precedes(e, x)

Catalog == {[thread |-> t, at |-> updated[t]] : t \in {u \in Threads : turns[u] # <<>>}}

After(cursor) == {e \in Catalog : \A c \in cursor : Precedes(c, e)}

ListPage(cursor) == Newest(After(cursor), PageSize)

ListNextCursor(cursor) ==
  IF After(cursor) = ListPage(cursor) THEN {}
  ELSE {e \in ListPage(cursor) : \A x \in ListPage(cursor) : x = e \/ Precedes(x, e)}

-----------------------------------------------------------------------------
(***************************************************************************)
(* The statements on notifier_observations, as functions of a row.          *)
(***************************************************************************)

\* Mutant: the new watermark is stored without re-arming the row.
ObserveWithoutRearm(row, at) ==
  IF ~row.tracked
  THEN [Untracked EXCEPT !.tracked = TRUE, !.watermark = at, !.required = TRUE]
  ELSE [row EXCEPT !.watermark = at]

\* Insert an unread row; an existing one is re-armed when the list timestamp
\* differs from the stored watermark, and left alone otherwise.
ObserveNotifierThread(row, at) ==
  IF ~row.tracked
  THEN [Untracked EXCEPT !.tracked = TRUE, !.watermark = at, !.required = TRUE]
  ELSE IF at # row.watermark
       THEN [row EXCEPT !.watermark = at, !.required = TRUE, !.deferUntil = 0]
       ELSE row

\* Mutant: the history that is dropped stays due and is read.
BaselineStaysDue(row, activationUnix) ==
  IF row.tracked /\ row.watermark <= activationUnix
  THEN [row EXCEPT !.baseline = TRUE]
  ELSE row

BaselineAtOrBefore(row, activationUnix) ==
  IF row.tracked /\ row.watermark <= activationUnix
  THEN [row EXCEPT !.baseline = TRUE, !.required = FALSE]
  ELSE row

DeferNotifierRead(row, retryAt) ==
  [row EXCEPT !.required = TRUE, !.deferUntil = retryAt]

\* The watermark stays the list's, whatever timestamp the read returned.
RecordNotifierRead(row, turn, status) ==
  [row EXCEPT !.turn = turn, !.status = status, !.baseline = TRUE,
              !.required = FALSE, !.deferUntil = 0]

\* ListNotifierObservationsDueAt
DueBatch(table, now) ==
  Newest({[thread |-> t, at |-> table[t].watermark] :
            t \in {u \in Threads : /\ table[u].tracked
                                   /\ table[u].required
                                   /\ table[u].deferUntil <= now}},
         BatchLimit)

\* EnsureNotifierActivation: the stored instant wins over the current one.
EnsureNotifierActivation(stored, now) == stored

-----------------------------------------------------------------------------
(***************************************************************************)
(* Which turns of a read conversation are announced.                       *)
(***************************************************************************)

\* Mutant: resume behind the cursor turn.
StartAfterCursor(row, read) ==
  IF row.turn # NoTurn /\ row.turn < Len(read) THEN row.turn + 1 ELSE Len(read) + 1

\* notifierStartIndex: resume at the cursor turn; without one, look at the
\* latest turn only.
NotifierStartIndex(row, read) ==
  IF row.turn # NoTurn /\ row.turn <= Len(read) THEN row.turn ELSE Len(read)

\* notifierTerminalTransition, for a baselined row
TerminalTransition(row, i, turn) ==
  row.turn # i \/ Canonical(row.status) # SnapshotStatus(turn)

\* notifierTerminalSnapshotsSince, as the set of turn numbers
TerminalSnapshotsSince(row, read, readUpdatedAt, activationUnix) ==
  IF ~row.baseline
  THEN {i \in {Len(read)} : readUpdatedAt > activationUnix /\ NotifierTerminal(read[i])}
  ELSE {i \in NotifierStartIndex(row, read)..Len(read) :
          NotifierTerminal(read[i]) /\ TerminalTransition(row, i, read[i])}

\* Mutant: the insert does not look for an event that is already there.
EnqueueAlways(q, key) == Append(q, key)

\* EnqueueTerminalEvent: the event row and its delivery row go in together,
\* and an event already present changes nothing.
EnqueueTerminalEvent(q, key) ==
  IF \E i \in DOMAIN q : q[i] = key THEN q ELSE Append(q, key)

-----------------------------------------------------------------------------
NoSnap == [thread |-> 0, turn |-> NoTurn, status |-> NoStatus, announce |-> {}]

Snap == [thread : Nat, turn : Nat, status : Statuses, announce : SUBSET Key]

InitialTurns ==
  {<<>>} \cup {<<[status |-> s, final |-> s = "completed"]>> :
                  s \in {"active"} \cup (FinishStatuses \ {"cancelled"})}

\* The first start of the daemon: newWithStore has stored the activation
\* instant; Start has spawned the loops; nothing is connected yet.
Init ==
  /\ clock = 0
  /\ turns \in [Threads -> InitialTurns]
  /\ updated = [t \in Threads |-> 0]
  /\ changed = {} /\ twice = {}
  /\ rows = [t \in Threads |-> Untracked]
  /\ activation = 0
  /\ sweepCursor = {}
  /\ queue = <<>>
  /\ target \in BOOLEAN
  /\ repairRequest = FALSE
  /\ pc = "idle" /\ page = {} /\ nextCursor = {} /\ due = {}
  /\ snap = NoSnap /\ firstErr = "none"
  /\ connected = FALSE
  /\ control = "idle"
  /\ faults = 0
  /\ owed = [t \in Threads |-> NoTurn]

-----------------------------------------------------------------------------
(***************************************************************************)
(* Codex (external).                                                       *)
(***************************************************************************)

Latest(t) == turns[t][Len(turns[t])]

SetLatest(t, turn) == [turns EXCEPT ![t][Len(turns[t])] = turn]

MayChange(t) == clock <= LastUpdate /\ (t \in Rapid \/ updated[t] < clock)

\* Codex stamps the conversation with the present second.
Stamp(t) ==
  /\ updated' = [updated EXCEPT ![t] = clock]
  /\ twice' = IF updated[t] = clock THEN twice \cup {t} ELSE twice \ {t}

\* A step of a turn, as opposed to one that only moves updated_at.
TurnChanges(t) ==
  /\ Stamp(t)
  /\ changed' = IF clock > activation THEN changed \cup {t} ELSE changed
  /\ UNCHANGED <<clock, store, cycle, session, ghosts>>

StartTurn(t) ==
  /\ MayChange(t)
  /\ Len(turns[t]) < MaxTurns
  /\ turns[t] # <<>> => Latest(t).status # "active"
  /\ turns' = [turns EXCEPT ![t] = Append(@, [status |-> "active", final |-> FALSE])]
  /\ TurnChanges(t)

\* The final answer is recorded before the turn is marked as finished; a turn
\* that waits for the owner after it is not shown as finished any more.
FinalAnswer(t) ==
  /\ MayChange(t)
  /\ turns[t] # <<>>
  /\ Latest(t).status = "active"
  /\ turns' = SetLatest(t, [status |-> "active", final |-> ~Latest(t).final])
  /\ TurnChanges(t)

FinishTurn(t) ==
  /\ MayChange(t)
  /\ turns[t] # <<>>
  /\ Latest(t).status = "active"
  /\ \E s \in FinishStatuses, f \in BOOLEAN :
       /\ Latest(t).final \/ s = "completed" => f
       /\ turns' = SetLatest(t, [status |-> s, final |-> f])
  /\ TurnChanges(t)

\* A provisional interruption is replaced by the real result.
SettleTurn(t) ==
  /\ MayChange(t)
  /\ turns[t] # <<>>
  /\ Latest(t) = [status |-> "interrupted", final |-> FALSE]
  /\ turns' = SetLatest(t, [status |-> "completed", final |-> TRUE])
  /\ TurnChanges(t)

\* updated_at moves while the turns stay the same (a rename, for instance).
TouchThread(t) ==
  /\ MayChange(t)
  /\ turns[t] # <<>>
  /\ updated[t] < clock
  /\ Stamp(t)
  /\ UNCHANGED <<clock, turns, changed, store, cycle, session, ghosts>>

Tick ==
  /\ clock < MaxClock
  /\ clock' = clock + 1
  /\ UNCHANGED <<turns, updated, changed, twice, store, cycle, session, ghosts>>

-----------------------------------------------------------------------------
(***************************************************************************)
(* The observation cycle: refreshObserverIndex, then pollTracked.           *)
(***************************************************************************)

Fault == faults < MaxFaults /\ faults' = faults + 1

\* The end of a cycle releases notifierCycleMu; when the control loop ran it,
\* bootstrapTrackedState returns there.
EndCycle ==
  /\ pc' = "idle"
  /\ control' = IF control = "running" THEN "clear" ELSE control

\* Without a session, discovery returns at once and polling is next.
StartCycle ==
  /\ pc = "idle"
  /\ pc' = IF connected THEN "listHead" ELSE "poll"
  /\ UNCHANGED <<page, nextCursor, due, snap, firstErr, connected, codex, store, ghosts>>

\* A tick of pollLoop; TryLock fails while another cycle runs.
PollLoopTick ==
  /\ control # "running"
  /\ StartCycle
  /\ UNCHANGED control

ListHead ==
  /\ pc = "listHead"
  /\ page' = ListPage({})
  /\ nextCursor' = ListNextCursor({})
  /\ pc' = "observeHead"
  /\ UNCHANGED <<due, snap, firstErr, codex, store, session, ghosts>>

ListSweep ==
  /\ pc = "listSweep"
  /\ page' = ListPage(nextCursor)
  /\ nextCursor' = ListNextCursor(nextCursor)
  /\ pc' = "observeSweep"
  /\ UNCHANGED <<due, snap, firstErr, codex, store, session, ghosts>>

\* Either list request fails: by deadline (refreshObserverIndex asks for the
\* repair) or otherwise (noteSessionError does). Polling follows regardless.
ListFails ==
  /\ pc \in {"listHead", "listSweep"}
  /\ Fault
  /\ repairRequest' = TRUE
  /\ pc' = "poll"
  /\ UNCHANGED <<page, nextCursor, due, snap, firstErr, codex, session, owed,
                 rows, activation, sweepCursor, queue, target>>

\* observeNotifierListPage stores the entries of a page one transaction each.
ObserveEntry ==
  /\ pc \in {"observeHead", "observeSweep"}
  /\ page # {}
  /\ LET e == First(page) IN
       /\ rows' = [rows EXCEPT ![e.thread] = ObserveNotifierThread(@, e.at)]
       /\ page' = page \ {e}
  /\ UNCHANGED <<pc, nextCursor, due, snap, firstErr, codex, session, ghosts,
                 activation, sweepCursor, queue, target, repairRequest>>

\* Mutant: every sweep starts behind the head, the stored cursor is ignored.
SweepFromHead ==
  /\ pc = "observeHead" /\ page = {}
  /\ pc' = IF nextCursor = {} THEN "poll" ELSE "listSweep"
  /\ sweepCursor' = IF nextCursor = {} THEN {} ELSE sweepCursor
  /\ UNCHANGED <<page, nextCursor, due, snap, firstErr, codex, session, ghosts,
                 rows, activation, queue, target, repairRequest>>

\* After the head page: resume the stored sweep, or start one behind the head.
EndHead ==
  /\ pc = "observeHead" /\ page = {}
  /\ LET sweep == IF sweepCursor # {} THEN sweepCursor ELSE nextCursor IN
       /\ pc' = IF sweep = {} THEN "poll" ELSE "listSweep"
       /\ nextCursor' = sweep
       /\ sweepCursor' = IF sweep = {} THEN {} ELSE sweepCursor
  /\ UNCHANGED <<page, due, snap, firstErr, codex, session, ghosts,
                 rows, activation, queue, target, repairRequest>>

EndSweep ==
  /\ pc = "observeSweep" /\ page = {}
  /\ sweepCursor' = nextCursor
  /\ nextCursor' = {}
  /\ pc' = "poll"
  /\ UNCHANGED <<page, due, snap, firstErr, codex, session, ghosts,
                 rows, activation, queue, target, repairRequest>>

\* pollNotifierThreads up to its loop.
PollSkipped ==
  /\ pc = "poll"
  /\ repairRequest \/ ~connected
  /\ EndCycle
  /\ page' = {} /\ nextCursor' = {}
  /\ UNCHANGED <<due, snap, firstErr, codex, store, connected, ghosts>>

PollStart ==
  /\ pc = "poll"
  /\ ~repairRequest /\ connected
  /\ activation' = EnsureNotifierActivation(activation, clock)
  /\ rows' = [t \in Threads |-> BaselineAtOrBefore(rows[t], activation')]
  /\ due' = DueBatch(rows', clock)
  /\ page' = {} /\ nextCursor' = {}
  /\ firstErr' = "none"
  /\ pc' = "read"
  /\ UNCHANGED <<snap, codex, session, ghosts, sweepCursor, queue, target, repairRequest>>

Current == First(due).thread

NextDue == due' = due \ {First(due)}

Keys(t, is) ==
  {[thread |-> t, turn |-> i, status |-> SnapshotStatus(turns[t][i])] : i \in is}

\* thread/read succeeds. With nothing to announce the row is recorded next;
\* with something to announce and no paired chat the row is left as it is.
ReadThread ==
  /\ pc = "read" /\ due # {}
  /\ Current \notin Unreadable
  /\ LET t == Current
         found == TerminalSnapshotsSince(rows[t], turns[t], updated[t], activation)
     IN IF found # {} /\ ~target
        THEN NextDue /\ UNCHANGED <<pc, snap>>
        ELSE /\ snap' = [thread |-> t, turn |-> Len(turns[t]),
                         status |-> SnapshotStatus(Latest(t)),
                         announce |-> Keys(t, found)]
             /\ pc' = "store"
             /\ UNCHANGED due
  /\ UNCHANGED <<page, nextCursor, firstErr, codex, store, session, ghosts>>

\* The next event of the read, oldest turn first, in a transaction of its own.
EnqueueNext ==
  /\ pc = "store" /\ snap.announce # {}
  /\ LET k == CHOOSE k \in snap.announce : \A x \in snap.announce : k.turn <= x.turn
     IN /\ queue' = EnqueueTerminalEvent(queue, k)
        /\ snap' = [snap EXCEPT !.announce = @ \ {k}]
  /\ UNCHANGED <<pc, page, nextCursor, due, firstErr, codex, session, ghosts,
                 rows, activation, sweepCursor, target, repairRequest>>

\* RecordNotifierRead moves the cursor once every event is stored.
RecordRead ==
  /\ pc = "store" /\ snap.announce = {}
  /\ LET t == snap.thread IN
       /\ rows' = [rows EXCEPT ![t] = RecordNotifierRead(@, snap.turn, snap.status)]
       /\ owed' = [owed EXCEPT ![t] =
                     IF rows[t].turn # NoTurn THEN @
                     ELSE IF snap.status = "active" THEN snap.turn ELSE snap.turn + 1]
  /\ snap' = NoSnap
  /\ NextDue
  /\ pc' = "read"
  /\ UNCHANGED <<page, nextCursor, firstErr, codex, session, faults,
                 activation, sweepCursor, queue, target, repairRequest>>

\* Mutant: an unreadable conversation stays due.
UnreadableStaysDue ==
  /\ pc = "read" /\ due # {}
  /\ Current \in Unreadable
  /\ NextDue
  /\ UNCHANGED <<pc, page, nextCursor, snap, firstErr, codex, store, session, ghosts>>

\* isUnreadableSubagentThreadReadError: give the row up until its next update.
ReadUnreadable ==
  /\ pc = "read" /\ due # {}
  /\ Current \in Unreadable
  /\ rows' = [rows EXCEPT ![Current] = RecordNotifierRead(@, @.turn, @.status)]
  /\ NextDue
  /\ UNCHANGED <<pc, page, nextCursor, snap, firstErr, codex, session, ghosts,
                 activation, sweepCursor, queue, target, repairRequest>>

\* thread/read misses its deadline; the bound keeps the retry within MaxClock.
ReadDeadline ==
  /\ pc = "read" /\ due # {}
  /\ clock + RetryDelay <= MaxClock
  /\ Fault
  /\ rows' = [rows EXCEPT ![Current] = DeferNotifierRead(@, clock + RetryDelay)]
  /\ firstErr' = IF firstErr = "none" THEN "deadline" ELSE firstErr
  /\ NextDue
  /\ UNCHANGED <<pc, page, nextCursor, snap, codex, session, owed,
                 activation, sweepCursor, queue, target, repairRequest>>

ReadFails ==
  /\ pc = "read" /\ due # {}
  /\ Fault
  /\ firstErr' = IF firstErr = "none" THEN "other" ELSE firstErr
  /\ NextDue
  /\ UNCHANGED <<pc, page, nextCursor, snap, codex, store, session, owed>>

\* The batch is done; noteSessionError asks for a repair unless the first
\* error was a deadline.
EndPoll ==
  /\ pc = "read" /\ due = {}
  /\ repairRequest' = (repairRequest \/ firstErr = "other")
  /\ firstErr' = "none"
  /\ EndCycle
  /\ UNCHANGED <<page, nextCursor, due, snap, codex, connected, ghosts,
                 rows, activation, sweepCursor, queue, target>>

-----------------------------------------------------------------------------
(***************************************************************************)
(* The control loop, the operator and the process.                         *)
(***************************************************************************)

\* reconcileSessions, or ensureSessions after a start.
Reconcile ==
  /\ ~connected
  /\ control = "idle"
  /\ connected' = TRUE
  /\ UNCHANGED <<control, codex, store, cycle, ghosts>>

\* repairNotifierPollSession swaps the session while it holds
\* notifierCycleMu, so never under a running cycle.
RepairSwap ==
  /\ control = "idle" /\ repairRequest
  /\ pc = "idle"
  /\ \/ connected' = TRUE /\ UNCHANGED faults
     \/ connected' = FALSE /\ Fault
  /\ control' = "boot"
  /\ UNCHANGED <<codex, store, cycle, owed>>

\* bootstrapTrackedState after the swap: one observation cycle of its own,
\* or none when pollLoop holds the lock.
Bootstrap ==
  /\ control = "boot"
  /\ \/ StartCycle /\ control' = "running"
     \/ pc # "idle" /\ control' = "clear" /\ UNCHANGED <<cycle, connected, codex, store, ghosts>>

ClearRepair ==
  /\ control = "clear"
  /\ repairRequest' = FALSE
  /\ control' = "idle"
  /\ UNCHANGED <<connected, codex, cycle, ghosts, rows, activation, sweepCursor, queue, target>>

\* /repair, or the repair command of the CLI.
RequestRepair ==
  /\ Fault
  /\ repairRequest' = TRUE
  /\ UNCHANGED <<codex, cycle, session, owed,
                 rows, activation, sweepCursor, queue, target>>

\* /start in the private chat pairs it.
PairTarget ==
  /\ ~target
  /\ target' = TRUE
  /\ UNCHANGED <<codex, cycle, session, ghosts,
                 rows, activation, sweepCursor, queue, repairRequest>>

\* The process dies and starts again: SQLite survives, newWithStore runs.
Restart ==
  /\ Fault
  /\ pc' = "idle" /\ page' = {} /\ nextCursor' = {} /\ due' = {}
  /\ snap' = NoSnap /\ firstErr' = "none"
  /\ connected' = FALSE
  /\ control' = "idle"
  /\ activation' = EnsureNotifierActivation(activation, clock)
  /\ UNCHANGED <<codex, owed, rows, sweepCursor, queue, target, repairRequest>>

-----------------------------------------------------------------------------
Codex(t) ==
  StartTurn(t) \/ FinalAnswer(t) \/ FinishTurn(t) \/ SettleTurn(t) \/ TouchThread(t)

Cycle ==
  \/ PollLoopTick \/ ListHead \/ ListSweep \/ ObserveEntry \/ EndHead \/ EndSweep
  \/ PollSkipped \/ PollStart \/ ReadThread \/ EnqueueNext \/ RecordRead
  \/ ReadUnreadable \/ EndPoll

Control == Reconcile \/ RepairSwap \/ Bootstrap \/ ClearRepair

Faulty == ListFails \/ ReadDeadline \/ ReadFails \/ RequestRepair \/ Restart

Next ==
  \/ \E t \in Threads : Codex(t)
  \/ Tick
  \/ Cycle
  \/ Control
  \/ PairTarget
  \/ Faulty

Spec == Init /\ [][Next]_vars

\* pollLoop and controlLoop are ticker loops that never block for ever, every
\* App Server request has a deadline, time passes, and the owner pairs the
\* chat. Failed calls and crashes happen at most MaxFaults times. The repair
\* waits in Mutex.Lock, which Go grants to a waiter however often TryLock
\* wins in between: strong fairness.
FairSpec ==
  /\ Spec
  /\ WF_vars(Cycle) /\ WF_vars(Control) /\ WF_vars(Tick) /\ WF_vars(PairTarget)
  /\ SF_vars(RepairSwap)

-----------------------------------------------------------------------------
(***************************************************************************)
(* Properties.                                                             *)
(***************************************************************************)

CodexOK ==
  /\ clock \in Nat /\ turns \in [Threads -> Seq(Turn)] /\ updated \in [Threads -> Nat]
  /\ changed \in SUBSET Threads /\ twice \in SUBSET Threads

StoreOK ==
  /\ rows \in [Threads -> Row] /\ activation \in Nat /\ sweepCursor \in SUBSET Entry
  /\ queue \in Seq(Key) /\ target \in BOOLEAN /\ repairRequest \in BOOLEAN

CycleOK ==
  /\ pc \in {"idle", "listHead", "observeHead", "listSweep", "observeSweep",
             "poll", "read", "store"}
  /\ page \in SUBSET Entry /\ nextCursor \in SUBSET Entry /\ due \in SUBSET Entry
  /\ snap \in Snap /\ firstErr \in {"none", "deadline", "other"}

RestOK ==
  /\ connected \in BOOLEAN /\ control \in {"idle", "boot", "running", "clear"}
  /\ faults \in Nat /\ owed \in [Threads -> Nat]

\* Every variable keeps its type.
TypeOK == CodexOK /\ StoreOK /\ CycleOK /\ RestOK

Announced(t, i) == \E k \in Events : k.thread = t /\ k.turn = i

\* The stored cursor never runs ahead of the queue: once a row has a cursor,
\* every reportable turn between the first one it answers for and the cursor
\* has its notice stored, and so has the cursor turn itself with the status
\* the row remembers. RecordNotifierRead must therefore come after every
\* EnqueueTerminalEvent of the read, whatever crash falls in between.
CursorCovered ==
  \A t \in Threads :
    /\ \A i \in 1..Len(turns[t]) :
         (rows[t].turn # NoTurn /\ owed[t] <= i /\ i < rows[t].turn /\ NotifierTerminal(turns[t][i]))
           => Announced(t, i)
    /\ (rows[t].turn # NoTurn /\ owed[t] <= rows[t].turn /\ rows[t].status \in {"completed", "failed"})
         => [thread |-> t, turn |-> rows[t].turn, status |-> rows[t].status] \in Events

\* The rows are well typed, and no cursor runs ahead of the stored notices.
CursorInv == TypeOK /\ CursorCovered

\* Notices of one conversation are queued in turn order, and no turn is queued
\* twice with the same status, although a crash between EnqueueTerminalEvent
\* and RecordNotifierRead makes the next read announce the same turns again.
QueueInTurnOrder ==
  \A i, j \in DOMAIN queue :
    (i < j /\ queue[i].thread = queue[j].thread) =>
      \/ queue[i].turn < queue[j].turn
      \/ queue[i].turn = queue[j].turn /\ queue[i].status # queue[j].status

\* A row that rests with the conversation's current list timestamp after
\* activation has seen the conversation's current turn and status: nothing
\* that Codex did is waiting for a read that will not come. Left out is only a
\* conversation that changed again within the second of its list timestamp:
\* ObserveNotifierThread cannot tell the two changes apart.
CaughtUp ==
  \A t \in Threads \ (Unreadable \cup twice) :
    (/\ rows[t].tracked /\ ~rows[t].required
     /\ rows[t].watermark = updated[t] /\ updated[t] > activation)
      => /\ rows[t].turn = Len(turns[t])
         /\ rows[t].status = SnapshotStatus(Latest(t))

\* A conversation Codex has listed gets a row, however many newer ones keep
\* the head page busy: the stored sweep cursor walks the whole catalog.
EveryThreadTracked ==
  \A t \in Threads : turns[t] # <<>> ~> rows[t].tracked

Reportable(t) ==
  turns[t] # <<>> /\ t \in changed /\ t \notin twice /\ NotifierTerminal(Latest(t))

\* A turn that ends after activation and stays the latest one is announced,
\* despite failed list and read calls, repairs, crashes, an unpaired chat and
\* unreadable neighbours in the small read batch. A conversation none of whose
\* turns changed after activation is a baseline and is owed nothing.
LatestTerminalAnnounced ==
  \A t \in Threads \ Unreadable :
    Reportable(t) ~> (Announced(t, Len(turns[t])) \/ ~Reportable(t))

\* ADR-022:26-28: "already-terminal conversations become baselines and are not
\* replayed". Nothing is announced of a conversation that Codex has not listed
\* as changed after activation, through crashes and stale list pages. (From then
\* on the code may announce its latest turn, also one that was over before:
\* notifier_observer.go:291.)
HistoryNotReplayed == \A k \in Events : updated[k.thread] > activation

=============================================================================
