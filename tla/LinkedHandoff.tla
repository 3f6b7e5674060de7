---------------------------- MODULE LinkedHandoff ----------------------------
(***************************************************************************)
(* The life of one linked thread in the minimal profile: the owner replies *)
(* to a finished PC conversation, the daemon forks it once, and from then  *)
(* on every reply is a turn of the fork, run by a worker process of its    *)
(* own that is closed when the turn is over.                               *)
(*                                                                         *)
(* Three kinds of goroutines work on the thread: the bot, which handles    *)
(* one message at a time, the poll loop and the event loop of each worker. *)
(* All three observe the thread (read it, store what they saw, announce a  *)
(* finished turn, release the worker) and all three may start a turn,      *)
(* the bot for a reply and each of them for a queued command.  The lock of *)
(* the thread is held from the moment a turn is seen to be over, and while *)
(* a canonical turn is started; it is not held while the fork is made, nor *)
(* by an observer that stores a running turn.                              *)
(***************************************************************************)
EXTENDS Naturals, Sequences, FiniteSets

CONSTANTS
  Bot, Poll,      \* the goroutines that are always there
  Workers,        \* worker processes, each with an event loop in the daemon; a bound too
  Desktop,        \* Codex Desktop, the other writer
  None,
  MaxTurns,       \* bound: turns of the fork, the inherited one included
  MaxPCTurns,     \* bound: turns started at the PC
  MaxReplies,     \* bound: messages of the owner
  MaxFaults,      \* bound: failed calls, transactions and closes
  MaxRestarts     \* bound: deaths of the daemon

ASSUME BoundsAssumption ==
  /\ MaxTurns \in Nat \ {0} /\ MaxPCTurns \in Nat /\ MaxReplies \in Nat
  /\ MaxFaults \in Nat /\ MaxRestarts \in Nat

ASSUME WorkersAssumption == IsFiniteSet(Workers)

ASSUME NamesAssumption ==
  /\ Bot # Poll /\ None # Desktop
  /\ {Bot, Poll, Desktop, None} \cap Workers = {}
  /\ None \notin {Bot, Poll}

Actors == {Bot, Poll} \cup Workers

VARIABLES
  turns,      \* Codex: the turns of the fork; the first is inherited and over
  writer,     \* Codex: who has the fork loaded for writing
  procs,      \* the worker processes
  registry,   \* minimalLinkWorkerManager.byThread of the fork
  confirmed,  \* confirmedRelease: generation known to have ended, or 0
  lastGen,    \* nextGeneration; starts again with the daemon
  cont,       \* minimal_thread_continuations of the source turn
  link,       \* minimal_linked_threads
  row,        \* threads.active_turn_id of the fork, 0 for none
  obs,        \* minimal_thread_observations: last turn and whether it is over
  outbox,     \* turns with a row in terminal_events
  notices,    \* turns with a handoff_ready delivery
  cmds,       \* pending_commands of the fork, oldest first
  lock,       \* holder of Router.lockThread(fork)
  act,        \* where each goroutine is
  replies,    \* replies of the owner so far; a reply is its number
  started,    \* history: the prompts Codex started a turn for, in this order
  orphaned,   \* history: a restart came before the link was handed back
  faults, restarts

codex    == <<turns, writer>>
manager  == <<registry, confirmed, lastGen>>
store    == <<cont, link, row, obs, outbox, notices, cmds>>
history  == <<replies, started, orphaned>>
budget   == <<faults, restarts>>
vars     == <<codex, procs, manager, store, lock, act, history, budget>>

TurnIds == 1 .. MaxTurns

Idle == [pc |-> "idle", turn |-> 0, cmd |-> 0, worker |-> None, failed |-> FALSE]

\* Where a goroutine can be, and what it carries along: the turn it has seen or started,
\* the command it has claimed (0: the reply itself) and the worker it has acquired.
Pcs == {"idle", "read", "touch", "lock", "settle", "claim", "enqueue", "release", "closeany",
        "finish", "drain", "next", "queued", "enter", "acquire", "resume", "take", "turn",
        "persist", "mark", "complete", "abort", "giveback", "worker", "fork", "activate"}
Acts == [pc : Pcs, turn : 0 .. MaxTurns, cmd : Nat, worker : Workers \cup {None},
         failed : BOOLEAN]

Processes ==
  [gen : 0 .. Cardinality(Workers), open : BOOLEAN, alive : BOOLEAN, worked : BOOLEAN]
Statuses == {"pending", "claimed", "completed", "failed"}
Commands == [prompt : 1 .. MaxReplies, status : Statuses]
LinkStates == {"none", "running", "pending", "ready", "failed"}
Links == [state : LinkStates, gen : 0 .. Cardinality(Workers), turn : 0 .. MaxTurns]
Observations == [turn : 0 .. MaxTurns, over : BOOLEAN]

CodexOK ==
  /\ turns \in Seq({"running", "answered", "over"}) /\ Len(turns) <= MaxTurns
  /\ writer \in Workers \cup {Desktop, None}

ManagerOK ==
  /\ procs \in [Workers -> Processes] /\ registry \in Workers \cup {None}
  /\ confirmed \in 0 .. Cardinality(Workers)
  /\ lastGen \in 0 .. Cardinality(Workers)

StoreOK ==
  /\ cont \in {"none", "creating", "active", "definite", "ambiguous"}
  /\ link \in Links /\ obs \in Observations /\ row \in 0 .. MaxTurns
  /\ outbox \subseteq TurnIds /\ notices \subseteq TurnIds
  /\ cmds \in Seq(Commands)

ActsOK == act \in [Actors -> Acts] /\ lock \in Actors \cup {None}

HistoryOK ==
  /\ replies \in 0 .. MaxReplies
  /\ started \in Seq(1 .. MaxReplies)
  /\ orphaned \in BOOLEAN
  /\ faults \in 0 .. MaxFaults /\ restarts \in 0 .. MaxRestarts

TypeOK == CodexOK /\ ManagerOK /\ StoreOK /\ ActsOK /\ HistoryOK

Init ==
  /\ turns = <<>> /\ writer = None
  /\ procs = [w \in Workers |->
                [gen |-> 0, open |-> FALSE, alive |-> FALSE, worked |-> FALSE]]
  /\ registry = None /\ confirmed = 0 /\ lastGen = 0
  /\ cont = "none"
  /\ link = [state |-> "none", gen |-> 0, turn |-> 0]
  /\ row = 0 /\ obs = [turn |-> 0, over |-> FALSE]
  /\ outbox = {} /\ notices = {} /\ cmds = <<>>
  /\ lock = None /\ act = [a \in Actors |-> Idle]
  /\ replies = 0 /\ started = <<>> /\ orphaned = FALSE
  /\ faults = 0 /\ restarts = 0

Fault == faults < MaxFaults /\ faults' = faults + 1 /\ UNCHANGED restarts

-----------------------------------------------------------------------------
(* Goroutines.                                                             *)

\* a goes on at pc.
Goto(a, pc) == act' = [act EXCEPT ![a].pc = pc] /\ UNCHANGED lock

\* a leaves the observation of the thread and gives back its lock.  For the bot
\* it was the refresh before a reply, which it handles now; others are done.
Leave(a) ==
  /\ act' = [act EXCEPT ![a] = [Idle EXCEPT !.pc = IF a = Bot THEN "enter" ELSE "idle"]]
  /\ lock' = IF lock = a THEN None ELSE lock

\* The bot has answered the owner's message.
Answered ==
  /\ act' = [act EXCEPT ![Bot] = Idle]
  /\ lock' = IF lock = Bot THEN None ELSE lock

\* The event loop of a worker runs in the context of the worker, which is cancelled
\* as soon as the worker is released: its next call to the store fails.
Cancelled(a) == a \in Workers /\ registry # a

-----------------------------------------------------------------------------
(* Codex (external).                                                       *)

\* The running turn of the process that has the thread is over when it ends.
Stopped(w) ==
  IF writer = w /\ turns # <<>> THEN [turns EXCEPT ![Len(turns)] = "over"] ELSE turns

\* A turn goes on: it gets its final answer, or it is over.
Progress ==
  /\ turns # <<>> /\ turns[Len(turns)] # "over" /\ writer # None
  /\ \E s \in {"answered", "over"} \ {turns[Len(turns)]} :
       turns' = [turns EXCEPT ![Len(turns)] = s]
  /\ UNCHANGED <<writer, procs, manager, store, lock, act, history, budget>>

OpenDesktop ==
  /\ turns # <<>> /\ writer = None
  /\ writer' = Desktop
  /\ UNCHANGED <<turns, procs, manager, store, lock, act, history, budget>>

CloseDesktop ==
  /\ writer = Desktop
  /\ writer' = None /\ turns' = Stopped(Desktop)
  /\ UNCHANGED <<procs, manager, store, lock, act, history, budget>>

\* Bounds: at most MaxPCTurns, and the last turn is left to the workers.
DesktopTurn ==
  /\ writer = Desktop /\ turns[Len(turns)] = "over"
  /\ Len(turns) < MaxTurns - 1 /\ Len(turns) <= MaxPCTurns + Len(started)
  /\ turns' = Append(turns, "running")
  /\ UNCHANGED <<writer, procs, manager, store, lock, act, history, budget>>

\* A worker process ends by itself.  One the daemon still uses does so only by a fault.
ProcessDies(w) ==
  /\ procs[w].alive
  /\ IF procs[w].open THEN Fault ELSE UNCHANGED budget
  /\ procs' = [procs EXCEPT ![w].alive = FALSE]
  /\ writer' = IF writer = w THEN None ELSE writer
  /\ turns' = Stopped(w)
  /\ UNCHANGED <<manager, store, lock, act, history>>

-----------------------------------------------------------------------------
(* The manager of the worker processes.                                    *)

\* Processes that were never started.  They are interchangeable: which one is started
\* next makes no difference.
Unused == {w \in Workers : procs[w].gen = 0}
NewWorker == CHOOSE w \in Unused : TRUE

\* A new process w for a; it is registered under the thread if that is known.
Acquired(a, w, bound, pc) ==
  /\ Unused # {}
  /\ lastGen' = lastGen + 1
  /\ procs' = [procs EXCEPT ![w] = [gen |-> lastGen + 1, open |-> TRUE,
                                    alive |-> TRUE, worked |-> FALSE]]
  /\ registry' = IF bound THEN w ELSE registry
  /\ confirmed' = IF bound THEN 0 ELSE confirmed
  /\ act' = [act EXCEPT ![a].worker = w, ![a].pc = pc]
  /\ UNCHANGED <<codex, lock>>

\* w is taken out of the registry and its process closed.  The end of the process is
\* confirmed, with a receipt if the worker had the thread, or the close fails and the
\* process may live on.
Close(w, receipt) ==
  /\ registry' = IF registry = w THEN None ELSE registry
  /\ UNCHANGED lastGen
  /\ \/ /\ procs' = [procs EXCEPT ![w].open = FALSE, ![w].alive = FALSE]
        /\ writer' = IF writer = w THEN None ELSE writer
        /\ turns' = Stopped(w)
        /\ confirmed' = IF registry = w THEN receipt ELSE confirmed
        /\ UNCHANGED budget
     \/ /\ procs[w].alive
        /\ Fault
        /\ procs' = [procs EXCEPT ![w].open = FALSE]
        /\ UNCHANGED <<codex, confirmed>>

\* A worker that another goroutine has released meanwhile is not closed again.
ReleaseWorker(w) ==
  IF procs[w].open THEN Close(w, procs[w].gen) ELSE UNCHANGED <<codex, procs, manager, budget>>

-----------------------------------------------------------------------------
(* The link (minimal_linked_threads).                                      *)

FailLink(gen) ==
  link' = IF link.gen = gen /\ link.state \in {"running", "pending"}
          THEN [link EXCEPT !.state = "failed", !.turn = 0] ELSE link

\* FinishMinimalLinkedReleaseWithReadyDelivery: the link and its notice together.
Finishable(turn) == link.state = "pending" /\ link.turn = turn /\ turn # 0

HandBack(turn) ==
  /\ link' = [state |-> "ready", gen |-> 0, turn |-> 0]
  /\ notices' = notices \cup {turn}
  /\ confirmed' = 0
  /\ UNCHANGED <<registry, lastGen>>

-----------------------------------------------------------------------------
(* Observers: refreshThreadForOperation and pollTracked.                   *)

\* a reads the thread: the number of its latest turn and whether it is over.  A turn
\* with a final answer counts as over (normalizeFinalizedTurn).
Read(a) ==
  /\ turns # <<>>
  /\ act' = [act EXCEPT ![a] = [Idle EXCEPT
       !.turn = Len(turns),
       !.pc = IF turns[Len(turns)] = "running" THEN "touch" ELSE "lock"]]
  /\ UNCHANGED <<codex, procs, manager, store, lock, history, budget>>

\* The binding that ActivateMinimalLinkedThread stores makes the poll loop read it.
PollRead == act[Poll].pc = "idle" /\ link.state # "none" /\ Read(Poll)

WorkerEvent(w) ==
  /\ act[w].pc = "idle" /\ registry = w /\ procs[w].alive
  /\ Read(w)

BotRead == act[Bot].pc = "read" /\ Read(Bot)

BotReadFails ==
  /\ act[Bot].pc = "read" /\ Fault /\ Answered
  /\ UNCHANGED <<codex, procs, manager, store, history>>

\* ObserveMinimalThread for a thread with an active turn.  What is older than the stored
\* observation may be of the same second, and is stored then.
Observed(turn) ==
  \/ obs' = [turn |-> turn, over |-> FALSE]
  \/ (obs.turn > turn \/ (obs.turn = turn /\ obs.over)) /\ UNCHANGED obs

\* A running turn is stored without the lock, whatever has happened since the read.
Touch(a) ==
  /\ act[a].pc = "touch"
  /\ IF Cancelled(a) THEN UNCHANGED <<row, obs>>
     ELSE row' = act[a].turn /\ Observed(act[a].turn)
  /\ Leave(a)
  /\ UNCHANGED <<codex, procs, manager, cont, link, outbox, notices, cmds, history, budget>>

\* A turn that is over is handled under the lock, unless another one is active by now
\* (staleMinimalTerminalRefresh).
LockTerminal(a) ==
  /\ act[a].pc = "lock" /\ lock = None
  /\ IF Cancelled(a) \/ row \notin {0, act[a].turn} THEN Leave(a)
     ELSE act' = [act EXCEPT ![a].pc = "settle"] /\ lock' = a
  /\ UNCHANGED <<codex, procs, manager, store, history, budget>>

\* The row loses its active turn if Codex reports the thread itself as completed too.
\* Otherwise mergeThreadMetadata keeps it, and the thread still counts as observed active.
SettleRow(a) ==
  /\ act[a].pc = "settle"
  /\ IF Cancelled(a) THEN Leave(a) /\ UNCHANGED <<row, obs>>
     ELSE /\ Goto(a, "claim")
          /\ \/ row' = 0 /\ UNCHANGED obs
             \/ row # 0 /\ UNCHANGED row /\ Observed(row)
  /\ UNCHANGED <<codex, procs, manager, cont, link, outbox, notices, cmds, history, budget>>

StaleTerminal(turn) ==
  link.state \in {"running", "pending"} /\ link.turn \notin {0, turn}

Claimable(turn) ==
  \/ obs.turn = turn /\ ~obs.over
  \/ obs.turn # turn /\ obs.over

\* ClaimMinimalTerminalTransition: a turn is announced by the one who sees it end.
ClaimTerminal(a) ==
  /\ act[a].pc = "claim"
  /\ IF Cancelled(a) \/ StaleTerminal(act[a].turn) THEN Leave(a) /\ UNCHANGED obs
     ELSE IF Claimable(act[a].turn)
     THEN Goto(a, "enqueue") /\ obs' = [turn |-> act[a].turn, over |-> TRUE]
     ELSE Goto(a, "release") /\ UNCHANGED obs
  /\ UNCHANGED <<codex, procs, manager, cont, link, row, outbox, notices, cmds, history, budget>>

\* EnqueueTerminalEventWithLinkedRelease: event and end of ownership in one transaction.
\* If the link runs and has another turn, or none yet, the transaction is rolled back
\* without an error; an event that exists already changes nothing.
Enqueued(turn) ==
  /\ outbox' = IF link.state = "running" /\ link.turn # turn THEN outbox ELSE outbox \cup {turn}
  /\ link' = IF link.state = "running" /\ link.turn = turn /\ turn \notin outbox
             THEN [link EXCEPT !.state = "pending"] ELSE link

EnqueueTerminal(a) ==
  /\ act[a].pc = "enqueue"
  /\ ~Cancelled(a)
  /\ Enqueued(act[a].turn)
  /\ Goto(a, "release")
  /\ UNCHANGED <<codex, procs, manager, cont, row, obs, notices, cmds, history, budget>>

\* A failed transaction reopens the transition, with the same context: a cancelled one
\* loses it.
EnqueueFails(a) ==
  /\ act[a].pc = "enqueue"
  /\ \/ Cancelled(a) /\ UNCHANGED <<obs, budget>>
     \/ Fault /\ obs' = [obs EXCEPT !.over = FALSE]
  /\ Leave(a)
  /\ UNCHANGED <<codex, procs, manager, cont, link, row, outbox, notices, cmds, history>>

\* releaseMinimalTerminalWorker, when there is nothing to hand back for this turn.
NothingToRelease(a) ==
  /\ act[a].pc = "release"
  /\ link.state # "pending" \/ link.turn # act[a].turn
  /\ Goto(a, IF link.state = "none" THEN "closeany" ELSE "drain")
  /\ UNCHANGED <<codex, procs, manager, store, history, budget>>

Registered(gen) == \E w \in Workers : registry = w /\ procs[w].gen = gen

\* Mutant: an error of the close is only logged.
ReleaseDespiteError(a) ==
  /\ act[a].pc = "release"
  /\ link.state = "pending" /\ link.turn = act[a].turn
  /\ \/ Registered(link.gen) /\ Close(registry, link.gen) /\ Goto(a, "finish") /\ UNCHANGED link
     \/ /\ ~Registered(link.gen)
        /\ FailLink(link.gen) /\ Leave(a)
        /\ UNCHANGED <<codex, procs, manager, budget>>
  /\ UNCHANGED <<cont, row, obs, outbox, notices, cmds, history>>

\* Mutant: the worker is left to end by itself.
ReleaseWithoutClose(a) ==
  /\ act[a].pc = "release"
  /\ link.state = "pending" /\ link.turn = act[a].turn
  /\ registry' = None
  /\ Goto(a, "finish")
  /\ UNCHANGED <<codex, procs, confirmed, lastGen, store, history, budget>>

\* The worker of exactly this generation is closed and its end confirmed, now or earlier.
\* Without confirmation the link fails.
ReleaseLinked(a) ==
  /\ act[a].pc = "release"
  /\ link.state = "pending" /\ link.turn = act[a].turn
  /\ \/ /\ Registered(link.gen)
        /\ Close(registry, link.gen)
        /\ IF procs'[registry].alive THEN FailLink(link.gen) /\ Leave(a)
           ELSE Goto(a, "finish") /\ UNCHANGED link
     \/ /\ ~Registered(link.gen)
        /\ IF confirmed = link.gen THEN Goto(a, "finish") /\ UNCHANGED link
           ELSE FailLink(link.gen) /\ Leave(a)
        /\ UNCHANGED <<codex, procs, manager, budget>>
  /\ UNCHANGED <<cont, row, obs, outbox, notices, cmds, history>>

\* releaseRegisteredMinimalTerminalWorker: no link, so whatever worker has the thread.
\* Its receipt is forgotten at once.
CloseRegistered(a) ==
  /\ act[a].pc = "closeany"
  /\ IF registry = None THEN Goto(a, "drain") /\ UNCHANGED <<codex, procs, manager, budget>>
     ELSE /\ Close(registry, 0)
          /\ IF procs'[registry].alive THEN Leave(a) ELSE Goto(a, "drain")
  /\ UNCHANGED <<store, history>>

FinishRelease(a) ==
  /\ act[a].pc = "finish"
  /\ IF Finishable(act[a].turn) THEN HandBack(act[a].turn) /\ Goto(a, "drain")
     ELSE Leave(a) /\ UNCHANGED <<manager, link, notices>>
  /\ UNCHANGED <<codex, procs, cont, row, obs, outbox, cmds, history, budget>>

FinishFails(a) ==
  /\ act[a].pc = "finish" /\ Fault /\ Leave(a)
  /\ UNCHANGED <<codex, procs, manager, store, history>>

-----------------------------------------------------------------------------
(* The queue of the thread: drainNextLocked.                               *)

Drain(a) ==
  /\ act[a].pc = "drain"
  /\ IF row # 0 THEN Leave(a) ELSE Goto(a, "next")
  /\ UNCHANGED <<codex, procs, manager, store, history, budget>>

Waiting == {i \in DOMAIN cmds : cmds[i].status = "pending"}
Blocked == \E i \in DOMAIN cmds : cmds[i].status = "claimed"

\* ClaimPendingCommand: the oldest one, and only one at a time.
NextCommand(a) ==
  /\ act[a].pc = "next"
  /\ IF Waiting = {} \/ Blocked THEN Leave(a) /\ UNCHANGED cmds
     ELSE LET i == CHOOSE i \in Waiting : \A j \in Waiting : i <= j
          IN  /\ cmds' = [cmds EXCEPT ![i].status = "claimed"]
              /\ act' = [act EXCEPT ![a].cmd = i, ![a].pc = "queued", ![a].failed = FALSE]
              /\ UNCHANGED lock
  /\ UNCHANGED <<codex, procs, manager, cont, link, row, obs, outbox, notices, history, budget>>

\* startQueuedCommand: the thread is free, or it is not yet, or it will never be.
StartQueued(a) ==
  /\ act[a].pc = "queued"
  /\ act' = [act EXCEPT ![a].pc = IF link.state = "ready" THEN "acquire" ELSE "giveback",
                        ![a].failed = link.state = "failed"]
  /\ UNCHANGED <<codex, procs, manager, store, lock, history, budget>>

\* The claimed command that started no turn waits again, or has failed and the next one
\* is tried.  If that cannot be stored it stays claimed.
GiveBack(a) ==
  /\ act[a].pc = "giveback"
  /\ \/ /\ cmds' = [cmds EXCEPT ![act[a].cmd].status =
                      IF act[a].failed THEN "failed" ELSE "pending"]
        /\ IF act[a].failed THEN Goto(a, "next") ELSE Leave(a)
        /\ UNCHANGED budget
     \/ Fault /\ Leave(a) /\ UNCHANGED cmds
  /\ UNCHANGED <<codex, procs, manager, cont, link, row, obs, outbox, notices, history>>

-----------------------------------------------------------------------------
(* A turn of the linked thread, under its lock: startCanonicalLinkedTurn.  *)

\* The owner's message, at the thread it will be a turn of: the fork if there is one
\* (its refresh comes first), else the source, whose fork is claimed next.  One fork is
\* modelled: after a fork that was given up no other message is considered.
Reply ==
  /\ act[Bot].pc = "idle" /\ replies < MaxReplies
  /\ replies' = replies + 1
  /\ \/ link.state # "none" /\ Goto(Bot, "read") /\ UNCHANGED cont
     \/ /\ link.state = "none" /\ turns = <<>>
        /\ IF cont \in {"none", "definite"}
           THEN cont' = "creating" /\ Goto(Bot, "worker")
           ELSE UNCHANGED <<cont, lock, act>>
  /\ UNCHANGED <<codex, procs, manager, link, row, obs, outbox, notices, cmds, started, orphaned, budget>>

EnterReply ==
  /\ act[Bot].pc = "enter" /\ lock = None
  /\ \/ /\ link.state = "running"
        /\ cmds' = Append(cmds, [prompt |-> replies, status |-> "pending"])
        /\ Answered
     \/ /\ link.state \in {"pending", "failed"}
        /\ Answered /\ UNCHANGED cmds
     \/ /\ link.state = "ready"
        /\ act' = [act EXCEPT ![Bot].pc = "acquire"] /\ lock' = Bot
        /\ UNCHANGED cmds
  /\ UNCHANGED <<codex, procs, manager, cont, link, row, obs, outbox, notices, history, budget>>

\* No turn was started and none can have been: release what was acquired, and put the
\* command back.  A worker-less failure has nothing to release.
NotStarted(a) == act' = [act EXCEPT ![a].pc = "abort"] /\ UNCHANGED lock

Acquire(a) ==
  /\ act[a].pc = "acquire"
  /\ registry = None
  /\ Acquired(a, NewWorker, TRUE, "resume")
  /\ UNCHANGED <<store, history, budget>>

AcquireFails(a) ==
  /\ act[a].pc = "acquire"
  /\ IF registry # None THEN UNCHANGED budget ELSE Fault
  /\ NotStarted(a)
  /\ UNCHANGED <<codex, procs, manager, store, history>>

\* thread/resume makes the worker the writer of the thread, unless it has one.
Resume(a) ==
  /\ act[a].pc = "resume"
  /\ writer = None /\ procs[act[a].worker].alive
  /\ writer' = act[a].worker
  /\ Goto(a, "take")
  /\ UNCHANGED <<turns, procs, manager, store, history, budget>>

ResumeFails(a) ==
  /\ act[a].pc = "resume"
  /\ IF writer # None \/ ~procs[act[a].worker].alive THEN UNCHANGED budget ELSE Fault
  /\ NotStarted(a)
  /\ UNCHANGED <<codex, procs, manager, store, history>>

\* ClaimMinimalLinkedWorker.
TakeLink(a) ==
  /\ act[a].pc = "take"
  /\ LET gen == procs[act[a].worker].gen
     IN  IF link.state = "ready" /\ link.gen < gen
         THEN link' = [state |-> "running", gen |-> gen, turn |-> 0] /\ Goto(a, "turn")
         ELSE NotStarted(a) /\ UNCHANGED link
  /\ UNCHANGED <<codex, procs, manager, cont, row, obs, outbox, notices, cmds, history, budget>>

TakeFails(a) ==
  /\ act[a].pc = "take" /\ Fault /\ NotStarted(a)
  /\ UNCHANGED <<codex, procs, manager, store, history>>

Prompt(a) == IF act[a].cmd = 0 THEN replies ELSE cmds[act[a].cmd].prompt

\* turn/start reaches Codex.
TurnStarted(a) ==
  /\ procs[act[a].worker].open /\ procs[act[a].worker].alive
  /\ writer = act[a].worker /\ Len(turns) < MaxTurns
  /\ turns' = Append(turns, "running")
  /\ procs' = [procs EXCEPT ![act[a].worker].worked = TRUE]
  /\ started' = Append(started, Prompt(a))

StartTurn(a) ==
  /\ act[a].pc = "turn"
  /\ TurnStarted(a)
  /\ act' = [act EXCEPT ![a].turn = Len(turns) + 1, ![a].pc = "persist", ![a].failed = FALSE]
  /\ UNCHANGED <<writer, manager, store, lock, replies, orphaned, budget>>

\* No answer to turn/start: Codex may have started the turn or not.  The link fails, and
\* a queued command with it.
StartTurnFails(a) ==
  /\ act[a].pc = "turn"
  /\ \/ Fault /\ TurnStarted(a)
     \/ /\ IF procs[act[a].worker].open /\ procs[act[a].worker].alive THEN Fault
           ELSE UNCHANGED budget
        /\ UNCHANGED <<turns, procs, started>>
  /\ FailLink(procs[act[a].worker].gen)
  /\ act' = [act EXCEPT ![a].pc = "abort", ![a].failed = TRUE]
  /\ UNCHANGED <<writer, manager, cont, row, obs, outbox, notices, cmds, lock, replies, orphaned>>

\* releaseMinimalWorker, deferred until the start has failed.
Abort(a) ==
  /\ act[a].pc = "abort"
  /\ IF act[a].worker = None THEN UNCHANGED <<codex, procs, manager, budget>>
     ELSE ReleaseWorker(act[a].worker)
  /\ IF act[a].cmd = 0 THEN Answered ELSE Goto(a, "giveback")
  /\ UNCHANGED <<store, history>>

\* persistThread and ensureStartedTurnSnapshot.
PersistStart(a) ==
  /\ act[a].pc = "persist"
  /\ \/ /\ row' = act[a].turn
        /\ obs' = [turn |-> act[a].turn, over |-> FALSE]
        /\ Goto(a, "mark")
        /\ UNCHANGED budget
     \/ /\ Fault
        /\ act' = [act EXCEPT ![a].pc = "mark", ![a].failed = TRUE]
        /\ UNCHANGED <<row, obs, lock>>
  /\ UNCHANGED <<codex, procs, manager, cont, link, outbox, notices, cmds, history>>

\* MarkMinimalLinkedTurnStarted: the link learns its turn, if it is still this worker's.
Mark(a) ==
  /\ act[a].pc = "mark"
  /\ LET ok == link.state = "running" /\ link.turn = 0 /\ link.gen = procs[act[a].worker].gen
     IN  \/ /\ link' = IF ok THEN [link EXCEPT !.turn = act[a].turn] ELSE link
            /\ act' = [act EXCEPT ![a].pc = "complete", ![a].failed = @ \/ ~ok]
            /\ UNCHANGED budget
         \/ /\ Fault
            /\ act' = [act EXCEPT ![a].pc = "complete", ![a].failed = TRUE]
            /\ UNCHANGED link
  /\ UNCHANGED <<codex, procs, manager, cont, row, obs, outbox, notices, cmds, lock, history>>

\* Mutant: the command that was started is put back like one that was not.
CompleteReleasing(a) ==
  /\ act[a].pc = "complete"
  /\ IF act[a].cmd = 0 THEN Answered /\ UNCHANGED cmds
     ELSE Leave(a) /\ cmds' = [cmds EXCEPT ![act[a].cmd].status = "pending"]
  /\ UNCHANGED <<codex, procs, manager, cont, link, row, obs, outbox, notices, history, budget>>

\* A started command whose start could not be recorded stays claimed.
Complete(a) ==
  /\ act[a].pc = "complete"
  /\ IF act[a].cmd = 0 THEN Answered /\ UNCHANGED <<cmds, budget>>
     ELSE /\ Leave(a)
          /\ \/ /\ cmds' = IF act[a].failed THEN cmds
                           ELSE [cmds EXCEPT ![act[a].cmd].status = "completed"]
                /\ UNCHANGED budget
             \/ ~act[a].failed /\ Fault /\ UNCHANGED cmds
  /\ UNCHANGED <<codex, procs, manager, cont, link, row, obs, outbox, notices, history>>

-----------------------------------------------------------------------------
(* The fork, without the lock of the thread: createCanonicalLinkedTurn.    *)

AcquireForFork ==
  /\ act[Bot].pc = "worker"
  /\ \/ /\ Acquired(Bot, NewWorker, FALSE, "fork")
        /\ UNCHANGED <<cont, budget>>
     \/ /\ Fault /\ cont' = "ambiguous" /\ Answered
        /\ UNCHANGED <<codex, procs, manager>>
  /\ UNCHANGED <<link, row, obs, outbox, notices, cmds, history>>

\* thread/fork and BindThread.  An event of the worker before it is bound is ignored.
Fork ==
  /\ act[Bot].pc = "fork" /\ procs[act[Bot].worker].alive
  /\ turns' = <<"over">> /\ writer' = act[Bot].worker
  /\ registry' = act[Bot].worker /\ confirmed' = 0
  /\ Goto(Bot, "activate")
  /\ UNCHANGED <<procs, lastGen, store, history, budget>>

ForkFails ==
  /\ act[Bot].pc = "fork"
  /\ IF procs[act[Bot].worker].alive THEN Fault ELSE UNCHANGED budget
  /\ cont' \in {"definite", "ambiguous"}
  /\ NotStarted(Bot)
  /\ UNCHANGED <<codex, procs, manager, link, row, obs, outbox, notices, cmds, history>>

\* ActivateMinimalLinkedThread: link, continuation, thread and binding in one transaction.
Activate ==
  /\ act[Bot].pc = "activate"
  /\ \/ /\ link' = [state |-> "running", gen |-> procs[act[Bot].worker].gen, turn |-> 0]
        /\ cont' = "active" /\ row' = 0
        /\ Goto(Bot, "turn")
        /\ UNCHANGED budget
     \/ /\ Fault /\ cont' = "ambiguous" /\ NotStarted(Bot)
        /\ UNCHANGED <<link, row>>
  /\ UNCHANGED <<codex, procs, manager, obs, outbox, notices, cmds, history>>

-----------------------------------------------------------------------------
(* /repair and restarts.                                                   *)

\* Mutant: any pending release is finished.
CanRepairUnconfirmed == Finishable(link.turn)

\* A pending release whose worker is known to have ended is finished.
CanRepair == Finishable(link.turn) /\ confirmed = link.gen

\* Unknown forks are given up, so that the next reply may fork again.
Repair ==
  /\ act[Bot].pc = "idle"
  /\ cont = "ambiguous" \/ CanRepair
  /\ cont' = IF cont = "ambiguous" THEN "definite" ELSE cont
  /\ IF CanRepair THEN HandBack(link.turn) ELSE UNCHANGED <<link, notices, manager>>
  /\ UNCHANGED <<codex, procs, row, obs, outbox, cmds, lock, act, history, budget>>

\* Mutant: a claimed command is tried again.
RecoveredForRetry ==
  [i \in DOMAIN cmds |->
     IF cmds[i].status = "claimed" THEN [cmds[i] EXCEPT !.status = "pending"] ELSE cmds[i]]

\* RecoverClaimedPendingCommands: a command the dead process had claimed may have been
\* started, so it is not tried again.
RecoveredCommands ==
  [i \in DOMAIN cmds |->
     IF cmds[i].status = "claimed" THEN [cmds[i] EXCEPT !.status = "failed"] ELSE cmds[i]]

\* The daemon dies and starts again.  Its workers die with it or outlive it; the store
\* keeps what was committed and is recovered when it is opened.
Restart ==
  /\ restarts < MaxRestarts /\ restarts' = restarts + 1 /\ UNCHANGED faults
  /\ \E survivors \in SUBSET {w \in Workers : procs[w].alive} :
       /\ procs' = [w \in Workers |->
            [procs[w] EXCEPT !.open = FALSE, !.alive = w \in survivors]]
       /\ writer' = IF writer \in Workers \ survivors THEN None ELSE writer
       /\ turns' = IF writer \in Workers \ survivors THEN Stopped(writer) ELSE turns
  /\ registry' = None /\ confirmed' = 0 /\ lastGen' = 0
  /\ lock' = None /\ act' = [a \in Actors |-> Idle]
  /\ cont' = IF cont = "creating" THEN "ambiguous" ELSE cont
  /\ link' = IF link.state = "running" THEN [link EXCEPT !.state = "pending"] ELSE link
  /\ cmds' = RecoveredCommands
  /\ orphaned' = (orphaned \/ link.state \in {"running", "pending"})
  /\ UNCHANGED <<row, obs, outbox, notices, replies, started>>

-----------------------------------------------------------------------------
Observe(a) ==
  \/ Touch(a) \/ LockTerminal(a) \/ SettleRow(a) \/ ClaimTerminal(a)
  \/ EnqueueTerminal(a) \/ EnqueueFails(a)
  \/ NothingToRelease(a) \/ ReleaseLinked(a) \/ CloseRegistered(a)
  \/ FinishRelease(a) \/ FinishFails(a)

Start(a) ==
  \/ Acquire(a) \/ AcquireFails(a) \/ Resume(a) \/ ResumeFails(a)
  \/ TakeLink(a) \/ TakeFails(a) \/ StartTurn(a) \/ StartTurnFails(a)
  \/ PersistStart(a) \/ Mark(a) \/ Complete(a) \/ Abort(a)

Queue(a) == Drain(a) \/ NextCommand(a) \/ StartQueued(a) \/ GiveBack(a)

Steps(a) == Observe(a) \/ Queue(a) \/ Start(a)

\* The goroutines that are doing something: an idle one has no step.
Busy == {a \in Actors : act[a].pc # "idle"}

Codex == Progress \/ OpenDesktop \/ CloseDesktop \/ DesktopTurn \/ \E w \in Workers : ProcessDies(w)

Create == AcquireForFork \/ Fork \/ ForkFails \/ Activate

Next ==
  \/ Codex
  \/ Reply \/ BotRead \/ BotReadFails \/ EnterReply \/ Create \/ Repair \/ Restart
  \/ PollRead \/ \E w \in Workers : WorkerEvent(w)
  \/ \E a \in Busy : Steps(a)

Spec == Init /\ [][Next]_vars

\* Every call has a deadline and the poll loop ticks; a goroutine waiting for the lock of
\* the thread gets it; a turn of Codex ends.
FairSpec ==
  /\ Spec
  /\ WF_vars(Progress) /\ WF_vars(PollRead) /\ WF_vars(BotRead) /\ WF_vars(Create)
  /\ SF_vars(EnterReply)
  /\ \A a \in Actors : WF_vars(Steps(a)) /\ SF_vars(LockTerminal(a))

-----------------------------------------------------------------------------
(* Properties.                                                             *)

H == INSTANCE Handoff WITH phase <- link.state, turn <- link.turn

\* The tables implement the promise of ADR-020 whatever the goroutines, the Desktop, the
\* failures and the restarts do: the result of the turn is stored in the transaction that
\* ends the ownership (EnqueueTerminalEventWithLinkedRelease), the notice in the one that
\* hands back (FinishMinimalLinkedReleaseWithReadyDelivery), and a thread orphaned by a
\* restart is never handed back.
ImplementsHandoff == H!Spec

\* No reply of the owner becomes two turns: not when turn/start is not answered, when
\* its outcome cannot be stored, when the claimed command is released and drained by
\* another goroutine (drainNextLocked), or when the daemon dies with it.
StartedOnce == \A i, j \in DOMAIN started : started[i] = started[j] => i = j

\* What pending_commands says of a command is true of Codex: a waiting one has no turn, a
\* completed one has.  (A failed or a claimed one may have one: its answer was lost.)
QueueIsHonest ==
  \A i \in DOMAIN cmds :
    LET ran == \E k \in DOMAIN started : started[k] = cmds[i].prompt
    IN  /\ cmds[i].status = "pending" => ~ran
        /\ cmds[i].status = "completed" => ran

\* The link and the queue are well typed, and the queue tells the truth about Codex.
QueueInv == TypeOK /\ QueueIsHonest

\* "ready" means that the bridge has released its writer (releaseMinimalTerminalWorker):
\* no process that ran a turn of the thread is left.
ReadyIsReleased ==
  link.state = "ready" => \A w \in Workers : procs[w].worked => ~procs[w].alive

\* The owner is told to go on at the PC only about a turn that is really over, also if it
\* counted as over since its final answer (normalizeFinalizedTurn) and was cut off.
NoticeAfterEnd == \A t \in notices : t \in outbox /\ turns[t] = "over"

Finished == link.state = "running" /\ link.turn \in DOMAIN turns /\ turns[link.turn] = "over"

\* ADR-020: a worker "starts one turn ... and closes after terminal persistence and outbox
\* enqueueing", so the ownership of a finished turn ends.
OwnershipEnds == Finished ~> link.state # "running"
=============================================================================
