---------------------------- MODULE TelegramTurn ----------------------------
(***************************************************************************)
(* The legacy profile's way of putting a Telegram text into a Codex thread,*)
(* of stopping a turn, and the terminal gate: a turn that was started or   *)
(* steered from Telegram and that a read reports as interrupted is taken   *)
(* for interrupted only after Stop or after a grace period, because Codex  *)
(* also reports turns that still run that way for a while.                 *)
(*                                                                         *)
(* One thread and one chat.  The bot handles one update after the other.   *)
(* The poll loop (the event loop and the hot poll that follows a Telegram  *)
(* text do the same) takes the row in one step, reads the thread in the    *)
(* next, and passes the gate and stores what it has read in a third one;   *)
(* every refresh that the bot makes itself has the last two steps.  What   *)
(* is judged and stored may be old.  Turns that wait for an approval or an *)
(* answer are left out, and calls to the database succeed.                 *)
(***************************************************************************)
EXTENDS Naturals, Sequences, FiniteSets

CONSTANTS
  Poll, Bot,  \* the goroutines
  MaxTurns,   \* bound: turns of the thread
  MaxTexts,   \* bound: Telegram texts
  MaxEvents   \* bound: texts, presses of Stop and of Steer, failed or late calls and deaths
              \* of the daemon, together

ASSUME BoundsAssumption ==
  /\ MaxTurns \in Nat \ {0} /\ MaxTexts \in Nat /\ MaxEvents \in Nat
  /\ Poll # Bot

VARIABLES
  turns,     \* Codex: the state of each turn
  plan,      \* Codex: the thread is in Plan mode
  heard,     \* Codex: how often each text has arrived
  row,       \* threads: status and ActiveTurnID
  snap,      \* thread_snapshots: LastSeenTurnID and LastSeenTurnStatus
  origin,    \* turns marked turn_origin.telegram
  explicit,  \* turns marked as interrupted by Stop
  deferred,  \* the gate's state of each turn
  steer,     \* chat_steer_state: the turn the next text is meant for, or 0
  override,  \* the next turn starts in Default mode
  act,       \* what each goroutine is doing
  texts, presses, faults,
  settled,   \* history: turns found interrupted before they were marked, or whose grace ran out
  parallel,  \* history: texts that started a turn although they had found one running
  ranOut,    \* history: texts for which a turn/steer was not answered in time
  wish       \* history: what became of the wish of Stop to leave Plan mode

codex == <<turns, plan, heard>>
store == <<row, snap, origin, explicit, deferred, steer, override>>
history == <<settled, parallel, ranOut, wish>>
vars == <<codex, store, act, texts, presses, faults, history>>

Actors == {Poll, Bot}
TurnIds == 1 .. MaxTurns
Texts == 1 .. MaxTexts
Latest == Len(turns)

\* answered: the final answer is there and the status is still inProgress; drift: it runs
\* and is read as interrupted; stopped: it is interrupted.
TurnStates == {"running", "answered", "drift", "completed", "stopped"}
Works(t) == t \in DOMAIN turns /\ turns[t] \in {"running", "drift"}
Over(t) == t \in DOMAIN turns /\ turns[t] \in {"completed", "stopped"}

Statuses == {"none", "inProgress", "interrupted", "completed"}
Views == [turn : 0 .. MaxTurns, status : Statuses]
Rows == [status : {"idle", "active", "completed"}, active : 0 .. MaxTurns]
NoView == [turn |-> 0, status |-> "none"]
NoRow == [status |-> "idle", active |-> 0]

\* What a goroutine carries: the read it is about to judge and to store, where it goes on,
\* and, for a text, its number, the turn it replies to, the thread as the handler knows it,
\* the last steer error, whether its time has run out, the turn it has found running, and
\* the turn that took it.
Idle == [pc |-> "idle", view |-> NoView, then |-> "idle",
         text |-> 0, route |-> 0, known |-> NoRow, err |-> "none",
         late |-> FALSE, found |-> 0, turn |-> 0]

Steps == {"idle", "load", "gate", "attempt", "armed", "route", "active", "retry",
          "start", "mark", "seed", "interrupt", "explicit", "refresh"}

Errors == {"none", "mismatch", "noActive", "busy", "timeout"}
Handlers == [pc : Steps, view : Views, then : Steps, text : 0 .. MaxTexts,
             route : 0 .. MaxTurns, known : Rows, err : Errors,
             late : BOOLEAN, found : 0 .. MaxTurns, turn : 0 .. MaxTurns]

CodexOK ==
  /\ turns \in Seq(TurnStates) /\ Len(turns) <= MaxTurns
  /\ plan \in BOOLEAN
  /\ heard \in [Texts -> 0 .. 3]

StoreOK ==
  /\ row \in Rows /\ snap \in Views
  /\ origin \subseteq TurnIds /\ explicit \subseteq TurnIds
  /\ deferred \in [TurnIds -> {"none", "waiting", "expired"}]
  /\ steer \in 0 .. MaxTurns /\ override \in BOOLEAN

ActsOK == act \in [Actors -> Handlers]

CountersOK ==
  /\ texts \in 0 .. MaxTexts /\ presses \in 0 .. MaxEvents /\ faults \in 0 .. MaxEvents

HistoryOK ==
  /\ settled \subseteq TurnIds /\ parallel \subseteq Texts /\ ranOut \subseteq Texts
  /\ wish \in {"none", "stopped", "restarted"}

TypeOK == CodexOK /\ StoreOK /\ ActsOK /\ CountersOK /\ HistoryOK

Init ==
  /\ turns = <<>> /\ plan = TRUE /\ heard = [k \in Texts |-> 0]
  /\ row = NoRow /\ snap = NoView
  /\ origin = {} /\ explicit = {} /\ deferred = [t \in TurnIds |-> "none"]
  /\ steer = 0 /\ override = FALSE
  /\ act = [p \in Actors |-> Idle]
  /\ texts = 0 /\ presses = 0 /\ faults = 0
  /\ settled = {} /\ parallel = {} /\ ranOut = {} /\ wish = "none"

Goes(p, a) == act' = [act EXCEPT ![p] = a]
\* n events of the same step are counted elsewhere.
Fault(n) == texts + presses + faults + n < MaxEvents /\ faults' = faults + 1

-----------------------------------------------------------------------------
(* Codex.                                                                   *)

TurnBecomes(from, to) ==
  /\ turns # <<>> /\ turns[Latest] \in from
  /\ turns' = [turns EXCEPT ![Latest] = to]
  /\ UNCHANGED <<plan, heard, store, act, texts, presses, faults, history>>

StartAtPC ==
  /\ Latest < MaxTurns /\ (Latest > 0 => Over(Latest))
  /\ turns' = Append(turns, "running")
  /\ UNCHANGED <<plan, heard, store, act, texts, presses, faults, history>>

Answers == TurnBecomes({"running"}, "answered")
Completes == TurnBecomes({"running", "answered", "drift"}, "completed")
Recovers == TurnBecomes({"drift"}, "running")
IsInterrupted == TurnBecomes({"running", "drift"}, "stopped")

\* Only turns in the daemon's own App Server are seen to drift.
Drifts == Latest \in origin /\ TurnBecomes({"running"}, "drift")

Codex == StartAtPC \/ Answers \/ Completes \/ Recovers \/ IsInterrupted \/ Drifts

-----------------------------------------------------------------------------
(* The attempts to hand over a text, and which of them comes next.  "idle"  *)
(* is the answer that the thread is active and no parallel turn was started. *)

threadLooksActiveForPolling(r) == r.active # 0 \/ r.status = "active"

isTerminalStatus(status) == status \in {"completed", "interrupted"}

NoGuard(a) == IF a.err = "noActive" THEN "refresh" ELSE "start"

AfterSteer(a) ==
  IF a.err = "noActive" THEN "refresh"
  ELSE IF threadLooksActiveForPolling(a.known) \/ a.err \in {"busy", "mismatch"} THEN "idle"
  ELSE "start"

AfterRoute(a) == IF a.err = "mismatch" THEN "retry" ELSE AfterSteer(a)

AfterArmed(a) ==
  IF a.route # 0 THEN "route"
  ELSE IF a.known.active # 0 THEN "active"
  ELSE AfterRoute(a)

FirstAttempt(a) == IF steer # 0 THEN "armed" ELSE AfterArmed(a)

\* What a goroutine keeps for its next step.
At(a, pc) ==
  CASE pc = "idle" -> Idle
    [] pc \in {"mark", "seed"} -> [Idle EXCEPT !.pc = pc, !.turn = a.turn]
    [] pc = "start" -> [Idle EXCEPT !.pc = pc, !.text = a.text,
                                    !.late = a.late, !.found = a.found]
    [] OTHER -> [a EXCEPT !.pc = pc, !.then = "idle", !.view = NoView]

GoesOn(a, pc) == Goes(Bot, At(a, pc))

\* p goes on after a refresh.
Proceeds(p, a) == Goes(p, At(a, IF a.then = "attempt" THEN FirstAttempt(a) ELSE a.then))

-----------------------------------------------------------------------------
(* Reading and storing.                                                     *)

\* The turn's status: a final answer is the end of the turn.
SnapshotFromThreadRead ==
  [turn |-> Latest,
   status |-> IF turns = <<>> THEN "none"
              ELSE CASE turns[Latest] = "running" -> "inProgress"
                     [] turns[Latest] \in {"drift", "stopped"} -> "interrupted"
                     [] OTHER -> "completed"]

\* The thread's status is active while the turn runs, and idle otherwise: it says completed
\* only where a final answer was found in an active thread.
ThreadFromPayload ==
  IF turns = <<>> THEN NoRow
  ELSE [status |-> CASE turns[Latest] = "running" -> "active"
                     [] turns[Latest] = "answered" -> "completed"
                     [] OTHER -> "idle",
        active |-> IF turns[Latest] = "running" THEN Latest ELSE 0]

mergeThreadMetadata(read, base) ==
  [read EXCEPT !.active = IF read.active = 0 /\ read.status # "completed"
                          THEN base.active ELSE read.active]

\* a with a fresh read over the row base, to be judged and stored before it goes on with then.
ReadOver(base, a, then) ==
  [a EXCEPT !.pc = "gate", !.then = then, !.view = SnapshotFromThreadRead,
            !.known = mergeThreadMetadata(ThreadFromPayload, base)]

Refreshing(a, then) == ReadOver(row, a, then)

\* A thread is polled while its row or its panel says that it runs, and when it has changed.
trackedThreads ==
  \/ threadLooksActiveForPolling(row)
  \/ snap.status = "inProgress"
  \/ snap # SnapshotFromThreadRead

\* The poll loop takes its row from the list, and the read follows.
pollTracked ==
  /\ \/ /\ act[Poll] = Idle /\ turns # <<>> /\ trackedThreads
        /\ Goes(Poll, [Idle EXCEPT !.pc = "load", !.known = row])
     \/ /\ act[Poll].pc = "load"
        /\ Goes(Poll, ReadOver(act[Poll].known, Idle, "idle"))
  /\ UNCHANGED <<codex, store, texts, presses, faults, history>>

\* The grace of a deferred interruption runs out.
GraceExpires(t) ==
  /\ deferred[t] = "waiting"
  /\ deferred' = [deferred EXCEPT ![t] = "expired"]
  /\ settled' = settled \cup {t}
  /\ UNCHANGED <<codex, row, snap, origin, explicit, steer, override, act,
                 texts, presses, faults, parallel, ranOut, wish>>

isDeferrableInterruptedSnapshot(v) == v.turn # 0 /\ v.status = "interrupted"

DeferAgainEachTime(v) ==
  isDeferrableInterruptedSnapshot(v) /\ v.turn \in origin \ explicit

DeferOnce(v) ==
  /\ isDeferrableInterruptedSnapshot(v) /\ v.turn \in origin \ explicit
  /\ deferred[v.turn] = "none"

\* The decision is to defer.
decideTelegramOriginEmptyInterruptedTerminal(v) ==
  /\ isDeferrableInterruptedSnapshot(v)
  /\ v.turn \in origin \ explicit
  /\ deferred[v.turn] # "expired"

\* The state that the decision leaves behind.
DeferStateAfter(v) ==
  IF v.turn = 0 THEN deferred
  ELSE [deferred EXCEPT ![v.turn] =
          IF decideTelegramOriginEmptyInterruptedTerminal(v) THEN "waiting"
          ELSE IF isDeferrableInterruptedSnapshot(v) /\ v.turn \notin explicit THEN @ ELSE "none"]

\* What the gate defers is dropped, and the handler goes on with the stored row; what it
\* accepts is stored.
refreshThreadForOperation(p) ==
  LET a == act[p]
      skip == decideTelegramOriginEmptyInterruptedTerminal(a.view)
  IN  /\ a.pc = "gate"
      /\ deferred' = DeferStateAfter(a.view)
      /\ row' = IF skip THEN row ELSE a.known
      /\ snap' = IF skip THEN snap ELSE a.view
      /\ Proceeds(p, IF skip THEN [a EXCEPT !.known = row] ELSE a)
      /\ settled' = IF isDeferrableInterruptedSnapshot(a.view) /\ a.view.turn \notin origin
                    THEN settled \cup {a.view.turn} ELSE settled
      /\ UNCHANGED <<codex, origin, explicit, steer, override,
                     texts, presses, faults, parallel, ranOut, wish>>

\* A tool event of the live session, possibly one that arrives late.
applyLiveToolSnapshot(t) ==
  /\ t \in DOMAIN turns
  /\ snap.turn \in {0, t} \/ (isTerminalStatus(snap.status) /\ t > snap.turn)
  /\ ~(snap.turn = t /\ snap.status = "completed")
  /\ snap' = [turn |-> t, status |-> "inProgress"]
  /\ row' = [status |-> "active", active |-> t]
  /\ UNCHANGED <<codex, origin, explicit, deferred, steer, override, act,
                 texts, presses, faults, history>>

Observe ==
  \/ pollTracked
  \/ \E t \in TurnIds : GraceExpires(t) \/ applyLiveToolSnapshot(t)
  \/ \E p \in Actors : refreshThreadForOperation(p)

-----------------------------------------------------------------------------
(* A Telegram text that asks for no mode of its own.  route is the turn of  *)
(* the message it replies to, or 0.                                         *)

sendInputToThreadTurn(route) ==
  /\ act[Bot] = Idle /\ texts < MaxTexts
  /\ texts' = texts + 1 /\ texts + presses + faults < MaxEvents
  /\ LET a == [Idle EXCEPT !.text = texts + 1, !.route = route, !.known = row]
     IN  \/ /\ Goes(Bot, Refreshing([a EXCEPT !.found = ThreadFromPayload.active], "attempt"))
            /\ UNCHANGED faults
         \/ \* thread/resume works and thread/read fails: the handler keeps the stored row
            GoesOn(a, FirstAttempt(a)) /\ Fault(1)
         \/ \* thread/resume fails and the user is told
            UNCHANGED act /\ Fault(1)
  /\ UNCHANGED <<codex, store, presses, history>>

Arrives(k) == heard' = [heard EXCEPT ![k] = @ + 1]

DeliveredAndStart(a) == GoesOn(a, "start")

\* The turn has taken the text: no further attempt is made.
Delivered(a) == GoesOn(a, "mark")

\* turn/steer.  The request is written to the App Server even when the time of the handler
\* has run out; the answer does not come back then.
TurnSteer(target, rung) ==
  LET a == act[Bot]
      b == IF rung = "retry" THEN [a EXCEPT !.known = [status |-> "active", active |-> target]]
           ELSE a
      Fails(err) ==
        LET c == [b EXCEPT !.err = err]
        IN  GoesOn(c, CASE rung = "armed" -> AfterArmed(c)
                        [] rung = "retry" -> AfterSteer(c)
                        [] OTHER -> AfterRoute(c))
      taken == target = Latest /\ (Works(target) \/ turns[target] = "answered")
  IN  /\ a.pc = rung
      /\ \/ /\ ~a.late /\ UNCHANGED <<faults, ranOut>>
            /\ \/ /\ taken /\ Arrives(a.text)
                  /\ Delivered([a EXCEPT !.turn = target])
                  /\ steer' = IF rung = "armed" THEN 0 ELSE steer
               \/ /\ UNCHANGED <<heard, steer>>
                  /\ \/ taken /\ Works(target) /\ Fails("busy")
                     \/ Works(Latest) /\ target # Latest /\ Fails("mismatch")
                     \/ ~Works(Latest) /\ Fails("noActive")
         \/ /\ IF a.late THEN UNCHANGED faults ELSE Fault(0)
            /\ ranOut' = ranOut \cup {a.text}
            /\ (taken /\ Arrives(a.text)) \/ UNCHANGED heard
            /\ LET c == [b EXCEPT !.err = "timeout", !.late = TRUE]
               IN  GoesOn(c, CASE rung = "armed" -> AfterArmed(c)
                               [] OTHER -> AfterSteer(c))
            /\ UNCHANGED steer
  /\ UNCHANGED <<turns, plan, row, snap, origin, explicit, deferred, override,
                 texts, presses, settled, parallel, wish>>

Steers ==
  \/ TurnSteer(steer, "armed") \/ TurnSteer(act[Bot].route, "route")
  \/ TurnSteer(act[Bot].known.active, "active")
  \/ TurnSteer(Latest, "retry")

\* Codex has no active turn: the thread is read once more, and a turn is started whatever
\* the read says.
RefreshAfterNoActive ==
  /\ act[Bot].pc = "refresh"
  /\ \/ Goes(Bot, Refreshing(act[Bot], "start")) /\ UNCHANGED faults
     \/ GoesOn(act[Bot], "start") /\ Fault(0)
  /\ UNCHANGED <<codex, store, texts, presses, history>>

\* turn/start reached Codex.
TurnStart(a) ==
  /\ Latest < MaxTurns
  /\ turns' = Append(turns, "running")
  /\ plan' = (plan /\ ~override)
  /\ Arrives(a.text)
  /\ parallel' = IF a.found # 0 /\ Works(a.found) /\ ~a.late THEN parallel \cup {a.text}
                 ELSE parallel

StartTurn ==
  LET a == act[Bot]
  IN  /\ a.pc = "start"
      /\ \/ /\ ~a.late /\ TurnStart(a)
            /\ override' = FALSE
            /\ steer' = 0 /\ wish' = IF wish = "stopped" THEN "restarted" ELSE wish
            /\ GoesOn([a EXCEPT !.turn = Latest + 1], "mark")
            /\ UNCHANGED faults
         \/ \* an error, or no answer in time: the user is told, nothing is stored
            /\ TurnStart(a) \/ UNCHANGED <<turns, plan, heard, parallel>>
            /\ IF a.late THEN UNCHANGED faults ELSE Fault(0)
            /\ Goes(Bot, Idle)
            /\ UNCHANGED <<override, steer, wish>>
      /\ UNCHANGED <<row, snap, origin, explicit, deferred, texts, presses, settled, ranOut>>

markTelegramOriginTurn ==
  /\ act[Bot].pc = "mark"
  /\ origin' = origin \cup {act[Bot].turn}
  /\ \/ Goes(Bot, Refreshing(act[Bot], "seed")) /\ UNCHANGED faults
     \/ Goes(Bot, [act[Bot] EXCEPT !.pc = "seed"]) /\ Fault(0)
  /\ UNCHANGED <<codex, row, snap, explicit, deferred, steer, override,
                 texts, presses, history>>

\* The panel is synced here (ThreadPanel).
ensureStartedTurnSnapshot ==
  LET t == act[Bot].turn
  IN  /\ act[Bot].pc = "seed"
      /\ IF snap.turn = t THEN UNCHANGED <<row, snap>>
         ELSE /\ snap' = [turn |-> t, status |-> "inProgress"]
              /\ row' = [status |-> "active", active |-> t]
      /\ Goes(Bot, Idle)
      /\ UNCHANGED <<codex, origin, explicit, deferred, steer, override,
                     texts, presses, faults, history>>

\* The Steer button of a panel, for the turn it was made for; ten minutes later it is void.
armSteer(t) ==
  /\ act[Bot] = Idle /\ texts + presses + faults < MaxEvents /\ t \in DOMAIN turns /\ steer # t
  /\ presses' = presses + 1
  /\ steer' = t
  /\ UNCHANGED <<codex, row, snap, origin, explicit, deferred, override, act,
                 texts, faults, history>>

resolveArmedSteer ==
  /\ act[Bot] = Idle /\ steer # 0
  /\ steer' = 0
  /\ UNCHANGED <<codex, row, snap, origin, explicit, deferred, override, act,
                 texts, presses, faults, history>>

-----------------------------------------------------------------------------
(* Stop.                                                                    *)

OverrideIfRunning == override' = (override \/ threadLooksActiveForPolling(row))

setDefaultOverride == override' = TRUE

stopThread ==
  /\ act[Bot] = Idle /\ texts + presses + faults < MaxEvents /\ turns # <<>>
  /\ presses' = presses + 1
  /\ setDefaultOverride /\ wish' = "stopped"
  /\ LET a == [Idle EXCEPT !.known = row]
     IN  \/ Goes(Bot, Refreshing(a, "interrupt")) /\ UNCHANGED faults
         \/ Goes(Bot, [a EXCEPT !.pc = "interrupt"]) /\ Fault(1)
  /\ UNCHANGED <<codex, row, snap, origin, explicit, deferred, steer, texts,
                 settled, parallel, ranOut>>

interruptTurn ==
  LET a == act[Bot]
      t == IF isTerminalStatus(snap.status) \/ a.known.status = "completed" THEN 0
           ELSE a.known.active
      Hit == IF t = Latest /\ (Works(t) \/ turns[t] = "answered")
             THEN turns' = [turns EXCEPT ![t] = "stopped"] ELSE UNCHANGED turns
  IN  /\ a.pc = "interrupt"
      /\ \/ t = 0 /\ Goes(Bot, Idle) /\ UNCHANGED <<turns, faults>>
         \/ /\ t # 0 /\ Hit /\ UNCHANGED faults
            /\ Goes(Bot, [a EXCEPT !.pc = "explicit", !.turn = t])
         \/ t # 0 /\ (Hit \/ UNCHANGED turns) /\ Fault(0) /\ Goes(Bot, Idle)
      /\ UNCHANGED <<plan, heard, store, texts, presses, history>>

markTelegramOriginExplicitInterrupt ==
  /\ act[Bot].pc = "explicit"
  /\ explicit' = explicit \cup {act[Bot].turn}
  /\ Goes(Bot, Idle)
  /\ UNCHANGED <<codex, row, snap, origin, deferred, steer, override,
                 texts, presses, faults, history>>

\* The daemon's App Server dies with it, and the turn that runs there.
Dies ==
  /\ Fault(0)
  /\ act' = [p \in Actors |-> Idle]
  /\ turns' = IF Latest \in origin /\ ~Over(Latest)
              THEN [turns EXCEPT ![Latest] = "stopped"] ELSE turns
  /\ UNCHANGED <<plan, heard, store, texts, presses, history>>

-----------------------------------------------------------------------------

BotStep ==
  \/ \E route \in 0 .. Latest : sendInputToThreadTurn(route)
  \/ Steers \/ RefreshAfterNoActive \/ StartTurn
  \/ markTelegramOriginTurn \/ ensureStartedTurnSnapshot
  \/ \E t \in TurnIds : armSteer(t)
  \/ resolveArmedSteer
  \/ stopThread \/ interruptTurn \/ markTelegramOriginExplicitInterrupt

Next == Codex \/ Observe \/ BotStep \/ Dies

\* The loops run on timers, and the grace is measured by the clock.
Spec == /\ Init /\ [][Next]_vars
        /\ WF_vars(pollTracked)
        /\ WF_vars(refreshThreadForOperation(Poll))
        /\ \A t \in TurnIds : WF_vars(GraceExpires(t))

-----------------------------------------------------------------------------

\* ADR-012 "Transient Interrupted Contract": a turn started or steered from Telegram is
\* stored as interrupted only after Stop or after the grace period, or when it was found
\* interrupted before it was marked; whichever of the readers stores what it has read.
GateHolds ==
  (snap.status = "interrupted" /\ snap.turn \in origin)
  => snap.turn \in explicit \cup settled

\* Row, snapshot and marks are well typed, and no unexplained interruption is stored.
GateInv == TypeOK /\ GateHolds

\* Of the ladder of attempts, armed turn, replied-to turn, active turn, the turn Codex names,
\* a new turn, one takes the text: it arrives twice only when a turn/steer of the same text
\* was not answered in time, whatever else has failed.
\* (service.go:2561: the attempts after that are still written to the App Server.)
TextArrivesOnce ==
  \A k \in Texts : heard[k] > 1 => k \in ranOut

\* ADR-012: a text that finds a turn running starts no other turn next to it.
NoParallelTurn == parallel = {}

\* After Stop the next turn that Telegram starts is not in Plan mode, though texts may have
\* been steered into other turns and attempts to start one may have failed in between.
StopLeavesPlanMode == wish = "restarted" => ~plan

\* A turn that has been stopped is not shown as running for ever: its interruption is
\* stored although every read of it is deferred at first.
StopIsShown ==
  \A t \in TurnIds :
    (t = Latest /\ turns[t] = "stopped" /\ row.active = t)
    ~> (snap = [turn |-> t, status |-> "interrupted"] \/ Latest > t)

=============================================================================
