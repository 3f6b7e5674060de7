------------------------- MODULE TelegramTurnProofs -------------------------
(***************************************************************************)
(* Safety of the Telegram turn of the legacy profile, for every number of  *)
(* turns, texts, presses, failed calls and restarts.                       *)
(***************************************************************************)
EXTENDS TelegramTurn, TLAPS

-----------------------------------------------------------------------------
(***************************************************************************)
(* The inductive invariant.                                                *)
(***************************************************************************)

\* Every stored interruption is explained, also that of a turn that is not marked yet and
\* may still be; a grace that has run out is remembered.
InterruptionExplained ==
  /\ snap.status = "interrupted" => snap.turn \in explicit \cup settled
  /\ \A t \in TurnIds : deferred[t] = "expired" => t \in settled

\* What a handler is about: the step it takes, or goes on with after a refresh.
Where(a) == IF a.pc = "gate" THEN a.then ELSE a.pc

Attempts == {"armed", "route", "active", "retry"}
Handling == {"attempt", "refresh", "start"} \cup Attempts

\* A read that says interrupted names its turn.
ReadNamesTurn(a) == a.view.status = "interrupted" => a.view.turn # 0

\* The poll loop only reads and stores.
PollOnlyReads ==
  /\ act[Poll].pc \in {"idle", "load", "gate"}
  /\ act[Poll].pc = "gate" => act[Poll].then = "idle"

\* The bot goes on with one of four steps after a refresh.
BotGoesOn ==
  /\ act[Bot].pc = "gate" => act[Bot].then \in {"attempt", "start", "seed", "interrupt"}
  /\ act[Bot].pc \notin {"load", "attempt"}

\* Each attempt to steer has a turn it is meant for.
AttemptHasTarget(a) ==
  /\ a.pc = "armed" => steer # 0
  /\ a.pc = "route" => a.route # 0
  /\ a.pc = "active" => a.known.active # 0
  /\ a.pc = "retry" => turns # <<>>

\* A turn that is to be marked exists.
MarksTurn(a) == a.pc \in {"mark", "explicit"} => a.turn # 0

\* A text has not arrived before an attempt at it went unanswered, and each attempt adds one
\* arrival at most.
TextFits(a) ==
  Where(a) \in Handling =>
    /\ a.text \in 1 .. texts
    /\ a.late => a.text \in ranOut
    /\ ~a.late => heard[a.text] = 0
    /\ Where(a) \in {"attempt", "armed"} => ~a.late
    /\ Where(a) = "attempt" => a.err = "none"
    /\ Where(a) \in {"route", "active", "retry"} => heard[a.text] <= 1
    /\ heard[a.text] <= 2

\* Nothing has arrived of a text that was not sent yet, and a text that arrived twice was
\* late.
ArrivalsFit ==
  \A k \in Texts : (k > texts => heard[k] = 0) /\ (heard[k] > 1 => k \in ranOut)

\* The turn that a text has found running is the latest one, or does not work any more; as
\* long as it may, the handler knows of an active turn, and does not start another one.
FoundFits(a) ==
  Where(a) \in Handling /\ a.found # 0 /\ ~a.late =>
    /\ a.found \in DOMAIN turns
    /\ a.found = Latest \/ ~Works(a.found)
    /\ Where(a) \in Attempts \cup {"attempt"} => a.known.active # 0
    /\ Where(a) = "attempt" => a.view.status = "inProgress"
    /\ Where(a) \in {"refresh", "start"} => ~Works(a.found)

\* Until a turn is started after Stop, it will be started in Default mode.
StopIsRemembered ==
  /\ wish = "stopped" => override \/ ~plan
  /\ wish = "restarted" => ~plan

HandlerInv(a) ==
  ReadNamesTurn(a) /\ AttemptHasTarget(a) /\ MarksTurn(a) /\ TextFits(a) /\ FoundFits(a)

HandlersInv ==
  /\ PollOnlyReads /\ ReadNamesTurn(act[Poll])
  /\ BotGoesOn /\ HandlerInv(act[Bot])

IInv ==
  /\ TypeOK /\ InterruptionExplained /\ HandlersInv /\ ArrivalsFit
  /\ StopIsRemembered /\ NoParallelTurn

-----------------------------------------------------------------------------
(***************************************************************************)
(* Handlers and what they carry.                                           *)
(***************************************************************************)

\* The fields of a handler.
LEMMA HandlerFields ==
  ASSUME NEW a \in Handlers
  PROVE  /\ a.pc \in Steps /\ a.then \in Steps /\ a.view \in Views /\ a.known \in Rows
         /\ a.text \in 0 .. MaxTexts /\ a.route \in 0 .. MaxTurns /\ a.err \in Errors
         /\ a.late \in BOOLEAN /\ a.found \in 0 .. MaxTurns /\ a.turn \in 0 .. MaxTurns
BY DEF Handlers

\* Zero stands for no turn and no text.
LEMMA ZeroTyped ==
  /\ 0 \in 0 .. MaxTurns /\ 0 \in 0 .. MaxTexts
  /\ NoView \in Views /\ NoRow \in Rows
BY BoundsAssumption DEF NoView, Views, Statuses, NoRow, Rows

\* An idle goroutine carries nothing.
LEMMA IdleTyped ==
  /\ Idle \in Handlers /\ Idle.pc = "idle" /\ Idle.view = NoView /\ Idle.known = NoRow
  /\ Idle.text = 0 /\ Idle.route = 0 /\ Idle.late = FALSE /\ Idle.found = 0 /\ Idle.turn = 0
  /\ Idle.then = "idle" /\ Idle.err = "none"
BY ZeroTyped DEF Idle, Handlers, Steps, Errors

\* What a handler keeps when it goes on at pc.
LEMMA AtForms ==
  ASSUME NEW a \in Handlers, NEW pc \in Steps
  PROVE  /\ At(a, pc) \in Handlers
         /\ At(a, pc).pc = pc /\ At(a, pc).view = NoView
         /\ pc # "idle" => /\ pc \in {"mark", "seed"} => At(a, pc).turn = a.turn
                           /\ pc \notin {"mark", "seed"} =>
                                /\ At(a, pc).text = a.text /\ At(a, pc).late = a.late
                                /\ At(a, pc).found = a.found
         /\ pc \notin {"idle", "mark", "seed", "start"} =>
              /\ At(a, pc).route = a.route /\ At(a, pc).known = a.known
              /\ At(a, pc).turn = a.turn
<1>1. CASE pc = "idle"
  BY <1>1, IdleTyped DEF At
<1>2. CASE pc \in {"mark", "seed"}
  <2>1. At(a, pc) = [Idle EXCEPT !.pc = pc, !.turn = a.turn]
    BY <1>2 DEF At
  <2>2. QED
    BY <1>2, <2>1, IdleTyped DEF Handlers
<1>3. CASE pc = "start"
  <2>1. At(a, pc) = [Idle EXCEPT !.pc = pc, !.text = a.text, !.late = a.late, !.found = a.found]
    BY <1>3 DEF At
  <2>2. QED
    BY <1>3, <2>1, IdleTyped DEF Handlers
<1>4. CASE pc \notin {"idle", "mark", "seed", "start"}
  <2>1. At(a, pc) = [a EXCEPT !.pc = pc, !.then = "idle", !.view = NoView]
    BY <1>4 DEF At
  <2>2. NoView \in Views /\ "idle" \in Steps
    BY ZeroTyped DEF Steps
  <2>3. QED
    BY <1>4, <2>1, <2>2 DEF Handlers
<1>5. QED
  BY <1>1, <1>2, <1>3, <1>4

\* A read of the thread is well typed, names its turn, and an active turn runs.
LEMMA ReadForms ==
  ASSUME CodexOK, NEW base \in Rows
  PROVE  /\ SnapshotFromThreadRead \in Views
         /\ mergeThreadMetadata(ThreadFromPayload, base) \in Rows
         /\ SnapshotFromThreadRead.status = "interrupted" => SnapshotFromThreadRead.turn # 0
         /\ ThreadFromPayload.active \in 0 .. MaxTurns
         /\ ThreadFromPayload.active # 0 =>
              /\ ThreadFromPayload.active = Latest /\ Latest \in DOMAIN turns
              /\ SnapshotFromThreadRead.status = "inProgress"
              /\ mergeThreadMetadata(ThreadFromPayload, base).active # 0
<1>1. CASE turns = <<>>
  <2>1. SnapshotFromThreadRead = NoView /\ ThreadFromPayload = NoRow
    BY <1>1 DEF SnapshotFromThreadRead, ThreadFromPayload, NoView, Latest
  <2>2. NoRow.active = 0 /\ NoView.status = "none"
    BY DEF NoRow, NoView
  <2>3. mergeThreadMetadata(NoRow, base) \in Rows
    BY ZeroTyped DEF mergeThreadMetadata, Rows
  <2>4. QED
    BY <2>1, <2>2, <2>3, ZeroTyped
<1>2. CASE turns # <<>>
  <2>1. Latest \in DOMAIN turns /\ Latest \in 1 .. MaxTurns /\ turns[Latest] \in TurnStates
    BY <1>2 DEF CodexOK, Latest
  <2>2. /\ SnapshotFromThreadRead.turn = Latest
        /\ SnapshotFromThreadRead.status \in Statuses
        /\ turns[Latest] = "running" => SnapshotFromThreadRead.status = "inProgress"
    BY <1>2, <2>1 DEF SnapshotFromThreadRead, TurnStates, Statuses
  <2>3. SnapshotFromThreadRead \in Views
    BY <1>2, <2>1 DEF SnapshotFromThreadRead, TurnStates, Statuses, Views
  <2>4. /\ ThreadFromPayload \in Rows
        /\ ThreadFromPayload.active = IF turns[Latest] = "running" THEN Latest ELSE 0
    BY <1>2, <2>1, BoundsAssumption DEF ThreadFromPayload, TurnStates, Rows
  <2>5. /\ mergeThreadMetadata(ThreadFromPayload, base) \in Rows
        /\ ThreadFromPayload.active # 0 =>
             mergeThreadMetadata(ThreadFromPayload, base).active = ThreadFromPayload.active
    BY <2>4 DEF mergeThreadMetadata, Rows
  <2>6. QED
    BY <2>1, <2>2, <2>3, <2>4, <2>5, BoundsAssumption
<1>3. QED
  BY <1>1, <1>2

\* A handler with a fresh read.
LEMMA ReadOverForms ==
  ASSUME CodexOK, NEW base \in Rows, NEW a \in Handlers, NEW then \in Steps
  PROVE  LET r == ReadOver(base, a, then)
         IN  /\ r \in Handlers /\ r.pc = "gate" /\ r.then = then
             /\ r.view = SnapshotFromThreadRead
             /\ r.known = mergeThreadMetadata(ThreadFromPayload, base)
             /\ r.text = a.text /\ r.late = a.late /\ r.found = a.found /\ r.turn = a.turn
<1>1. SnapshotFromThreadRead \in Views /\ mergeThreadMetadata(ThreadFromPayload, base) \in Rows
  BY ReadForms
<1>2. "gate" \in Steps
  BY DEF Steps
<1>3. QED
  BY <1>1, <1>2 DEF ReadOver, Handlers

\* The same over the stored row.
LEMMA RefreshingForms ==
  ASSUME CodexOK, row \in Rows, NEW a \in Handlers, NEW then \in Steps
  PROVE  LET r == Refreshing(a, then)
         IN  /\ r \in Handlers /\ r.pc = "gate" /\ r.then = then
             /\ r.view = SnapshotFromThreadRead
             /\ r.known = mergeThreadMetadata(ThreadFromPayload, row)
             /\ r.text = a.text /\ r.late = a.late /\ r.found = a.found /\ r.turn = a.turn
BY ReadOverForms DEF Refreshing

-----------------------------------------------------------------------------
(***************************************************************************)
(* Turns, and a handler that does not move.                                *)
(***************************************************************************)

\* A step does to the turns what Codex does: a turn that does not work any more stays so,
\* and only the latest one changes.
TurnsGrow ==
  /\ Len(turns) <= Len(turns') /\ DOMAIN turns \subseteq DOMAIN turns'
  /\ \A t \in DOMAIN turns : ~Works(t) => ~Works(t)'
  /\ \A t \in DOMAIN turns : t = Latest => t = Latest' \/ ~Works(t)'

\* The latest turn gets a new state, and works afterwards only if it did before.
LEMMA ChangeLatest ==
  ASSUME CodexOK, turns # <<>>, NEW s \in TurnStates, turns' = [turns EXCEPT ![Latest] = s],
         s \in {"running", "drift"} => Works(Latest)
  PROVE  /\ turns' \in Seq(TurnStates) /\ Len(turns') = Len(turns) /\ Len(turns') <= MaxTurns
         /\ TurnsGrow
<1>1. Latest \in DOMAIN turns /\ Latest = Len(turns)
  BY DEF CodexOK, Latest
<1>2. turns' \in Seq(TurnStates) /\ Len(turns') = Len(turns) /\ DOMAIN turns' = DOMAIN turns
  BY <1>1 DEF CodexOK
<1>3. turns'[Latest] = s /\ \A t \in DOMAIN turns : t # Latest => turns'[t] = turns[t]
  BY <1>1 DEF CodexOK
<1>4. Len(turns) <= Len(turns') /\ Len(turns') <= MaxTurns
  BY <1>2 DEF CodexOK
<1>5. QED
  BY <1>1, <1>2, <1>3, <1>4 DEF TurnsGrow, Works, Latest

\* A new turn runs, after the latest one or beside it.
LEMMA NewTurn ==
  ASSUME CodexOK, Latest < MaxTurns, turns' = Append(turns, "running")
  PROVE  /\ turns' \in Seq(TurnStates) /\ Len(turns') = Len(turns) + 1 /\ Len(turns') <= MaxTurns
         /\ DOMAIN turns' = DOMAIN turns \cup {Len(turns) + 1}
         /\ \A t \in DOMAIN turns : turns'[t] = turns[t]
<1>1. "running" \in TurnStates
  BY DEF TurnStates
<1>2. QED
  BY <1>1, BoundsAssumption DEF CodexOK, Latest

\* Turns that do not change.
LEMMA SameTurns ==
  ASSUME CodexOK, UNCHANGED turns
  PROVE  TurnsGrow
BY DEF CodexOK, TurnsGrow, Works, Latest

\* What Codex does by itself.
LEMMA CodexGrows ==
  ASSUME CodexOK, Codex
  PROVE  /\ turns' \in Seq(TurnStates) /\ Len(turns') <= MaxTurns /\ TurnsGrow
         /\ UNCHANGED <<plan, heard, store, act, texts, presses, faults, history>>
<1>1. UNCHANGED <<plan, heard, store, act, texts, presses, faults, history>>
  BY DEF Codex, StartAtPC, Answers, Completes, Recovers, IsInterrupted, Drifts, TurnBecomes
<1>2. CASE StartAtPC
  <2>1. /\ turns' \in Seq(TurnStates) /\ Len(turns') = Len(turns) + 1 /\ Len(turns') <= MaxTurns
        /\ DOMAIN turns' = DOMAIN turns \cup {Len(turns) + 1}
        /\ \A t \in DOMAIN turns : turns'[t] = turns[t]
    BY <1>2, NewTurn DEF StartAtPC
  <2>2. \A t \in DOMAIN turns : t = Latest => ~Works(t)
    BY <1>2 DEF StartAtPC, Over, Works, Latest, CodexOK
  <2>3. Len(turns) <= Len(turns')
    BY <2>1 DEF CodexOK
  <2>4. QED
    BY <1>1, <2>1, <2>2, <2>3 DEF TurnsGrow, Works
<1>3. ASSUME NEW from, NEW s \in TurnStates, TurnBecomes(from, s),
             s = "running" => from = {"drift"}, s = "drift" => from = {"running"}
      PROVE  turns' \in Seq(TurnStates) /\ Len(turns') <= MaxTurns /\ TurnsGrow
  <2>1. turns # <<>> /\ turns[Latest] \in from /\ turns' = [turns EXCEPT ![Latest] = s]
    BY <1>3 DEF TurnBecomes
  <2>2. s \in {"running", "drift"} => Works(Latest)
    BY <1>3, <2>1 DEF Works, Latest, CodexOK
  <2>3. QED
    BY <2>1, <2>2, ChangeLatest
<1>4. CASE Answers \/ Completes \/ Recovers \/ IsInterrupted \/ Drifts
  <2>1. {"answered", "completed", "running", "stopped", "drift"} \subseteq TurnStates
    BY DEF TurnStates
  <2>2. CASE Answers
    BY <1>1, <1>3, <2>1, <2>2 DEF Answers
  <2>3. CASE Completes
    BY <1>1, <1>3, <2>1, <2>3 DEF Completes
  <2>4. CASE Recovers
    BY <1>1, <1>3, <2>1, <2>4 DEF Recovers
  <2>5. CASE IsInterrupted
    BY <1>1, <1>3, <2>1, <2>5 DEF IsInterrupted
  <2>6. CASE Drifts
    BY <1>1, <1>3, <2>1, <2>6 DEF Drifts
  <2>7. QED
    BY <1>4, <2>2, <2>3, <2>4, <2>5, <2>6
<1>5. QED
  BY <1>2, <1>4 DEF Codex

\* A handler that does not move is not disturbed by the others.
LEMMA HandlerKept ==
  ASSUME CodexOK, CountersOK, NEW a, HandlerInv(a), TurnsGrow,
         UNCHANGED <<steer, texts, heard, ranOut>>
  PROVE  HandlerInv(a)'
<1>1. turns # <<>> => turns' # <<>>
  BY DEF TurnsGrow, CodexOK
<1>2. (ReadNamesTurn(a) /\ AttemptHasTarget(a) /\ MarksTurn(a) /\ TextFits(a))'
  BY <1>1 DEF HandlerInv, ReadNamesTurn, AttemptHasTarget, MarksTurn, TextFits
<1>3. FoundFits(a)'
  BY DEF HandlerInv, FoundFits, TurnsGrow
<1>4. QED
  BY <1>2, <1>3 DEF HandlerInv

-----------------------------------------------------------------------------
(***************************************************************************)
(* Handlers that move.                                                     *)
(***************************************************************************)

\* The goroutines.
LEMMA ActorNames ==
  Poll \in Actors /\ Bot \in Actors /\ Poll # Bot
BY BoundsAssumption DEF Actors

\* The handlers while the bot does not move and the poll loop only reads.
LEMMA BotStays ==
  ASSUME CodexOK, CountersOK, HandlersInv, act'[Bot] = act[Bot], TurnsGrow,
         UNCHANGED <<steer, texts, heard, ranOut>>,
         PollOnlyReads', ReadNamesTurn(act[Poll])'
  PROVE  HandlersInv'
<1>1. PICK a : a = act[Bot]
  OBVIOUS
<1>2. HandlerInv(a)
  BY <1>1 DEF HandlersInv
<1>3. HandlerInv(a)'
  BY <1>2, HandlerKept
<1>4. HandlerInv(act[Bot])'
  BY <1>1, <1>3 DEF HandlerInv, ReadNamesTurn, AttemptHasTarget, MarksTurn, TextFits, FoundFits,
     Where
<1>5. QED
  BY <1>4 DEF HandlersInv, BotGoesOn

\* The bot moves: the poll loop stays where it is.
LEMMA BotMoves ==
  ASSUME ActsOK, HandlersInv, NEW b, Goes(Bot, b)
  PROVE  act'[Bot] = b /\ act'[Poll] = act[Poll] /\ PollOnlyReads' /\ ReadNamesTurn(act[Poll])'
<1>1. act'[Bot] = b /\ act'[Poll] = act[Poll]
  BY ActorNames DEF ActsOK, Goes
<1>2. QED
  BY <1>1 DEF HandlersInv, PollOnlyReads, ReadNamesTurn, Where

\* The bot is done with a text, or about something else.
LEMMA PlainMove ==
  ASSUME ActsOK, HandlersInv, NEW b, Goes(Bot, b),
         b.pc \in {"idle", "mark", "seed", "interrupt", "explicit"},
         b.pc \in {"mark", "explicit"} => b.turn # 0,
         b.view.status = "interrupted" => b.view.turn # 0
  PROVE  HandlersInv'
<1>1. act'[Bot] = b /\ PollOnlyReads' /\ ReadNamesTurn(act[Poll])'
  BY BotMoves
<1>2. QED
  BY <1>1 DEF HandlersInv, BotGoesOn, HandlerInv, ReadNamesTurn, AttemptHasTarget, MarksTurn,
     TextFits, FoundFits, Where, Handling, Attempts

\* In particular it becomes idle.
LEMMA IdleMove ==
  ASSUME ActsOK, HandlersInv, Goes(Bot, Idle)
  PROVE  HandlersInv'
<1>1. Idle.view.status # "interrupted" /\ Idle.pc = "idle"
  BY IdleTyped DEF NoView
<1>2. QED
  BY <1>1, PlainMove

\* The bot reads the thread for something else than a text.
LEMMA RefreshMove ==
  ASSUME CodexOK, row \in Rows, ActsOK, HandlersInv, NEW a \in Handlers,
         NEW then \in {"seed", "interrupt"}, Goes(Bot, Refreshing(a, then))
  PROVE  HandlersInv'
<1>1. then \in Steps
  BY DEF Steps
<1>2. PICK b : b = Refreshing(a, then)
  OBVIOUS
<1>3. act'[Bot] = b /\ PollOnlyReads' /\ ReadNamesTurn(act[Poll])'
  BY <1>2, BotMoves
<1>4. /\ b.pc = "gate" /\ b.then = then
      /\ b.view.status = "interrupted" => b.view.turn # 0
  BY <1>1, <1>2, RefreshingForms, ReadForms
<1>5. QED
  BY <1>3, <1>4 DEF HandlersInv, BotGoesOn, HandlerInv, ReadNamesTurn, AttemptHasTarget, MarksTurn,
     TextFits, FoundFits, Where, Handling, Attempts

\* The bot goes on with a text: what the next attempt needs is there.
LEMMA TextMove ==
  ASSUME ActsOK, HandlersInv, NEW c \in Handlers, NEW pc \in Attempts \cup {"refresh", "start"},
         Goes(Bot, At(c, pc)),
         c.text \in 1 .. texts', c.late => c.text \in ranOut',
         ~c.late => heard'[c.text] = 0,
         pc = "armed" => ~c.late /\ steer' # 0,
         pc = "route" => c.route # 0,
         pc = "active" => c.known.active # 0,
         pc = "retry" => turns' # <<>>,
         pc \in {"route", "active", "retry"} => heard'[c.text] <= 1,
         heard'[c.text] <= 2,
         c.found # 0 /\ ~c.late =>
           /\ c.found \in DOMAIN turns'
           /\ c.found = Latest' \/ ~Works(c.found)'
           /\ pc \in Attempts => c.known.active # 0
           /\ pc \in {"refresh", "start"} => ~Works(c.found)'
  PROVE  HandlersInv'
<1>1. pc \in Steps /\ pc \notin {"idle", "load", "mark", "seed", "gate", "attempt", "explicit"}
  BY DEF Steps, Attempts
<1>2. PICK b : b = At(c, pc)
  OBVIOUS
<1>3. act'[Bot] = b /\ PollOnlyReads' /\ ReadNamesTurn(act[Poll])'
  BY <1>2, BotMoves
<1>4. /\ b.pc = pc /\ b.view = NoView
      /\ b.text = c.text /\ b.late = c.late /\ b.found = c.found
      /\ pc # "start" => b.route = c.route /\ b.known = c.known
  BY <1>1, <1>2, AtForms
<1>5. NoView.status # "interrupted"
  BY DEF NoView
<1>7. (ReadNamesTurn(act[Bot]) /\ AttemptHasTarget(act[Bot]) /\ MarksTurn(act[Bot]))'
  BY <1>1, <1>3, <1>4, <1>5 DEF ReadNamesTurn, AttemptHasTarget, MarksTurn, Attempts
<1>8. Where(act[Bot])' = pc
  BY <1>1, <1>3, <1>4 DEF Where
<1>9. TextFits(act[Bot])'
  BY <1>1, <1>3, <1>4, <1>8 DEF TextFits, Handling
<1>10. FoundFits(act[Bot])'
  BY <1>1, <1>3, <1>4, <1>8 DEF FoundFits, Handling, Attempts
<1>11. BotGoesOn'
  BY <1>1, <1>3, <1>4 DEF BotGoesOn
<1>12. QED
  BY <1>3, <1>7, <1>9, <1>10, <1>11 DEF HandlersInv, HandlerInv

\* What comes after an attempt.
LEMMA AfterSteerChoice ==
  ASSUME NEW c
  PROVE  /\ AfterSteer(c) \in {"refresh", "idle", "start"}
         /\ AfterSteer(c) = "refresh" => c.err = "noActive"
         /\ AfterSteer(c) = "start" => c.known.active = 0
BY DEF AfterSteer, threadLooksActiveForPolling

\* What comes after an attempt at the turn of the message, or at the active turn.
LEMMA AfterRouteChoice ==
  ASSUME NEW c
  PROVE  /\ AfterRoute(c) \in {"retry", "refresh", "idle", "start"}
         /\ AfterRoute(c) = "retry" => c.err = "mismatch"
         /\ AfterRoute(c) = "refresh" => c.err = "noActive"
         /\ AfterRoute(c) = "start" => c.known.active = 0
BY AfterSteerChoice DEF AfterRoute

\* What comes after the attempt at the armed turn.
LEMMA AfterArmedChoice ==
  ASSUME NEW c
  PROVE  /\ AfterArmed(c) \in {"route", "active", "retry", "refresh", "idle", "start"}
         /\ AfterArmed(c) = "route" => c.route # 0
         /\ AfterArmed(c) = "active" => c.known.active # 0
         /\ AfterArmed(c) = "retry" => c.err = "mismatch"
         /\ AfterArmed(c) = "refresh" => c.err = "noActive"
         /\ AfterArmed(c) = "start" => c.known.active = 0
BY AfterRouteChoice DEF AfterArmed

\* The first attempt at a text: after a fresh read, or with the stored row.
LEMMA FirstAttemptMove ==
  ASSUME CodexOK, ActsOK, HandlersInv, NEW c \in Handlers, Goes(Bot, At(c, FirstAttempt(c))),
         UNCHANGED <<turns, steer, heard>>, c.text \in 1 .. texts', heard[c.text] = 0,
         ~c.late, c.err = "none",
         c.found # 0 => /\ c.found \in DOMAIN turns /\ (c.found = Latest \/ ~Works(c.found))
                        /\ c.known.active # 0
  PROVE  HandlersInv' /\ act'[Bot] \in Handlers
<1>1. PICK pc : pc = FirstAttempt(c)
  OBVIOUS
<1>2. /\ pc \in Attempts \cup {"refresh", "idle", "start"}
      /\ pc = "armed" => steer # 0
      /\ pc = "route" => c.route # 0
      /\ pc = "active" => c.known.active # 0
      /\ pc \notin {"retry", "refresh"}
      /\ pc = "start" => c.known.active = 0
  BY <1>1, AfterArmedChoice DEF FirstAttempt, Attempts
<1>3. pc \in Steps /\ Goes(Bot, At(c, pc))
  BY <1>1, <1>2 DEF Steps, Attempts
<1>4. act'[Bot] = At(c, pc) /\ At(c, pc) \in Handlers
  BY <1>3, BotMoves, AtForms
<1>5. CASE pc = "idle"
  <2>1. At(c, pc) = Idle
    BY <1>5 DEF At
  <2>2. QED
    BY <1>3, <1>4, <2>1, IdleMove
<1>6. CASE pc # "idle"
  <2>1. pc \in Attempts \cup {"refresh", "start"}
    BY <1>2, <1>6
  <2>2. c.found # 0 => /\ c.found \in DOMAIN turns' /\ (c.found = Latest' \/ ~Works(c.found)')
                       /\ c.known.active # 0
    BY DEF Latest, Works
  <2>3. heard'[c.text] = 0 /\ heard'[c.text] <= 1 /\ heard'[c.text] <= 2
    OBVIOUS
  <2>4. HandlersInv'
    BY <1>2, <1>3, <2>1, <2>2, <2>3, TextMove
  <2>5. QED
    BY <1>4, <2>4
<1>7. QED
  BY <1>5, <1>6

\* Reading, judging and storing by the poll loop.
LEMMA PollMoves ==
  ASSUME IInv, pollTracked \/ refreshThreadForOperation(Poll)
  PROVE  ActsOK' /\ HandlersInv'
<1> USE DEF IInv, TypeOK
<1>1. UNCHANGED <<turns, steer, texts, heard, ranOut>>
  BY DEF pollTracked, refreshThreadForOperation, codex, store, history
<1>2. PICK b : act' = [act EXCEPT ![Poll] = b] /\ b \in Handlers
               /\ b.pc \in {"idle", "load", "gate"} /\ (b.pc = "gate" => b.then = "idle")
               /\ ReadNamesTurn(b)
  <2>1. CASE pollTracked /\ Goes(Poll, ReadOver(act[Poll].known, Idle, "idle"))
    <3>1. "idle" \in Steps /\ act[Poll].known \in Rows
      BY ActorNames DEF Steps, ActsOK, Handlers
    <3>2. PICK b : b = ReadOver(act[Poll].known, Idle, "idle")
      OBVIOUS
    <3>3. /\ b \in Handlers /\ b.pc = "gate" /\ b.then = "idle"
          /\ b.view.status = "interrupted" => b.view.turn # 0
      BY <3>1, <3>2, IdleTyped, ReadOverForms, ReadForms
    <3>4. act' = [act EXCEPT ![Poll] = b]
      BY <2>1, <3>2 DEF Goes
    <3>5. QED
      BY <3>3, <3>4 DEF ReadNamesTurn
  <2>4. CASE pollTracked /\ Goes(Poll, [Idle EXCEPT !.pc = "load", !.known = row])
    <3>1. PICK b : b = [Idle EXCEPT !.pc = "load", !.known = row]
      OBVIOUS
    <3>2. b \in Handlers /\ b.pc = "load" /\ b.view = NoView
      BY <3>1, IdleTyped DEF StoreOK, Handlers, Steps
    <3>3. act' = [act EXCEPT ![Poll] = b]
      BY <2>4, <3>1 DEF Goes
    <3>4. ReadNamesTurn(b)
      BY <3>2 DEF ReadNamesTurn, NoView
    <3>5. QED
      BY <3>2, <3>3, <3>4
  <2>2. CASE refreshThreadForOperation(Poll)
    <3>1. act[Poll].pc = "gate" /\ act[Poll].then = "idle"
      BY <2>2 DEF refreshThreadForOperation, HandlersInv, PollOnlyReads
    <3>2. act[Poll] \in Handlers
      BY ActorNames DEF ActsOK
    <3>3. [act[Poll] EXCEPT !.known = row].then = "idle"
      BY <3>1, <3>2 DEF Handlers
    <3>4. \A a : a.then = "idle" /\ Proceeds(Poll, a) => act' = [act EXCEPT ![Poll] = Idle]
      BY DEF Proceeds, Goes, At
    <3>5. act' = [act EXCEPT ![Poll] = Idle]
      BY <2>2, <3>1, <3>3, <3>4 DEF refreshThreadForOperation
    <3>6. Idle \in Handlers /\ Idle.pc = "idle" /\ ReadNamesTurn(Idle)
      BY IdleTyped DEF ReadNamesTurn, NoView
    <3>7. QED
      BY <3>5, <3>6
  <2>3. QED
    BY <2>1, <2>2, <2>4 DEF pollTracked
<1>3. act'[Poll] = b /\ act'[Bot] = act[Bot] /\ ActsOK'
  BY <1>2, ActorNames DEF ActsOK
<1>4. PollOnlyReads' /\ ReadNamesTurn(act[Poll])'
  BY <1>2, <1>3 DEF PollOnlyReads, ReadNamesTurn, Where
<1>5. QED
  BY <1>1, <1>3, <1>4, SameTurns, BotStays

\* The bot goes on after its own refresh.
LEMMA BotRefreshes ==
  ASSUME IInv, refreshThreadForOperation(Bot)
  PROVE  ActsOK' /\ HandlersInv'
<1> USE DEF IInv, TypeOK
<1>1. UNCHANGED <<turns, steer, texts, heard, ranOut>>
  BY DEF refreshThreadForOperation, codex
<1>2. /\ act[Bot] \in Handlers /\ act[Bot].pc = "gate"
      /\ act[Bot].then \in {"attempt", "start", "seed", "interrupt"}
      /\ HandlerInv(act[Bot]) /\ Where(act[Bot]) = act[Bot].then
  BY ActorNames DEF refreshThreadForOperation, ActsOK, HandlersInv, BotGoesOn, Where
<1>3. PICK c : /\ c \in {act[Bot], [act[Bot] EXCEPT !.known = row]}
               /\ decideTelegramOriginEmptyInterruptedTerminal(act[Bot].view) \/ c = act[Bot]
               /\ Proceeds(Bot, c)
  BY DEF refreshThreadForOperation
<1>4. /\ c \in Handlers /\ c.then = act[Bot].then /\ c.text = act[Bot].text
      /\ c.late = act[Bot].late /\ c.err = act[Bot].err /\ c.found = act[Bot].found
      /\ c.turn = act[Bot].turn /\ c.view = act[Bot].view
  BY <1>2, <1>3 DEF StoreOK, Handlers
<1>5. act' = [act EXCEPT ![Bot] = act'[Bot]]
  BY <1>3 DEF Proceeds, Goes, ActsOK
<1>6. CASE c.then = "attempt"
  <2>1. Goes(Bot, At(c, FirstAttempt(c)))
    BY <1>3, <1>6 DEF Proceeds
  <2>2. c.text \in 1 .. texts /\ heard[c.text] = 0 /\ c.err = "none" /\ ~c.late
    BY <1>2, <1>4, <1>6 DEF HandlerInv, TextFits, Handling
  <2>3. c.found # 0 => /\ c.found \in DOMAIN turns /\ (c.found = Latest \/ ~Works(c.found))
                       /\ act[Bot].known.active # 0 /\ act[Bot].view.status = "inProgress"
    BY <1>2, <1>4, <1>6, <2>2 DEF HandlerInv, FoundFits, Handling
  <2>4. c.found # 0 => c.known.active # 0
    BY <1>3, <2>3 DEF decideTelegramOriginEmptyInterruptedTerminal, isDeferrableInterruptedSnapshot
  <2>5. HandlersInv' /\ act'[Bot] \in Handlers
    BY <1>1, <1>4, <2>1, <2>2, <2>3, <2>4, FirstAttemptMove
  <2>6. QED
    BY <1>5, <2>5 DEF ActsOK
<1>7. CASE c.then = "start"
  <2>1. Goes(Bot, At(c, "start"))
    BY <1>3, <1>7 DEF Proceeds
  <2>2. /\ c.text \in 1 .. texts /\ (c.late => c.text \in ranOut) /\ (~c.late => heard[c.text] = 0)
        /\ heard[c.text] <= 2
    BY <1>2, <1>4, <1>7 DEF HandlerInv, TextFits, Handling
  <2>3. c.found # 0 /\ ~c.late => c.found \in DOMAIN turns /\ ~Works(c.found)
    BY <1>2, <1>4, <1>7 DEF HandlerInv, FoundFits, Handling
  <2>4. c.found # 0 /\ ~c.late => c.found \in DOMAIN turns' /\ ~Works(c.found)'
    BY <1>1, <2>3 DEF Works
  <2>5. HandlersInv'
    BY <1>1, <1>4, <2>1, <2>2, <2>4, TextMove DEF Attempts
  <2>6. At(c, "start") \in Handlers
    BY <1>4, AtForms DEF Steps
  <2>7. QED
    BY <2>1, <2>5, <2>6 DEF ActsOK, Goes
<1>8. CASE c.then \in {"seed", "interrupt"}
  <2>1. Goes(Bot, At(c, c.then)) /\ c.then \in Steps
    BY <1>3, <1>8 DEF Proceeds, Steps
  <2>2. /\ At(c, c.then) \in Handlers /\ At(c, c.then).pc = c.then
        /\ At(c, c.then).view.status # "interrupted"
    BY <1>4, <2>1, AtForms DEF NoView
  <2>3. HandlersInv'
    BY <1>8, <2>1, <2>2, PlainMove
  <2>4. QED
    BY <2>1, <2>2, <2>3 DEF ActsOK, Goes
<1>9. QED
  BY <1>2, <1>4, <1>6, <1>7, <1>8

\* The clock and tool events move nobody.
LEMMA ObserveMoves ==
  ASSUME IInv, Observe
  PROVE  ActsOK' /\ HandlersInv'
<1> USE DEF IInv, TypeOK
<1>1. ASSUME NEW t \in TurnIds, GraceExpires(t) \/ applyLiveToolSnapshot(t)
      PROVE  ActsOK' /\ HandlersInv'
  <2>1. UNCHANGED <<turns, steer, texts, heard, ranOut, act>>
    BY <1>1 DEF GraceExpires, applyLiveToolSnapshot, codex, history
  <2>2. PollOnlyReads' /\ ReadNamesTurn(act[Poll])'
    BY <2>1 DEF HandlersInv, PollOnlyReads, ReadNamesTurn, Where
  <2>3. QED
    BY <2>1, <2>2, SameTurns, BotStays DEF ActsOK
<1>2. QED
  BY <1>1, PollMoves, BotRefreshes DEF Observe, Actors

\* An attempt to steer that Codex has refused: the next one.
LEMMA SteerGoesOn ==
  ASSUME IInv, UNCHANGED <<turns, texts, heard>>, NEW c \in Handlers, NEW err,
         NEW pc \in {"route", "active", "retry", "refresh", "idle", "start"}, Goes(Bot, At(c, pc)),
         ~c.late, c.text \in 1 .. texts, heard[c.text] = 0,
         c.found # 0 => /\ c.found \in DOMAIN turns /\ (c.found = Latest \/ ~Works(c.found))
                        /\ c.known.active # 0,
         pc = "route" => c.route # 0, pc = "active" => c.known.active # 0,
         pc = "retry" => err = "mismatch", pc = "refresh" => err = "noActive",
         pc = "start" => c.known.active = 0,
         err = "mismatch" => Works(Latest), err = "noActive" => ~Works(Latest)
  PROVE  HandlersInv' /\ act'[Bot] \in Handlers
<1> USE DEF IInv, TypeOK
<1>1. pc \in Steps
  BY DEF Steps
<1>2. act'[Bot] = At(c, pc) /\ At(c, pc) \in Handlers
  BY <1>1, BotMoves, AtForms
<1>3. CASE pc = "idle"
  BY <1>2, <1>3, IdleMove DEF At
<1>4. CASE pc # "idle"
  <2>1. pc \in Attempts \cup {"refresh", "start"} /\ pc # "armed"
    BY <1>4 DEF Attempts
  <2>2. pc = "retry" => turns' # <<>>
    BY DEF Works, CodexOK
  <2>3. c.found # 0 => /\ c.found \in DOMAIN turns' /\ (c.found = Latest' \/ ~Works(c.found)')
                       /\ c.known.active # 0
                       /\ pc \in {"refresh", "start"} => ~Works(c.found)'
    <3>1. \A t : Works(t)' <=> Works(t)
      BY DEF Works
    <3>2. Latest' = Latest
      BY DEF Latest
    <3>3. QED
      BY <3>1, <3>2
  <2>4. heard'[c.text] = 0 /\ heard'[c.text] <= 1 /\ heard'[c.text] <= 2
    OBVIOUS
  <2>5. HandlersInv'
    BY <2>1, <2>2, <2>3, <2>4, TextMove
  <2>6. QED
    BY <1>2, <2>5
<1>5. QED
  BY <1>3, <1>4

\* An attempt to steer: the text arrives at most once more, and the handler knows what the
\* next attempt needs.
LEMMA SteerMoves ==
  ASSUME IInv, NEW target \in 0 .. MaxTurns, NEW rung \in Attempts, TurnSteer(target, rung),
         rung = "armed" => target = steer,
         rung = "route" => target = act[Bot].route,
         rung = "active" => target = act[Bot].known.active,
         rung = "retry" => target = Latest
  PROVE  /\ ActsOK' /\ HandlersInv'
         /\ UNCHANGED turns /\ steer' \in {steer, 0} /\ faults' \in {faults, faults + 1}
         /\ faults' > faults => texts + presses + faults < MaxEvents
         /\ ranOut \subseteq ranOut' /\ ranOut' \subseteq ranOut \cup {act[Bot].text}
         /\ act[Bot].text \in Texts
         /\ \/ UNCHANGED heard
            \/ /\ Arrives(act[Bot].text) /\ act[Bot].text \in 1 .. texts
               /\ heard[act[Bot].text] <= 1
               /\ heard[act[Bot].text] = 1 => act[Bot].text \in ranOut'
<1> USE DEF IInv, TypeOK
<1> DEFINE a == act[Bot]
           taken == target = Latest /\ (Works(target) \/ turns[target] = "answered")
<1>1. a \in Handlers /\ a.pc = rung /\ Where(a) = rung /\ HandlerInv(a)
  BY ActorNames DEF TurnSteer, ActsOK, HandlersInv, Where, Attempts
<1>2. /\ a.text \in 1 .. texts /\ (a.late => a.text \in ranOut) /\ (~a.late => heard[a.text] = 0)
      /\ rung = "armed" => ~a.late
      /\ heard[a.text] <= 1 /\ heard[a.text] \in 0 .. 3 /\ a.text \in Texts
  <2>1. /\ a.text \in 1 .. texts /\ (a.late => a.text \in ranOut) /\ (~a.late => heard[a.text] = 0)
        /\ rung = "armed" => ~a.late
        /\ rung # "armed" => heard[a.text] <= 1
    BY <1>1 DEF HandlerInv, TextFits, Handling, Attempts
  <2>2. a.text \in Texts
    BY <2>1, BoundsAssumption DEF CountersOK, Texts
  <2>3. heard[a.text] \in 0 .. 3
    BY <2>2 DEF CodexOK
  <2>4. QED
    BY <2>1, <2>2, <2>3
<1>3. /\ a.found # 0 /\ ~a.late =>
           /\ a.found \in DOMAIN turns /\ (a.found = Latest \/ ~Works(a.found))
           /\ a.known.active # 0
      /\ target # 0
  BY <1>1 DEF HandlerInv, FoundFits, AttemptHasTarget, Handling, Attempts, Latest, CodexOK
<1>4. UNCHANGED <<turns, texts>>
  BY DEF TurnSteer
<1> DEFINE b == IF rung = "retry" THEN [a EXCEPT !.known = [status |-> "active", active |-> target]]
                ELSE a
<1>5. /\ b \in Handlers /\ b.text = a.text /\ b.route = a.route /\ b.late = a.late
      /\ b.found = a.found /\ (a.known.active # 0 => b.known.active # 0)
  <2>1. [status |-> "active", active |-> target] \in Rows
    BY DEF Rows
  <2>2. QED
    BY <1>1, <1>3, <2>1 DEF Handlers
<1>6. \/ ~a.late /\ taken /\ Arrives(a.text) /\ Delivered([a EXCEPT !.turn = target])
      \/ /\ ~a.late /\ UNCHANGED heard /\ UNCHANGED steer /\ UNCHANGED ranOut
         /\ \E err \in {"busy", "mismatch", "noActive"} :
              /\ err = "mismatch" => Works(Latest)
              /\ err = "noActive" => ~Works(Latest)
              /\ LET c == [b EXCEPT !.err = err]
                 IN  GoesOn(c, CASE rung = "armed" -> AfterArmed(c)
                                 [] rung = "retry" -> AfterSteer(c)
                                 [] OTHER -> AfterRoute(c))
      \/ /\ UNCHANGED steer
         /\ (a.late /\ UNCHANGED faults) \/ Fault(0)
         /\ ranOut' = ranOut \cup {a.text}
         /\ Arrives(a.text) \/ UNCHANGED heard
         /\ LET c == [b EXCEPT !.err = "timeout", !.late = TRUE]
            IN  GoesOn(c, CASE rung = "armed" -> AfterArmed(c)
                            [] OTHER -> AfterSteer(c))
  BY Zenon DEF TurnSteer
<1>7. /\ steer' \in {steer, 0} /\ faults' \in {faults, faults + 1}
      /\ faults' > faults => texts + presses + faults < MaxEvents
      /\ ranOut' \in {ranOut, ranOut \cup {a.text}}
      /\ UNCHANGED heard \/ Arrives(a.text)
  <2>1. faults' = faults \/ Fault(0)
    BY Zenon DEF TurnSteer
  <2>2. steer' = steer \/ steer' = 0
    BY Zenon DEF TurnSteer
  <2>3. heard' = heard \/ Arrives(a.text)
    BY Zenon DEF TurnSteer
  <2>4. ranOut' = ranOut \/ ranOut' = ranOut \cup {a.text}
    BY Zenon DEF TurnSteer
  <2>5. QED
    BY <2>1, <2>2, <2>3, <2>4 DEF Fault, CountersOK
<1> HIDE DEF a, b
<1>8. HandlersInv' /\ act'[Bot] \in Handlers
  <2>1. CASE Delivered([a EXCEPT !.turn = target])
    <3>1. PICK c : c = [a EXCEPT !.turn = target]
      OBVIOUS
    <3>2. c \in Handlers /\ c.turn = target
      BY <1>1, <3>1 DEF Handlers
    <3>3. /\ At(c, "mark") \in Handlers /\ At(c, "mark").pc = "mark"
          /\ At(c, "mark").turn = target /\ At(c, "mark").view.status # "interrupted"
      BY <3>2, AtForms DEF Steps, NoView
    <3>4. Goes(Bot, At(c, "mark"))
      BY <2>1, <3>1 DEF Delivered, GoesOn
    <3>5. QED
      BY <1>3, <3>3, <3>4, PlainMove, BotMoves
  <2>2. ASSUME ~a.late, UNCHANGED heard, UNCHANGED steer, UNCHANGED ranOut,
               NEW err \in {"busy", "mismatch", "noActive"},
               err = "mismatch" => Works(Latest), err = "noActive" => ~Works(Latest),
               LET c == [b EXCEPT !.err = err]
               IN  GoesOn(c, CASE rung = "armed" -> AfterArmed(c)
                               [] rung = "retry" -> AfterSteer(c)
                               [] OTHER -> AfterRoute(c))
        PROVE  HandlersInv' /\ act'[Bot] \in Handlers
    <3>1. PICK c : c = [b EXCEPT !.err = err]
      OBVIOUS
    <3>2. /\ c \in Handlers /\ c.text = a.text /\ c.route = a.route /\ ~c.late
          /\ c.found = a.found /\ (a.known.active # 0 => c.known.active # 0) /\ c.err = err
      BY <1>5, <2>2, <3>1 DEF Handlers, Errors
    <3>3. PICK pc : pc = CASE rung = "armed" -> AfterArmed(c)
                           [] rung = "retry" -> AfterSteer(c)
                           [] OTHER -> AfterRoute(c)
      OBVIOUS
    <3>4. pc \in {AfterArmed(c), AfterSteer(c), AfterRoute(c)}
      BY <3>3
    <3>5. /\ pc \in {"route", "active", "retry", "refresh", "idle", "start"}
          /\ pc = "route" => c.route # 0
          /\ pc = "active" => c.known.active # 0
          /\ pc = "retry" => err = "mismatch"
          /\ pc = "refresh" => err = "noActive"
          /\ pc = "start" => c.known.active = 0
      BY <3>2, <3>4, AfterArmedChoice, AfterSteerChoice, AfterRouteChoice
    <3>6. Goes(Bot, At(c, pc))
      BY <2>2, <3>1, <3>3 DEF GoesOn
    <3>7. QED
      BY <1>2, <1>3, <1>4, <2>2, <3>2, <3>5, <3>6, SteerGoesOn
  <2>3. ASSUME UNCHANGED steer, (a.late /\ UNCHANGED faults) \/ Fault(0),
               ranOut' = ranOut \cup {a.text},
               Arrives(a.text) \/ UNCHANGED heard,
               LET c == [b EXCEPT !.err = "timeout", !.late = TRUE]
               IN  GoesOn(c, CASE rung = "armed" -> AfterArmed(c)
                               [] OTHER -> AfterSteer(c))
        PROVE  HandlersInv' /\ act'[Bot] \in Handlers
    <3>1. PICK c : c = [b EXCEPT !.err = "timeout", !.late = TRUE]
      OBVIOUS
    <3>2. /\ c \in Handlers /\ c.text = a.text /\ c.late = TRUE /\ c.err = "timeout"
      BY <1>5, <3>1 DEF Handlers, Errors
    <3>3. PICK pc : pc = CASE rung = "armed" -> AfterArmed(c)
                           [] OTHER -> AfterSteer(c)
      OBVIOUS
    <3>4. /\ (rung = "armed" /\ pc = AfterArmed(c)) \/ pc = AfterSteer(c)
      BY <3>3
    <3>5. /\ pc \in {"route", "active", "idle", "start"}
          /\ pc = "route" => c.route # 0
          /\ pc = "active" => c.known.active # 0
          /\ pc \in {"route", "active"} => rung = "armed"
      BY <3>2, <3>4, AfterArmedChoice, AfterSteerChoice
    <3>6. Goes(Bot, At(c, pc))
      BY <2>3, <3>1, <3>3 DEF GoesOn
    <3>7. a.text \in ranOut'
      BY <2>3
    <3>8. /\ heard'[a.text] <= 2 /\ (rung = "armed" => heard'[a.text] <= 1)
      <4>1. heard'[a.text] \in {heard[a.text], heard[a.text] + 1}
        BY <1>2, <2>3 DEF Arrives, CodexOK
      <4>2. QED
        BY <1>2, <4>1
    <3>9. pc \in Steps
      BY <3>5 DEF Steps
    <3>10. act'[Bot] = At(c, pc) /\ At(c, pc) \in Handlers
      BY <3>2, <3>6, <3>9, BotMoves, AtForms
    <3>11. CASE pc = "idle"
      BY <3>6, <3>10, <3>11, IdleMove DEF At
    <3>12. CASE pc # "idle"
      <4>1. pc \in Attempts \cup {"refresh", "start"} /\ pc \notin {"armed", "retry"}
        BY <3>5, <3>12 DEF Attempts
      <4>2. HandlersInv'
        BY <1>2, <1>4, <3>2, <3>5, <3>6, <3>7, <3>8, <4>1, TextMove
      <4>3. QED
        BY <3>10, <4>2
    <3>13. QED
      BY <3>11, <3>12
  <2>4. QED
    BY <1>6, <2>1, <2>2, <2>3
<1>9. act' = [act EXCEPT ![Bot] = act'[Bot]]
  BY Zenon, <1>6 DEF GoesOn, Delivered, Goes, ActsOK
<1>10. QED
  BY <1>2, <1>4, <1>7, <1>8, <1>9 DEF a, ActsOK

\* A new text.
LEMMA SendMoves ==
  ASSUME IInv, NEW route \in 0 .. Latest, sendInputToThreadTurn(route)
  PROVE  ActsOK' /\ HandlersInv'
<1> USE DEF IInv, TypeOK
<1>1. /\ act[Bot] = Idle /\ texts' = texts + 1 /\ texts < MaxTexts
      /\ UNCHANGED <<turns, heard, steer>>
  BY DEF sendInputToThreadTurn, codex, store
<1>2. texts + 1 \in 1 .. texts' /\ texts + 1 \in Texts /\ heard[texts + 1] = 0
  BY <1>1, BoundsAssumption DEF CountersOK, Texts, ArrivalsFit
<1>3. PICK a : a = [Idle EXCEPT !.text = texts + 1, !.route = route, !.known = row]
  OBVIOUS
<1>4. /\ a \in Handlers /\ a.text = texts + 1 /\ ~a.late /\ a.err = "none" /\ a.found = 0
  <2>1. route \in 0 .. MaxTurns /\ texts + 1 \in 0 .. MaxTexts /\ row \in Rows
    BY <1>1, <1>2, BoundsAssumption DEF CodexOK, StoreOK, Latest, Texts
  <2>2. QED
    BY <1>3, <2>1, IdleTyped DEF Handlers
<1>5. CASE Goes(Bot, Refreshing([a EXCEPT !.found = ThreadFromPayload.active], "attempt"))
  <2>1. PICK c : c = [a EXCEPT !.found = ThreadFromPayload.active]
    OBVIOUS
  <2>2. /\ c \in Handlers /\ c.text = texts + 1 /\ ~c.late /\ c.err = "none"
        /\ c.found = ThreadFromPayload.active
    BY <1>4, <2>1, ReadForms DEF Handlers, StoreOK
  <2>3. PICK r : r = Refreshing(c, "attempt")
    OBVIOUS
  <2>4. /\ r \in Handlers /\ r.pc = "gate" /\ r.then = "attempt"
        /\ r.view = SnapshotFromThreadRead
        /\ r.known = mergeThreadMetadata(ThreadFromPayload, row)
        /\ r.text = texts + 1 /\ ~r.late /\ r.found = ThreadFromPayload.active
    BY <2>2, <2>3, RefreshingForms DEF Steps, StoreOK
  <2>5. r.err = "none"
    BY <2>2, <2>3 DEF Refreshing, ReadOver, Handlers
  <2>6. act'[Bot] = r /\ PollOnlyReads' /\ ReadNamesTurn(act[Poll])'
    BY <1>5, <2>1, <2>3, BotMoves
  <2>7. /\ r.view.status = "interrupted" => r.view.turn # 0
        /\ r.found # 0 => /\ r.found = Latest /\ r.found \in DOMAIN turns
                          /\ r.known.active # 0 /\ r.view.status = "inProgress"
    BY <2>4, ReadForms DEF StoreOK
  <2>8. BotGoesOn' /\ Where(act[Bot])' = "attempt"
    BY <2>4, <2>6 DEF BotGoesOn, Where
  <2>9. TextFits(act[Bot])'
    BY <1>1, <1>2, <2>4, <2>5, <2>6, <2>8 DEF TextFits, Handling, Attempts
  <2>10. FoundFits(act[Bot])'
    BY <1>1, <2>6, <2>7, <2>8 DEF FoundFits, Attempts, Latest
  <2>11. (ReadNamesTurn(act[Bot]) /\ AttemptHasTarget(act[Bot]) /\ MarksTurn(act[Bot]))'
    BY <2>4, <2>6, <2>7 DEF ReadNamesTurn, AttemptHasTarget, MarksTurn
  <2>12. ActsOK'
    BY <1>5, <2>1, <2>3, <2>4 DEF ActsOK, Goes
  <2>13. QED
    BY <2>6, <2>8, <2>9, <2>10, <2>11, <2>12 DEF HandlersInv, HandlerInv
<1>6. CASE GoesOn(a, FirstAttempt(a))
  <2>1. HandlersInv' /\ act'[Bot] \in Handlers
    BY <1>1, <1>2, <1>4, <1>6, FirstAttemptMove DEF GoesOn
  <2>2. act' = [act EXCEPT ![Bot] = act'[Bot]]
    BY <1>6 DEF GoesOn, Goes, ActsOK
  <2>3. QED
    BY <2>1, <2>2 DEF ActsOK
<1>7. CASE UNCHANGED act
  <2>1. Goes(Bot, Idle)
    BY <1>1, <1>7, ActorNames DEF Goes, ActsOK
  <2>2. QED
    BY <1>7, <2>1, IdleMove DEF ActsOK
<1>8. QED
  BY <1>3, <1>5, <1>6, <1>7 DEF sendInputToThreadTurn

\* Codex has no active turn: one more read, and a start.
LEMMA NoActiveMoves ==
  ASSUME IInv, RefreshAfterNoActive
  PROVE  ActsOK' /\ HandlersInv'
<1> USE DEF IInv, TypeOK
<1>1. /\ act[Bot] \in Handlers /\ act[Bot].pc = "refresh" /\ Where(act[Bot]) = "refresh"
      /\ UNCHANGED <<turns, heard, steer, texts>>
  BY ActorNames DEF RefreshAfterNoActive, ActsOK, codex, store, Where
<1>2. PICK a : a = act[Bot]
  OBVIOUS
<1>3. /\ a.text \in 1 .. texts /\ (a.late => a.text \in ranOut) /\ (~a.late => heard[a.text] = 0)
      /\ heard[a.text] <= 2
      /\ a.found # 0 /\ ~a.late => a.found \in DOMAIN turns /\ ~Works(a.found)
  BY <1>1, <1>2 DEF HandlersInv, HandlerInv, TextFits, FoundFits, Handling
<1>4. /\ a.late => a.text \in ranOut'
      /\ a.found # 0 /\ ~a.late => a.found \in DOMAIN turns' /\ ~Works(a.found)'
  <2>1. a.late => a.text \in ranOut'
    BY <1>3 DEF RefreshAfterNoActive, history
  <2>2. QED
    BY <1>1, <1>3, <2>1 DEF Works
<1>5. CASE Goes(Bot, Refreshing(act[Bot], "start"))
  <2>1. PICK r : r = Refreshing(a, "start")
    OBVIOUS
  <2>2. /\ r \in Handlers /\ r.pc = "gate" /\ r.then = "start"
        /\ r.view = SnapshotFromThreadRead
        /\ r.text = a.text /\ r.late = a.late /\ r.found = a.found
    BY <1>1, <1>2, <2>1, RefreshingForms DEF Steps, StoreOK
  <2>3. act'[Bot] = r /\ PollOnlyReads' /\ ReadNamesTurn(act[Poll])'
    BY <1>2, <1>5, <2>1, BotMoves
  <2>4. r.view.status = "interrupted" => r.view.turn # 0
    BY <2>2, ReadForms DEF StoreOK
  <2>5. BotGoesOn' /\ Where(act[Bot])' = "start"
    BY <2>2, <2>3 DEF BotGoesOn, Where
  <2>6. TextFits(act[Bot])'
    BY <1>1, <1>3, <1>4, <2>2, <2>3, <2>5 DEF TextFits
  <2>7. FoundFits(act[Bot])'
    BY <1>4, <2>2, <2>3, <2>5 DEF FoundFits, Attempts
  <2>8. (ReadNamesTurn(act[Bot]) /\ AttemptHasTarget(act[Bot]) /\ MarksTurn(act[Bot]))'
    BY <2>2, <2>3, <2>4 DEF ReadNamesTurn, AttemptHasTarget, MarksTurn
  <2>9. ActsOK'
    BY <1>2, <1>5, <2>1, <2>2 DEF ActsOK, Goes
  <2>10. QED
    BY <2>3, <2>5, <2>6, <2>7, <2>8, <2>9 DEF HandlersInv, HandlerInv
<1>6. CASE GoesOn(act[Bot], "start")
  <2>1. Goes(Bot, At(a, "start")) /\ a \in Handlers
    BY <1>1, <1>2, <1>6 DEF GoesOn
  <2>2. HandlersInv'
    BY <1>1, <1>3, <1>4, <2>1, TextMove DEF Attempts
  <2>3. At(a, "start") \in Handlers
    BY <2>1, AtForms DEF Steps
  <2>4. QED
    BY <2>1, <2>2, <2>3 DEF ActsOK, Goes
<1>7. QED
  BY <1>5, <1>6 DEF RefreshAfterNoActive

\* The other steps of the bot are not about a text any more.
LEMMA OtherBotMoves ==
  ASSUME IInv, \/ StartTurn \/ markTelegramOriginTurn \/ ensureStartedTurnSnapshot
               \/ (\E t \in TurnIds : armSteer(t)) \/ resolveArmedSteer
               \/ stopThread \/ interruptTurn \/ markTelegramOriginExplicitInterrupt
  PROVE  ActsOK' /\ HandlersInv'
<1> USE DEF IInv, TypeOK
<1>0. act[Bot] \in Handlers /\ Idle \in Handlers /\ row \in Rows
  BY ActorNames, IdleTyped DEF ActsOK, StoreOK
<1>1. CASE Goes(Bot, Idle)
  BY <1>0, <1>1, IdleMove DEF ActsOK, Goes
<1>2. CASE act[Bot] = Idle /\ UNCHANGED act
  BY <1>1, <1>2, ActorNames DEF Goes, ActsOK
<1>3. ASSUME NEW a \in Handlers, NEW then \in {"seed", "interrupt"},
             Goes(Bot, Refreshing(a, then))
      PROVE  ActsOK' /\ HandlersInv'
  <2>1. Refreshing(a, then) \in Handlers
    BY <1>0, RefreshingForms DEF Steps
  <2>2. QED
    BY <1>0, <1>3, <2>1, RefreshMove DEF ActsOK, Goes
<1>4. CASE StartTurn
  <2>1. CASE GoesOn([act[Bot] EXCEPT !.turn = Latest + 1], "mark") /\ Latest < MaxTurns
    <3>1. PICK c : c = [act[Bot] EXCEPT !.turn = Latest + 1]
      OBVIOUS
    <3>2. Latest + 1 \in 0 .. MaxTurns /\ Latest + 1 # 0
      BY <2>1, BoundsAssumption DEF Latest, CodexOK
    <3>3. c \in Handlers /\ c.turn = Latest + 1
      BY <1>0, <3>1, <3>2 DEF Handlers
    <3>4. /\ At(c, "mark") \in Handlers /\ At(c, "mark").pc = "mark"
          /\ At(c, "mark").turn = Latest + 1 /\ At(c, "mark").view.status # "interrupted"
      BY <3>3, AtForms DEF Steps, NoView
    <3>5. Goes(Bot, At(c, "mark"))
      BY <2>1, <3>1 DEF GoesOn
    <3>6. QED
      BY <3>2, <3>4, <3>5, PlainMove DEF ActsOK, Goes
  <2>2. QED
    BY <1>1, <1>4, <2>1 DEF StartTurn, TurnStart
<1>5. CASE markTelegramOriginTurn
  <2>1. CASE Goes(Bot, [act[Bot] EXCEPT !.pc = "seed"])
    <3>1. PICK b : b = [act[Bot] EXCEPT !.pc = "seed"]
      OBVIOUS
    <3>2. b \in Handlers /\ b.pc = "seed" /\ b.view = act[Bot].view
      BY <1>0, <3>1 DEF Handlers, Steps
    <3>3. act[Bot].view.status = "interrupted" => act[Bot].view.turn # 0
      BY DEF HandlersInv, HandlerInv, ReadNamesTurn
    <3>4. QED
      BY <2>1, <3>1, <3>2, <3>3, PlainMove DEF ActsOK, Goes
  <2>2. QED
    BY <1>0, <1>3, <1>5, <2>1 DEF markTelegramOriginTurn
<1>6. CASE stopThread
  <2>1. PICK a : a = [Idle EXCEPT !.known = row]
    OBVIOUS
  <2>2. a \in Handlers /\ a.view = NoView
    BY <1>0, <2>1, IdleTyped DEF Handlers
  <2>3. CASE Goes(Bot, [a EXCEPT !.pc = "interrupt"])
    <3>1. PICK b : b = [a EXCEPT !.pc = "interrupt"]
      OBVIOUS
    <3>2. b \in Handlers /\ b.pc = "interrupt" /\ b.view.status # "interrupted"
      BY <2>2, <3>1 DEF Handlers, Steps, NoView
    <3>3. QED
      BY <2>3, <3>1, <3>2, PlainMove DEF ActsOK, Goes
  <2>4. QED
    BY <1>3, <1>6, <2>1, <2>2, <2>3 DEF stopThread
<1>7. CASE interruptTurn
  <2>1. ASSUME NEW t \in 0 .. MaxTurns, t # 0,
               Goes(Bot, [act[Bot] EXCEPT !.pc = "explicit", !.turn = t])
        PROVE  ActsOK' /\ HandlersInv'
    <3>1. PICK b : b = [act[Bot] EXCEPT !.pc = "explicit", !.turn = t]
      OBVIOUS
    <3>2. b \in Handlers /\ b.pc = "explicit" /\ b.turn = t /\ b.view = act[Bot].view
      BY <1>0, <3>1 DEF Handlers, Steps
    <3>3. act[Bot].view.status = "interrupted" => act[Bot].view.turn # 0
      BY DEF HandlersInv, HandlerInv, ReadNamesTurn
    <3>4. QED
      BY <2>1, <3>1, <3>2, <3>3, PlainMove DEF ActsOK, Goes
  <2>2. act[Bot].known.active \in 0 .. MaxTurns
    BY <1>0 DEF Handlers, Rows
  <2>3. QED
    BY <1>1, <1>7, <2>1, <2>2 DEF interruptTurn
<1>8. QED
  BY <1>1, <1>2, <1>4, <1>5, <1>6, <1>7 DEF ensureStartedTurnSnapshot, armSteer, resolveArmedSteer,
     markTelegramOriginExplicitInterrupt

\* Every step keeps the handlers sound.
LEMMA NextMoves ==
  ASSUME IInv, [Next]_vars
  PROVE  ActsOK' /\ HandlersInv'
<1> USE DEF IInv, TypeOK
<1>1. CASE Codex
  <2>1. TurnsGrow /\ UNCHANGED <<steer, texts, heard, ranOut, act>>
    BY <1>1, CodexGrows DEF store, history
  <2>2. PollOnlyReads' /\ ReadNamesTurn(act[Poll])'
    BY <2>1 DEF HandlersInv, PollOnlyReads, ReadNamesTurn, Where
  <2>3. QED
    BY <2>1, <2>2, BotStays DEF ActsOK
<1>2. CASE Steers
  <2>1. steer \in 0 .. MaxTurns /\ Latest \in 0 .. MaxTurns
    BY BoundsAssumption DEF StoreOK, CodexOK, Latest
  <2>2. act[Bot].route \in 0 .. MaxTurns /\ act[Bot].known.active \in 0 .. MaxTurns
    BY ActorNames DEF ActsOK, Handlers, Rows
  <2>3. QED
    BY <1>2, <2>1, <2>2, SteerMoves DEF Steers, Attempts
<1>3. CASE Dies
  <2>1. act'[Bot] = Idle /\ act'[Poll] = Idle /\ ActsOK'
    BY <1>3, ActorNames, IdleTyped DEF Dies, ActsOK
  <2>2. QED
    BY <2>1, IdleTyped DEF HandlersInv, PollOnlyReads, BotGoesOn, HandlerInv, ReadNamesTurn,
       AttemptHasTarget, MarksTurn, TextFits, FoundFits, Where, Handling, Attempts, NoView
<1>4. CASE UNCHANGED vars
  <2>1. UNCHANGED <<turns, steer, texts, heard, ranOut, act>>
    BY <1>4 DEF vars, codex, store, history
  <2>2. PollOnlyReads' /\ ReadNamesTurn(act[Poll])'
    BY <2>1 DEF HandlersInv, PollOnlyReads, ReadNamesTurn, Where
  <2>3. QED
    BY <2>1, <2>2, SameTurns, BotStays DEF ActsOK
<1>5. QED
  BY <1>1, <1>2, <1>3, <1>4, ObserveMoves, SendMoves, NoActiveMoves, OtherBotMoves
     DEF Next, BotStep
-----------------------------------------------------------------------------
(***************************************************************************)
(* What the steps do to Codex, the store and the history.                  *)
(***************************************************************************)

\* The invariant without its part about the handlers.
RestInv ==
  /\ CodexOK /\ StoreOK /\ CountersOK /\ HistoryOK
  /\ InterruptionExplained /\ ArrivalsFit /\ StopIsRemembered /\ NoParallelTurn

\* A step that changes no more than the state of the turns, the counters and the handlers.
LEMMA QuietStep ==
  ASSUME IInv, UNCHANGED <<plan, heard, store, history>>,
         turns' \in Seq(TurnStates), Len(turns') <= MaxTurns,
         CountersOK', texts' >= texts, faults' >= faults
  PROVE  RestInv'
<1>0. RestInv
  BY DEF IInv, TypeOK, RestInv
<1>1. UNCHANGED <<row, snap, origin, explicit, deferred, steer, override, settled, parallel, ranOut, wish>>
  BY DEF store, history
<1>2. CodexOK' /\ StoreOK' /\ HistoryOK'
  BY <1>0, <1>1 DEF RestInv, CodexOK, StoreOK, HistoryOK
<1>3. InterruptionExplained' /\ StopIsRemembered' /\ NoParallelTurn'
  BY <1>0, <1>1 DEF RestInv, InterruptionExplained, StopIsRemembered, NoParallelTurn
<1>4. ArrivalsFit'
  BY <1>0, <1>1 DEF RestInv, ArrivalsFit, CountersOK, CodexOK, Texts
<1> QED
  BY <1>2, <1>3, <1>4 DEF RestInv

\* A step that changes no more than the rows, the marks, the gate's state and the handlers.
LEMMA StoreStep ==
  ASSUME IInv, UNCHANGED <<codex, texts, presses, override, parallel, ranOut, wish>>,
         StoreOK', settled' \subseteq TurnIds, CountersOK', faults' >= faults,
         InterruptionExplained'
  PROVE  RestInv'
<1>0. RestInv
  BY DEF IInv, TypeOK, RestInv
<1>1. UNCHANGED <<turns, plan, heard>>
  BY DEF codex
<1>2. CodexOK' /\ HistoryOK'
  BY <1>0, <1>1 DEF RestInv, CodexOK, HistoryOK
<1>3. StopIsRemembered' /\ NoParallelTurn'
  BY <1>0, <1>1 DEF RestInv, StopIsRemembered, NoParallelTurn
<1>4. ArrivalsFit'
  BY <1>0, <1>1 DEF RestInv, ArrivalsFit, CountersOK, CodexOK, Texts
<1> QED
  BY <1>2, <1>3, <1>4 DEF RestInv

\* A failed call is counted within the bound.
LEMMA FaultFits ==
  ASSUME CountersOK, NEW n \in Nat, Fault(n)
  PROVE  faults' \in 0 .. MaxEvents /\ faults' > faults /\ texts + presses + faults + n < MaxEvents
BY BoundsAssumption DEF CountersOK, Fault

\* The gate explains the interruption that it lets through, and remembers what it explains.
LEMMA GateExplains ==
  ASSUME IInv, NEW p \in Actors, refreshThreadForOperation(p)
  PROVE  RestInv'
<1>0. RestInv /\ ActsOK /\ HandlersInv
  BY DEF IInv, TypeOK, RestInv
<1> PICK a : a = act[p]
  OBVIOUS
<1>1. a \in Handlers
  BY <1>0 DEF ActsOK
<1>2. ReadNamesTurn(a)
  BY <1>0 DEF HandlersInv, HandlerInv, Actors
<1> DEFINE skip == decideTelegramOriginEmptyInterruptedTerminal(a.view)
<1>3. /\ deferred' = DeferStateAfter(a.view)
      /\ row' = IF skip THEN row ELSE a.known
      /\ snap' = IF skip THEN snap ELSE a.view
      /\ settled' = IF isDeferrableInterruptedSnapshot(a.view) /\ a.view.turn \notin origin
                    THEN settled \cup {a.view.turn} ELSE settled
      /\ UNCHANGED <<codex, origin, explicit, steer, override,
                     texts, presses, faults, parallel, ranOut, wish>>
  BY DEF refreshThreadForOperation
<1>4. /\ a.view \in Views /\ a.known \in Rows /\ a.view.turn \in 0 .. MaxTurns
  BY <1>1, HandlerFields DEF Views
<1>5. a.view.turn # 0 => a.view.turn \in TurnIds
  BY <1>4, BoundsAssumption DEF TurnIds
<1>6. settled' \subseteq TurnIds /\ settled \subseteq settled'
  BY <1>0, <1>3, <1>5 DEF RestInv, HistoryOK, isDeferrableInterruptedSnapshot
<1>7. deferred' \in [TurnIds -> {"none", "waiting", "expired"}]
  BY <1>0, <1>3, <1>5 DEF RestInv, StoreOK, DeferStateAfter
<1>8. StoreOK'
  BY <1>0, <1>3, <1>4, <1>7 DEF RestInv, StoreOK
<1>9. \A t \in TurnIds : deferred'[t] = "expired" => t \in settled'
  <2>1. ASSUME NEW t \in TurnIds, deferred'[t] = "expired"
        PROVE  deferred[t] = "expired"
    BY <1>0, <1>3, <2>1 DEF RestInv, StoreOK, DeferStateAfter
  <2> QED
    BY <2>1, <1>0, <1>6 DEF RestInv, InterruptionExplained
<1>10. snap'.status = "interrupted" => snap'.turn \in explicit' \cup settled'
  <2>1. CASE skip
    BY <2>1, <1>0, <1>3, <1>6 DEF RestInv, InterruptionExplained
  <2>2. CASE ~skip /\ a.view.status = "interrupted"
    <3>1. isDeferrableInterruptedSnapshot(a.view) /\ a.view.turn \in TurnIds /\ snap' = a.view
      BY <2>2, <1>2, <1>3, <1>5 DEF ReadNamesTurn, isDeferrableInterruptedSnapshot
    <3>2. CASE a.view.turn \notin origin
      BY <3>1, <3>2, <1>3
    <3>3. CASE a.view.turn \in explicit
      BY <3>1, <3>3, <1>3
    <3>4. CASE a.view.turn \in origin \ explicit
      <4>1. deferred[a.view.turn] = "expired"
        BY <2>2, <3>1, <3>4 DEF decideTelegramOriginEmptyInterruptedTerminal
      <4> QED
        BY <4>1, <3>1, <1>0, <1>6 DEF RestInv, InterruptionExplained
    <3> QED
      BY <3>2, <3>3, <3>4
  <2>3. CASE ~skip /\ a.view.status # "interrupted"
    BY <2>3, <1>3
  <2> QED
    BY <2>1, <2>2, <2>3
<1>11. InterruptionExplained'
  BY <1>9, <1>10 DEF InterruptionExplained
<1>12. CountersOK' /\ faults' >= faults
  BY <1>0, <1>3 DEF RestInv, CountersOK
<1> QED
  BY <1>3, <1>6, <1>8, <1>11, <1>12, StoreStep

\* The other steps of the readers.
LEMMA ObserveRest ==
  ASSUME IInv, Observe
  PROVE  RestInv'
<1>0. RestInv
  BY DEF IInv, TypeOK, RestInv
<1>1. CASE pollTracked
  <2>1. UNCHANGED <<codex, store, texts, presses, faults, history>>
    BY <1>1 DEF pollTracked
  <2>2. turns' \in Seq(TurnStates) /\ Len(turns') <= MaxTurns /\ CountersOK'
    BY <1>0, <2>1 DEF RestInv, CodexOK, CountersOK, codex
  <2>3. texts' >= texts /\ faults' >= faults
    BY <1>0, <2>1 DEF RestInv, CountersOK
  <2> QED
    BY <2>1, <2>2, <2>3, QuietStep DEF codex
<1>2. ASSUME NEW t \in TurnIds, GraceExpires(t)
      PROVE  RestInv'
  <2>1. /\ deferred' = [deferred EXCEPT ![t] = "expired"]
        /\ settled' = settled \cup {t}
        /\ UNCHANGED <<codex, row, snap, origin, explicit, steer, override, act,
                       texts, presses, faults, parallel, ranOut, wish>>
    BY <1>2 DEF GraceExpires
  <2>2. StoreOK' /\ settled' \subseteq TurnIds /\ CountersOK' /\ faults' >= faults
    BY <1>0, <2>1 DEF RestInv, StoreOK, HistoryOK, CountersOK
  <2>3. InterruptionExplained'
    BY <1>0, <2>1 DEF RestInv, StoreOK, InterruptionExplained
  <2> QED
    BY <2>1, <2>2, <2>3, StoreStep
<1>3. ASSUME NEW t \in TurnIds, applyLiveToolSnapshot(t)
      PROVE  RestInv'
  <2>1. /\ snap' = [turn |-> t, status |-> "inProgress"]
        /\ row' = [status |-> "active", active |-> t]
        /\ UNCHANGED <<codex, origin, explicit, deferred, steer, override, act,
                       texts, presses, faults, history>>
    BY <1>3 DEF applyLiveToolSnapshot
  <2>2. snap' \in Views /\ row' \in Rows
    BY <2>1, BoundsAssumption DEF TurnIds, Views, Rows, Statuses
  <2>3. StoreOK' /\ settled' \subseteq TurnIds /\ CountersOK' /\ faults' >= faults
    BY <1>0, <2>1, <2>2 DEF RestInv, StoreOK, HistoryOK, CountersOK, history
  <2>4. InterruptionExplained'
    BY <1>0, <2>1 DEF RestInv, InterruptionExplained, history
  <2> QED
    BY <2>1, <2>3, <2>4, StoreStep DEF history
<1> QED
  BY <1>1, <1>2, <1>3, GateExplains DEF Observe

\* An attempt to steer.
LEMMA SteersRest ==
  ASSUME IInv, Steers
  PROVE  RestInv'
<1>0. RestInv /\ ActsOK
  BY DEF IInv, TypeOK, RestInv
<1>1. ASSUME NEW target \in 0 .. MaxTurns, NEW rung \in Attempts, TurnSteer(target, rung),
             rung = "armed" => target = steer,
             rung = "route" => target = act[Bot].route,
             rung = "active" => target = act[Bot].known.active,
             rung = "retry" => target = Latest
      PROVE  RestInv'
  <2>1. UNCHANGED <<turns, plan, row, snap, origin, explicit, deferred, override,
                    texts, presses, settled, parallel, wish>>
    BY <1>1 DEF TurnSteer
  <2>2. PICK k : k = act[Bot].text
    OBVIOUS
  <2>3. /\ steer' \in {steer, 0} /\ faults' \in {faults, faults + 1}
        /\ faults' > faults => texts + presses + faults < MaxEvents
        /\ \/ UNCHANGED heard
           \/ Arrives(k) /\ k \in 1 .. texts /\ heard[k] <= 1 /\ (heard[k] = 1 => k \in ranOut')
    BY <1>1, <2>2, SteerMoves
  <2>4. ranOut \subseteq ranOut' /\ ranOut' \subseteq Texts
    BY <1>0, <1>1, SteerMoves DEF RestInv, HistoryOK
  <2>5. StoreOK'
    BY <1>0, <2>1, <2>3, ZeroTyped DEF RestInv, StoreOK
  <2>6. CountersOK' /\ HistoryOK' /\ faults' >= faults
    BY <1>0, <2>1, <2>3, <2>4, BoundsAssumption DEF RestInv, CountersOK, HistoryOK
  <2>7. InterruptionExplained' /\ StopIsRemembered' /\ NoParallelTurn'
    BY <1>0, <2>1, <2>4 DEF RestInv, InterruptionExplained, StopIsRemembered, NoParallelTurn
  <2>8. CodexOK' /\ ArrivalsFit'
    <3>1. CASE UNCHANGED heard
      BY <1>0, <2>1, <2>4, <2>6, <3>1 DEF RestInv, CodexOK, ArrivalsFit, CountersOK
    <3>2. CASE Arrives(k) /\ k \in 1 .. texts /\ heard[k] <= 1 /\ (heard[k] = 1 => k \in ranOut')
      <4>1. k \in Texts /\ texts \in Nat /\ heard \in [Texts -> 0 .. 3] /\ faults' \in Nat
        BY <1>0, <2>6, <3>2, BoundsAssumption DEF RestInv, CodexOK, CountersOK, Texts
      <4>2. heard' = [heard EXCEPT ![k] = heard[k] + 1]
        BY <3>2 DEF Arrives
      <4>3. heard' \in [Texts -> 0 .. 3]
        BY <3>2, <4>1, <4>2
      <4>4. CodexOK'
        BY <1>0, <2>1, <4>3 DEF RestInv, CodexOK
      <4>5. \A j \in Texts : (j > texts => heard[j] = 0) /\ (heard[j] > 1 => j \in ranOut)
        BY <1>0 DEF RestInv, ArrivalsFit
      <4>6. ASSUME NEW j \in Texts
            PROVE  (j > texts' => heard'[j] = 0) /\ (heard'[j] > 1 => j \in ranOut')
        <5>1. CASE j = k
          BY <1>0, <2>1, <2>4, <2>6, <3>2, <4>1, <4>2, <5>1 DEF RestInv, CountersOK
        <5>2. CASE j # k
          BY <1>0, <2>1, <2>4, <2>6, <4>1, <4>2, <4>5, <5>2 DEF RestInv, CountersOK
        <5> QED
          BY <5>1, <5>2
      <4> QED
        BY <4>4, <4>6 DEF ArrivalsFit
    <3> QED
      BY <2>3, <3>1, <3>2
  <2> QED
    BY <2>5, <2>6, <2>7, <2>8 DEF RestInv
<1>2. act[Bot] \in Handlers
  BY <1>0, ActorNames DEF ActsOK
<1>3. /\ steer \in 0 .. MaxTurns /\ act[Bot].route \in 0 .. MaxTurns
      /\ act[Bot].known.active \in 0 .. MaxTurns /\ Latest \in 0 .. MaxTurns
  <2>1. act[Bot].route \in 0 .. MaxTurns /\ act[Bot].known \in Rows
    BY <1>2, HandlerFields
  <2>2. Latest \in 0 .. MaxTurns
    BY <1>0, BoundsAssumption DEF RestInv, CodexOK, Latest
  <2> QED
    BY <1>0, <2>1, <2>2 DEF RestInv, StoreOK, Rows
<1>4. "armed" \in Attempts /\ "route" \in Attempts /\ "active" \in Attempts /\ "retry" \in Attempts
  BY DEF Attempts
<1>5. CASE TurnSteer(steer, "armed")
  BY <1>1, <1>3, <1>4, <1>5
<1>6. CASE TurnSteer(act[Bot].route, "route")
  BY <1>1, <1>3, <1>4, <1>6
<1>7. CASE TurnSteer(act[Bot].known.active, "active")
  BY <1>1, <1>3, <1>4, <1>7
<1>8. CASE TurnSteer(Latest, "retry")
  BY <1>1, <1>3, <1>4, <1>8
<1> QED
  BY <1>5, <1>6, <1>7, <1>8 DEF Steers

\* A turn that reaches Codex for a text that may.
LEMMA TurnStartFits ==
  ASSUME IInv, NEW a, a = act[Bot], a.pc = "start", TurnStart(a), UNCHANGED <<texts, ranOut>>,
         faults' >= faults, CountersOK'
  PROVE  /\ CodexOK' /\ ArrivalsFit' /\ NoParallelTurn' /\ UNCHANGED parallel
         /\ plan' = (plan /\ ~override)
<1>0. RestInv /\ ActsOK /\ HandlersInv
  BY DEF IInv, TypeOK, RestInv
<1>1. HandlerInv(a) /\ Where(a) = "start" /\ Where(a) \in Handling
  BY <1>0 DEF HandlersInv, Where, Handling
<1>2. /\ a.text \in 1 .. texts /\ heard[a.text] <= 2
      /\ a.late => a.text \in ranOut
      /\ ~a.late => heard[a.text] = 0
  BY <1>1 DEF HandlerInv, TextFits
<1>3. ~(a.found # 0 /\ Works(a.found) /\ ~a.late)
  BY <1>1 DEF HandlerInv, FoundFits
<1>4. UNCHANGED parallel /\ NoParallelTurn'
  BY <1>0, <1>3 DEF TurnStart, RestInv, NoParallelTurn
<1>5. turns' \in Seq(TurnStates) /\ Len(turns') <= MaxTurns
  <2>1. Latest < MaxTurns /\ turns' = Append(turns, "running") /\ CodexOK
    BY <1>0 DEF TurnStart, RestInv
  <2> QED
    BY <2>1, NewTurn
<1>6. PICK k : k = a.text
  OBVIOUS
<1>7. /\ k \in Texts /\ texts \in Nat /\ heard \in [Texts -> 0 .. 3]
      /\ faults' \in Nat /\ faults \in Nat /\ k \in 1 .. texts
  BY <1>0, <1>2, <1>6, BoundsAssumption DEF RestInv, CodexOK, CountersOK, Texts
<1>8. heard' = [heard EXCEPT ![k] = heard[k] + 1]
  BY <1>6 DEF TurnStart, Arrives
<1>9. heard' \in [Texts -> 0 .. 3]
  BY <1>2, <1>6, <1>7, <1>8
<1>10. plan' = (plan /\ ~override) /\ plan' \in BOOLEAN
  BY DEF TurnStart
<1>11. CodexOK'
  BY <1>5, <1>9, <1>10 DEF CodexOK
<1>12. \A j \in Texts : (j > texts => heard[j] = 0) /\ (heard[j] > 1 => j \in ranOut)
  BY <1>0 DEF RestInv, ArrivalsFit
<1>13. heard[k] # 0 => k \in ranOut
  <2>1. a.late \in BOOLEAN
    BY <1>0, ActorNames, HandlerFields DEF ActsOK
  <2> QED
    BY <2>1, <1>2, <1>6
<1>14. ASSUME NEW j \in Texts
       PROVE  (j > texts' => heard'[j] = 0) /\ (heard'[j] > 1 => j \in ranOut')
  <2>1. CASE j = k
    BY <1>7, <1>8, <1>13, <2>1
  <2>2. CASE j # k
    BY <1>7, <1>8, <1>12, <2>2
  <2> QED
    BY <2>1, <2>2
<1> QED
  BY <1>4, <1>10, <1>11, <1>14 DEF ArrivalsFit

\* turn/start: with an answer, or without one.
LEMMA StartRest ==
  ASSUME IInv, StartTurn
  PROVE  RestInv'
<1>0. RestInv
  BY DEF IInv, TypeOK, RestInv
<1> PICK a : a = act[Bot]
  OBVIOUS
<1>1. a.pc = "start" /\ UNCHANGED <<row, snap, origin, explicit, deferred, texts, presses, settled, ranOut>>
  BY DEF StartTurn
<1>2. InterruptionExplained'
  BY <1>0, <1>1 DEF RestInv, InterruptionExplained
<1>3. CASE /\ TurnStart(a) /\ override' = FALSE /\ steer' = 0 /\ UNCHANGED faults
           /\ wish' = IF wish = "stopped" THEN "restarted" ELSE wish
  <2>1. CountersOK' /\ faults' >= faults
    BY <1>0, <1>1, <1>3 DEF RestInv, CountersOK
  <2>2. /\ CodexOK' /\ ArrivalsFit' /\ NoParallelTurn' /\ UNCHANGED parallel
        /\ plan' = (plan /\ ~override)
    BY <1>1, <1>3, <2>1, TurnStartFits
  <2>3. HistoryOK'
    BY <1>0, <1>1, <1>3, <2>2 DEF RestInv, HistoryOK
  <2>4. StoreOK'
    BY <1>0, <1>1, <1>3, ZeroTyped DEF RestInv, StoreOK
  <2>5. StopIsRemembered'
    BY <1>0, <1>3, <2>2 DEF RestInv, StopIsRemembered
  <2> QED
    BY <1>2, <2>1, <2>2, <2>3, <2>4, <2>5 DEF RestInv
<1>4. CASE /\ TurnStart(a) \/ UNCHANGED <<turns, plan, heard, parallel>>
           /\ IF a.late THEN UNCHANGED faults ELSE Fault(0)
           /\ UNCHANGED <<override, steer, wish>>
  <2>1. CountersOK' /\ faults' >= faults
    <3>1. UNCHANGED faults \/ Fault(0)
      BY <1>4
    <3> QED
      BY <3>1, <1>0, <1>1, FaultFits DEF RestInv, CountersOK
  <2>2. /\ CodexOK' /\ ArrivalsFit' /\ NoParallelTurn' /\ UNCHANGED parallel
        /\ plan' = plan \/ plan' = (plan /\ ~override)
    <3>1. CASE TurnStart(a)
      BY <1>1, <2>1, <3>1, TurnStartFits
    <3>2. CASE UNCHANGED <<turns, plan, heard, parallel>>
      BY <1>0, <1>1, <2>1, <3>2 DEF RestInv, CodexOK, ArrivalsFit, NoParallelTurn, CountersOK
    <3> QED
      BY <1>4, <3>1, <3>2
  <2>3. HistoryOK'
    BY <1>0, <1>1, <1>4, <2>2 DEF RestInv, HistoryOK
  <2>4. StoreOK'
    BY <1>0, <1>1, <1>4 DEF RestInv, StoreOK
  <2>5. StopIsRemembered'
    <3>1. UNCHANGED <<override, wish>>
      BY <1>4
    <3>2. plan' => plan
      BY <2>2, Zenon
    <3> QED
      BY <1>0, <3>1, <3>2 DEF RestInv, StopIsRemembered
  <2> QED
    BY <1>2, <2>1, <2>2, <2>3, <2>4, <2>5 DEF RestInv
<1> QED
  BY <1>3, <1>4 DEF StartTurn

\* The other steps of the bot.
LEMMA BotRest ==
  ASSUME IInv, BotStep
  PROVE  RestInv'
<1>0. RestInv /\ ActsOK /\ HandlersInv
  BY DEF IInv, TypeOK, RestInv
<1>a. act[Bot] \in Handlers
  BY <1>0, ActorNames DEF ActsOK
<1> PICK a \in Handlers : a = act[Bot]
  BY <1>a
<1>b. a.turn \in 0 .. MaxTurns /\ HandlerInv(a)
  BY <1>0, HandlerFields DEF HandlersInv
<1>c. ASSUME UNCHANGED <<texts, presses>>, UNCHANGED faults \/ Fault(0)
      PROVE  CountersOK' /\ texts' >= texts /\ faults' >= faults
  BY <1>0, <1>c, FaultFits DEF RestInv, CountersOK
<1>1. ASSUME NEW route \in 0 .. Latest, sendInputToThreadTurn(route)
      PROVE  RestInv'
  <2>1. /\ texts' = texts + 1 /\ texts < MaxTexts /\ texts + presses + faults < MaxEvents
        /\ UNCHANGED faults \/ Fault(1)
        /\ UNCHANGED <<codex, store, presses, history>>
    BY <1>1 DEF sendInputToThreadTurn
  <2>2. CountersOK' /\ texts' >= texts /\ faults' >= faults
    BY <1>0, <2>1, FaultFits, BoundsAssumption DEF RestInv, CountersOK
  <2>3. turns' \in Seq(TurnStates) /\ Len(turns') <= MaxTurns
    BY <1>0, <2>1 DEF RestInv, CodexOK, codex
  <2> QED
    BY <2>1, <2>2, <2>3, QuietStep DEF codex
<1>2. CASE RefreshAfterNoActive
  <2>1. UNCHANGED <<codex, store, texts, presses, history>> /\ (UNCHANGED faults \/ Fault(0))
    BY <1>2 DEF RefreshAfterNoActive
  <2>2. turns' \in Seq(TurnStates) /\ Len(turns') <= MaxTurns
    BY <1>0, <2>1 DEF RestInv, CodexOK, codex
  <2> QED
    BY <2>1, <2>2, <1>c, QuietStep DEF codex
<1>3. CASE markTelegramOriginTurn
  <2>1. /\ a.pc = "mark" /\ origin' = origin \cup {a.turn} /\ (UNCHANGED faults \/ Fault(0))
        /\ UNCHANGED <<codex, row, snap, explicit, deferred, steer, override,
                       texts, presses, history>>
    BY <1>3 DEF markTelegramOriginTurn
  <2>2. a.turn \in TurnIds
    BY <1>b, <2>1, BoundsAssumption DEF HandlerInv, MarksTurn, TurnIds
  <2>3. StoreOK' /\ settled' \subseteq TurnIds
    BY <1>0, <2>1, <2>2 DEF RestInv, StoreOK, HistoryOK, history
  <2>4. InterruptionExplained'
    BY <1>0, <2>1 DEF RestInv, InterruptionExplained, history
  <2> QED
    BY <2>1, <2>3, <2>4, <1>c, StoreStep DEF history
<1>4. CASE ensureStartedTurnSnapshot
  <2>1. /\ \/ UNCHANGED <<row, snap>>
           \/ /\ snap' = [turn |-> a.turn, status |-> "inProgress"]
              /\ row' = [status |-> "active", active |-> a.turn]
        /\ UNCHANGED <<codex, origin, explicit, deferred, steer, override,
                       texts, presses, faults, history>>
    BY <1>4 DEF ensureStartedTurnSnapshot
  <2>2. snap' \in Views /\ row' \in Rows
    BY <1>0, <1>b, <2>1 DEF RestInv, StoreOK, Views, Rows, Statuses
  <2>3. StoreOK' /\ settled' \subseteq TurnIds
    BY <1>0, <2>1, <2>2 DEF RestInv, StoreOK, HistoryOK, history
  <2>4. InterruptionExplained'
    BY <1>0, <2>1 DEF RestInv, InterruptionExplained, history
  <2> QED
    BY <2>1, <2>3, <2>4, <1>c, StoreStep DEF history
<1>5. CASE (\E t \in TurnIds : armSteer(t)) \/ resolveArmedSteer
  <2>1. /\ steer' = 0 \/ steer' \in TurnIds
        /\ presses' = presses \/ (presses' = presses + 1 /\ texts + presses + faults < MaxEvents)
        /\ UNCHANGED <<codex, row, snap, origin, explicit, deferred, override, texts,
                       faults, history>>
    BY <1>5 DEF armSteer, resolveArmedSteer
  <2>2. StoreOK'
    BY <1>0, <2>1, ZeroTyped, BoundsAssumption DEF RestInv, StoreOK, TurnIds
  <2>3. CountersOK'
    BY <1>0, <2>1, BoundsAssumption DEF RestInv, CountersOK
  <2>4. CodexOK' /\ HistoryOK' /\ InterruptionExplained' /\ ArrivalsFit'
    BY <1>0, <2>1 DEF RestInv, CodexOK, HistoryOK, InterruptionExplained, ArrivalsFit, codex,
       history
  <2>5. StopIsRemembered' /\ NoParallelTurn'
    BY <1>0, <2>1 DEF RestInv, StopIsRemembered, NoParallelTurn, codex, history
  <2> QED
    BY <2>2, <2>3, <2>4, <2>5 DEF RestInv
<1>6. CASE stopThread
  <2>1. /\ presses' = presses + 1 /\ texts + presses + faults < MaxEvents
        /\ override' = TRUE /\ wish' = "stopped" /\ (UNCHANGED faults \/ Fault(1))
        /\ UNCHANGED <<codex, row, snap, origin, explicit, deferred, steer, texts,
                       settled, parallel, ranOut>>
    BY <1>6 DEF stopThread, setDefaultOverride
  <2>2. StoreOK' /\ HistoryOK'
    BY <1>0, <2>1 DEF RestInv, StoreOK, HistoryOK
  <2>3. CountersOK' /\ faults' >= faults
    BY <1>0, <2>1, FaultFits, BoundsAssumption DEF RestInv, CountersOK
  <2>4. CodexOK' /\ InterruptionExplained'
    BY <1>0, <2>1 DEF RestInv, CodexOK, InterruptionExplained, codex
  <2>5. ArrivalsFit'
    BY <1>0, <2>1, <2>3 DEF RestInv, ArrivalsFit, CountersOK, CodexOK, codex
  <2>6. StopIsRemembered' /\ NoParallelTurn'
    BY <1>0, <2>1 DEF RestInv, StopIsRemembered, NoParallelTurn
  <2> QED
    BY <2>2, <2>3, <2>4, <2>5, <2>6 DEF RestInv
<1>7. CASE interruptTurn
  <2>1. /\ UNCHANGED <<plan, heard, store, texts, presses, history>>
        /\ UNCHANGED faults \/ Fault(0)
        /\ \/ UNCHANGED turns
           \/ /\ Works(Latest) \/ turns[Latest] = "answered"
              /\ turns' = [turns EXCEPT ![Latest] = "stopped"]
    BY <1>7 DEF interruptTurn
  <2>2. turns' \in Seq(TurnStates) /\ Len(turns') <= MaxTurns
    BY <1>0, <2>1 DEF RestInv, CodexOK, TurnStates
  <2> QED
    BY <2>1, <2>2, <1>c, QuietStep
<1>8. CASE markTelegramOriginExplicitInterrupt
  <2>1. /\ a.pc = "explicit" /\ explicit' = explicit \cup {a.turn}
        /\ UNCHANGED <<codex, row, snap, origin, deferred, steer, override,
                       texts, presses, faults, history>>
    BY <1>8 DEF markTelegramOriginExplicitInterrupt
  <2>2. a.turn \in TurnIds
    BY <1>b, <2>1, BoundsAssumption DEF HandlerInv, MarksTurn, TurnIds
  <2>3. StoreOK' /\ settled' \subseteq TurnIds
    BY <1>0, <2>1, <2>2 DEF RestInv, StoreOK, HistoryOK, history
  <2>4. InterruptionExplained'
    BY <1>0, <2>1 DEF RestInv, InterruptionExplained, history
  <2> QED
    BY <2>1, <2>3, <2>4, <1>c, StoreStep DEF history
<1> QED
  BY <1>1, <1>2, <1>3, <1>4, <1>5, <1>6, <1>7, <1>8, SteersRest, StartRest DEF BotStep

\* Every step keeps the invariant.
LEMMA NextIInv ==
  ASSUME IInv, [Next]_vars
  PROVE  IInv'
<1>0. RestInv
  BY DEF IInv, TypeOK, RestInv
<1>1. ActsOK' /\ HandlersInv'
  BY NextMoves
<1>2. RestInv'
  <2>1. CASE Codex
    <3>1. /\ turns' \in Seq(TurnStates) /\ Len(turns') <= MaxTurns
          /\ UNCHANGED <<plan, heard, store, act, texts, presses, faults, history>>
      BY <1>0, <2>1, CodexGrows DEF RestInv
    <3>2. CountersOK' /\ texts' >= texts /\ faults' >= faults
      BY <1>0, <3>1 DEF RestInv, CountersOK
    <3> QED
      BY <3>1, <3>2, QuietStep
  <2>2. CASE Dies
    <3>1. /\ Fault(0) /\ UNCHANGED <<plan, heard, store, texts, presses, history>>
          /\ UNCHANGED turns \/ turns' = [turns EXCEPT ![Latest] = "stopped"]
      BY <2>2 DEF Dies
    <3>2. CountersOK' /\ texts' >= texts /\ faults' >= faults
      BY <1>0, <3>1, FaultFits DEF RestInv, CountersOK
    <3>3. turns' \in Seq(TurnStates) /\ Len(turns') <= MaxTurns
      BY <1>0, <3>1 DEF RestInv, CodexOK, TurnStates
    <3> QED
      BY <3>1, <3>2, <3>3, QuietStep
  <2>3. CASE UNCHANGED vars
    <3>1. UNCHANGED <<codex, store, texts, presses, faults, history>>
      BY <2>3 DEF vars
    <3>2. CountersOK' /\ texts' >= texts /\ faults' >= faults
      BY <1>0, <3>1 DEF RestInv, CountersOK
    <3>3. turns' \in Seq(TurnStates) /\ Len(turns') <= MaxTurns /\ UNCHANGED <<plan, heard>>
      BY <1>0, <3>1 DEF RestInv, CodexOK, codex
    <3> QED
      BY <3>1, <3>2, <3>3, QuietStep
  <2> QED
    BY <2>1, <2>2, <2>3, ObserveRest, BotRest DEF Next
<1> QED
  BY <1>1, <1>2 DEF IInv, TypeOK, RestInv

\* Nothing has happened yet.
LEMMA InitIInv ==
  ASSUME Init
  PROVE  IInv
<1>1. CodexOK /\ CountersOK /\ HistoryOK
  BY BoundsAssumption DEF Init, CodexOK, CountersOK, HistoryOK, TurnStates
<1>2. StoreOK
  BY ZeroTyped DEF Init, StoreOK
<1>3. ActsOK
  BY IdleTyped DEF Init, ActsOK
<1>4. InterruptionExplained
  BY DEF Init, InterruptionExplained, NoView
<1>5. ArrivalsFit /\ StopIsRemembered /\ NoParallelTurn
  BY DEF Init, ArrivalsFit, StopIsRemembered, NoParallelTurn
<1>6. act[Poll] = Idle /\ act[Bot] = Idle
  BY ActorNames DEF Init
<1>7. PollOnlyReads /\ ReadNamesTurn(act[Poll]) /\ BotGoesOn
  BY <1>6, IdleTyped DEF PollOnlyReads, ReadNamesTurn, BotGoesOn, Where, NoView
<1>8. HandlerInv(Idle)
  BY IdleTyped DEF HandlerInv, ReadNamesTurn, AttemptHasTarget, MarksTurn, TextFits, FoundFits,
     Where, Handling, Attempts, NoView
<1> QED
  BY <1>1, <1>2, <1>3, <1>4, <1>5, <1>6, <1>7, <1>8 DEF IInv, TypeOK, HandlersInv

-----------------------------------------------------------------------------
(***************************************************************************)
(* The theorems.                                                           *)
(***************************************************************************)

\* The invariant holds in every state that texts, presses, reads of the thread, failed calls
\* and deaths of the daemon can lead to.
THEOREM Invariance == Spec => []IInv
BY InitIInv, NextIInv, PTL DEF Spec

\* ADR-012: whichever reader stores what it has read, a turn marked as Telegram's is stored as
\* interrupted only after Stop, after its grace, or when it was interrupted before its mark.
THEOREM GateIsSafe == Spec => []GateInv
<1>1. IInv => GateInv
  BY DEF IInv, InterruptionExplained, GateInv, GateHolds
<1> QED
  BY <1>1, Invariance, PTL

\* Of the attempts to hand over a text only one takes it, unless an earlier attempt at the same
\* text was not answered in time.
THEOREM OneAttemptTakesIt == Spec => []TextArrivesOnce
<1>1. IInv => TextArrivesOnce
  BY DEF IInv, ArrivalsFit, TextArrivesOnce
<1> QED
  BY <1>1, Invariance, PTL

\* A text that found a turn running does not start another one next to it.
THEOREM NoneInParallel == Spec => []NoParallelTurn
<1>1. IInv => NoParallelTurn
  BY DEF IInv
<1> QED
  BY <1>1, Invariance, PTL

\* The first turn that Telegram starts after Stop is not in Plan mode.
THEOREM StopIsHonoured == Spec => []StopLeavesPlanMode
<1>1. IInv => StopLeavesPlanMode
  BY DEF IInv, StopIsRemembered, StopLeavesPlanMode
<1> QED
  BY <1>1, Invariance, PTL

=============================================================================
