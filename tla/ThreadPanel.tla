---------------------------- MODULE ThreadPanel ----------------------------
(***************************************************************************)
(* The legacy profile's panel of one thread in one chat: cards that show   *)
(* a running turn and are edited in place, the final card that replaces    *)
(* them, and the Details button of a final card.                           *)
(*                                                                         *)
(* Several goroutines sync the panel: the poll loop and the event loop     *)
(* after they have stored a new snapshot, and the bot after a message or   *)
(* a button.  Each loads the snapshot first and takes panelMu afterwards,  *)
(* so it may work with a snapshot that is no longer the stored one.        *)
(* Taking panelMu is one action and what happens under it another: a       *)
(* pipeline over a record that counts the Telegram calls, of which one may *)
(* fail or be the last before the process dies.  Two things take no lock:  *)
(* a press of Details, and the mark of a turn as Telegram's own, which may *)
(* become visible to a running sync between any two of its calls.          *)
(*                                                                         *)
(* Of the messages in the chat the live and the final cards are kept.  For *)
(* the notices and the [Tool] and [Output] cards, which are sent, edited   *)
(* and deleted next to each other (one card, "work", stands for both), the *)
(* row says whether they are there.  The [Plan] card of a turn that waits  *)
(* for an answer is left out.                                              *)
(***************************************************************************)
EXTENDS Naturals, Sequences, FiniteSets

CONSTANTS
  Loops,       \* goroutines that poll or listen
  Bot,         \* the goroutine that handles Telegram updates
  PanelMode,   \* panelMode: "per_run" or "stable"
  MaxTurns,    \* bound: turns of the thread
  MaxEvents    \* bound: presses of Show, Stop, Details and Observe, failed Telegram
               \* calls and deaths of the daemon, together

ASSUME BoundsAssumption ==
  /\ PanelMode \in {"per_run", "stable"}
  /\ MaxTurns \in Nat /\ MaxEvents \in Nat
  /\ Bot \notin Loops

VARIABLES
  latest,     \* Codex: what a read of the thread says about its latest turn
  snap,       \* thread_snapshots: the stored view of the latest turn
  observing,  \* the global observer target is this chat
  origin,     \* turns marked turn_origin.telegram
  panels,     \* thread_panels of this chat and thread; the last one is current
  chat,       \* the live and final cards ever sent
  act,        \* what each goroutine is about to do
  press,      \* Details presses between their check and their edit
  presses, faults,
  replayed    \* history: turns whose final was recorded as told without a card

vars == <<latest, snap, observing, origin, panels, chat, act, press,
          presses, faults, replayed>>

Actors == Loops \cup {Bot}
TurnIds == 1 .. MaxTurns
Modes == {"observer", "telegram", "explicit"}

\* user: the read has the prompt and the work that follows it; final: it has the answer.
Views == [turn : TurnIds, status : {"inProgress", "interrupted", "completed"},
          user : BOOLEAN, final : BOOLEAN]
NoView == [turn |-> 0, status |-> "none", user |-> FALSE, final |-> FALSE]

\* marked: was the turn of the view marked when panelMu was taken?
Idle == [pc |-> "idle", view |-> NoView, mode |-> "observer", force |-> FALSE, marked |-> FALSE]
SyncOf(v, mode, force) == [pc |-> "sync", view |-> v, mode |-> mode, force |-> force, marked |-> FALSE]

isTerminalStatus(status) == status \in {"completed", "interrupted"}
Running == latest.status = "inProgress"

ThreadOK ==
  /\ latest \in Views \cup {NoView} /\ snap \in Views \cup {NoView}
  /\ observing \in BOOLEAN
  /\ origin \subseteq TurnIds

PanelsOK ==
  panels \in Seq([turn : TurnIds, status : {"inProgress", "interrupted", "completed"},
                  mode : Modes, live : 1 .. Len(chat), work : BOOLEAN, run : BOOLEAN,
                  user : BOOLEAN, runFP : [turn : 0 .. MaxTurns, mode : Modes],
                  userFP : 0 .. MaxTurns, finalFP : 0 .. MaxTurns,
                  shown : Views, card : {"live", "final"}])

CardsOK ==
  chat \in Seq([kind : {"live", "final"}, of : TurnIds, row : 0 .. Len(panels), turn : TurnIds,
                shows : {"live", "final", "details", "gone"}])

ActOK ==
  act \in [Actors -> [pc : {"idle", "sync", "locked", "mark"}, view : Views \cup {NoView},
                      mode : Modes, force : BOOLEAN, marked : BOOLEAN]]

PressOK ==
  press \subseteq [msg : DOMAIN chat, row : DOMAIN panels, turn : TurnIds,
                   to : {"details", "final"}]

BoundsOK ==
  /\ presses \in 0 .. MaxEvents /\ faults \in 0 .. MaxEvents
  /\ replayed \subseteq TurnIds

TypeOK == ThreadOK /\ PanelsOK /\ CardsOK /\ ActOK /\ PressOK /\ BoundsOK

Init ==
  /\ latest = NoView /\ snap = NoView
  /\ observing = TRUE /\ origin = {}
  /\ panels = <<>> /\ chat = <<>>
  /\ act = [a \in Actors |-> Idle] /\ press = {}
  /\ presses = 0 /\ faults = 0 /\ replayed = {}

-----------------------------------------------------------------------------
(* Codex.  A turn first shows only its number; an interruption may be      *)
(* provisional, and the turn completes after all.                          *)

Becomes(v) ==
  /\ latest' = v
  /\ UNCHANGED <<snap, observing, origin, panels, chat, act, press, presses, faults, replayed>>

NewView(t) == [turn |-> t, status |-> "inProgress", user |-> FALSE, final |-> FALSE]

StartAtPC ==
  /\ latest.turn < MaxTurns /\ ~Running
  /\ latest' = NewView(latest.turn + 1)
  /\ UNCHANGED <<snap, observing, origin, panels, chat, act, press, presses, faults, replayed>>

Prompted ==
  /\ ~latest.user /\ latest.status = "inProgress"
  /\ Becomes([latest EXCEPT !.user = TRUE])

Completes ==
  /\ latest.status \in {"inProgress", "interrupted"}
  /\ Becomes([latest EXCEPT !.status = "completed", !.user = TRUE, !.final = TRUE])

IsInterrupted ==
  /\ latest.status = "inProgress"
  /\ Becomes([latest EXCEPT !.status = "interrupted"])

Codex == StartAtPC \/ Prompted \/ Completes \/ IsInterrupted

-----------------------------------------------------------------------------
(* Calls to Telegram.  A sync s carries the rows, the messages, the number  *)
(* of calls made, and which call is to fail: the call did nothing ("lost"), *)
(* it worked and its answer was lost ("unsure"), or the daemon died right   *)
(* after it ("die").  It also carries the number of calls after which the   *)
(* turn is marked as Telegram's own.                                        *)

Faults == [at : 1 .. 9, how : {"lost", "unsure", "die"}]
NoFault == [at |-> 0, how |-> "lost"]

Never == 10
Begin(f, mark, marked) ==
  [rows |-> panels, chat |-> chat, n |-> 0, fault |-> f, mark |-> mark, marked |-> marked,
   err |-> FALSE, dead |-> FALSE, quiet |-> {}]

Runs(s) == ~s.err /\ ~s.dead

Call(s, effect) ==
  LET here == s.n + 1 = s.fault.at
  IN  IF ~Runs(s) THEN s
      ELSE [s EXCEPT !.n = @ + 1,
                     !.chat = IF here /\ s.fault.how = "lost" THEN @ ELSE effect,
                     !.err = here /\ s.fault.how # "die",
                     !.dead = here /\ s.fault.how = "die"]

\* row is the panel that the buttons of a final card name.
SendCard(s, kind, row, v) ==
  Call(s, Append(s.chat, [kind |-> kind, of |-> v.turn, row |-> row, turn |-> v.turn, shows |-> kind]))

\* A message that the row only remembers.
Send(s) == Call(s, s.chat)

\* Telegram refuses to edit a deleted message.
Edit(s, m, turn, as) ==
  IF Runs(s) /\ s.chat[m].shows = "gone" THEN [s EXCEPT !.err = TRUE]
  ELSE Call(s, [s.chat EXCEPT ![m].turn = turn, ![m].shows = as])

EditIf(s, there) == IF Runs(s) /\ ~there THEN [s EXCEPT !.err = TRUE] ELSE Call(s, s.chat)

\* The result of a deletion is ignored.
Delete(s, m) ==
  IF ~Runs(s) THEN s
  ELSE [Call(s, [s.chat EXCEPT ![m].shows = "gone"]) EXCEPT !.err = FALSE]

Ignored(s) == [s EXCEPT !.err = FALSE]
Stored(s, row) == IF Runs(s) THEN [s EXCEPT !.rows[Len(s.rows)] = row] ELSE s
Current(s) == s.rows[Len(s.rows)]

-----------------------------------------------------------------------------
(* What a sync sends and edits.                                             *)

shouldSendRunNotice(mode, v) ==
  \/ mode = "telegram"
  \/ mode = "observer" /\ (v.user \/ ~isTerminalStatus(v.status))

shouldSendUserRequestNotice(mode, v) == v.user /\ mode # "telegram"

shouldSendUserPlaceholder(mode, v) ==
  mode = "observer" /\ ~v.user /\ ~isTerminalStatus(v.status)

isTelegramOriginTurn(s) == s.mark <= s.n

NoticeDespiteOrigin(s, mode, v) == shouldSendUserRequestNotice(mode, v)
sendsUserNotice(s, mode, v) == shouldSendUserRequestNotice(mode, v) /\ ~isTelegramOriginTurn(s)

RunFP(v, mode) == [turn |-> v.turn, mode |-> mode]

\* A row that is no longer current is read only by a press of Details: of the rest of
\* it nothing is kept.
Retired(rows) ==
  [r \in DOMAIN rows |->
     [rows[r] EXCEPT !.mode = "observer", !.status = "completed", !.work = FALSE, !.run = FALSE,
                     !.user = FALSE, !.runFP = RunFP(NoView, "observer"), !.userFP = 0,
                     !.shown = NewView(1), !.card = "live"]]

CreateThreadPanel(s, row) == [s EXCEPT !.rows = Append(Retired(@), row)]

createCurrentPanel(s, v, mode) ==
  LET run == shouldSendRunNotice(mode, v)
      s1 == IF run THEN Send(s) ELSE s
      user == sendsUserNotice(s1, mode, v)
      placeholder == shouldSendUserPlaceholder(mode, v) /\ ~isTelegramOriginTurn(s1)
      s2 == IF user \/ placeholder THEN Send(s1) ELSE s1
      s3 == Send(SendCard(s2, "live", 0, v))
  IN  IF ~Runs(s3) THEN s3
      ELSE CreateThreadPanel(s3,
             [turn |-> v.turn, status |-> v.status, mode |-> mode,
              live |-> Len(s3.chat), work |-> TRUE,
              run |-> run, user |-> user \/ placeholder,
              runFP |-> IF run THEN RunFP(v, mode) ELSE RunFP(NoView, mode),
              userFP |-> IF user THEN v.turn ELSE 0,
              finalFP |-> 0, shown |-> v, card |-> "live"])

\* A failed edit of a notice is only logged.
maybeUpdateRunNotice(s, v) ==
  LET row == Current(s)
      e == EditIf(s, row.run)
  IN  IF \/ ~Runs(s) \/ ~row.run \/ ~shouldSendRunNotice(row.mode, v)
         \/ isTerminalStatus(v.status) \/ row.runFP = RunFP(v, row.mode)
      THEN s
      ELSE IF Runs(e) THEN Stored(e, [row EXCEPT !.runFP = RunFP(v, row.mode)])
      ELSE Ignored(e)

maybeSendUserRequestNotice(s, v) ==
  LET row == Current(s)
      e == Send(s)
      told == [row EXCEPT !.user = TRUE, !.userFP = v.turn]
  IN  IF \/ ~Runs(s) \/ row.userFP = v.turn \/ ~sendsUserNotice(s, row.mode, v)
         \/ row.mode = "observer" /\ ~row.user
      THEN s
      ELSE IF row.user /\ ~Runs(e) THEN Ignored(e) ELSE Stored(e, told)

\* The live card has a running clock, so it changes with every sync of a running turn.
LiveCardChanged(row, v) == v # row.shown \/ row.card = "final" \/ ~isTerminalStatus(v.status)

WorkCardChanged(row, v) == v.turn # row.shown.turn \/ v.user # row.shown.user

updateCurrentPanel(s, v) ==
  LET s1 == maybeSendUserRequestNotice(maybeUpdateRunNotice(s, v), v)
      row == Current(s1)
      s2 == IF LiveCardChanged(row, v) THEN Edit(s1, row.live, v.turn, "live") ELSE s1
      s3 == IF WorkCardChanged(row, v) THEN EditIf(s2, row.work) ELSE s2
  IN  Stored(s3, [row EXCEPT !.turn = v.turn, !.status = v.status, !.shown = v, !.card = "live"])

DeleteRun(s) == IF Runs(s) /\ Current(s).run THEN Ignored(Call(s, s.chat)) ELSE s

DeleteWork(s) ==
  LET d == Call(s, s.chat)
  IN  IF ~Runs(s) \/ (d.err /\ s.fault.how = "lost") THEN Ignored(d)
      ELSE [Ignored(d) EXCEPT !.rows[Len(s.rows)].work = FALSE]

hasFinal(v) == isTerminalStatus(v.status) /\ v.final

FinalRow(row, m, v) ==
  [row EXCEPT !.live = m, !.turn = v.turn, !.status = v.status, !.shown = v,
              !.card = "final", !.finalFP = v.turn]

FinalStoredFirst(s, v) ==
  LET row == Current(s)
      r == Len(s.rows)
      marked == [s EXCEPT !.rows[r].finalFP = v.turn]
      sent == SendCard(marked, "final", r, v)
      kept == Stored(sent, FinalRow(row, Len(sent.chat), v))
  IN  IF ~Runs(s) \/ ~hasFinal(v) \/ row.finalFP = v.turn THEN s
      ELSE DeleteWork(DeleteRun(Delete(kept, row.live)))

FinalDeletesFirst(s, v) ==
  LET row == Current(s)
      r == Len(s.rows)
      sent == SendCard(Delete(s, row.live), "final", r, v)
      kept == Stored(sent, FinalRow(row, Len(sent.chat), v))
  IN  IF ~Runs(s) \/ ~hasFinal(v) \/ row.finalFP = v.turn THEN s
      ELSE DeleteWork(DeleteRun(kept))

FinalWithoutFP(s, v) ==
  LET row == Current(s)
      r == Len(s.rows)
      sent == SendCard(s, "final", r, v)
      kept == Stored(sent, [FinalRow(row, Len(sent.chat), v) EXCEPT !.finalFP = row.finalFP])
  IN  IF ~Runs(s) \/ ~hasFinal(v) \/ row.finalFP = v.turn THEN s
      ELSE DeleteWork(DeleteRun(Delete(kept, row.live)))

maybeRenderFinalCard(s, v) ==
  LET row == Current(s)
      r == Len(s.rows)
      sent == SendCard(s, "final", r, v)
      kept == Stored(sent, FinalRow(row, Len(sent.chat), v))
  IN  IF ~Runs(s) \/ ~hasFinal(v) \/ row.finalFP = v.turn THEN s
      ELSE DeleteWork(DeleteRun(Delete(kept, row.live)))

-----------------------------------------------------------------------------
(* One sync under panelMu.                                                  *)

samePanelTurn(v) == panels # <<>> /\ panels[Len(panels)].turn = v.turn

panelNeedsRefresh(row, v) ==
  PanelMode = "per_run" /\ row.turn # v.turn /\ isTerminalStatus(row.status)

\* The observer opens no first panel for a turn that ended before the catch-up window.
mayCreate(v, mode, recent) ==
  panels # <<>> \/ mode # "observer" \/ ~isTerminalStatus(v.status) \/ recent

ensureCurrentPanel(s, v, mode, forceNew) ==
  LET s1 == IF forceNew \/ panels = <<>> \/ panelNeedsRefresh(panels[Len(panels)], v)
            THEN createCurrentPanel(s, v, mode) ELSE s
      row == Current(s1)
  IN  IF Runs(s1) /\ mode = "telegram" /\ row.turn = v.turn
      THEN Stored(s1, [row EXCEPT !.mode = "telegram"]) ELSE s1

isLegacyTerminalReplay(row, v) ==
  /\ ~row.run /\ ~row.user /\ row.mode = "observer"
  /\ row.finalFP = 0 /\ row.turn = v.turn
  /\ isTerminalStatus(row.status) /\ hasFinal(v)

NeverProtected(s, v, mode) == FALSE

\* Decided before the first call.
protectTelegramOriginPanel(s, v, mode) ==
  /\ mode = "observer" /\ samePanelTurn(v) /\ s.marked
  /\ panels[Len(panels)].mode = "telegram"

updateOrRecreate(s, v, mode) ==
  LET u == updateCurrentPanel(s, v)
  IN  IF u.dead \/ ~u.err \/ protectTelegramOriginPanel(s, v, mode) THEN u
      ELSE LET c == createCurrentPanel(Ignored(u), v, mode)
           IN  IF Runs(c) THEN updateCurrentPanel(c, v) ELSE c

syncThreadPanelToTarget(s0, v, mode, force, recent) ==
  LET forceNew == /\ force /\ PanelMode # "stable"
                  /\ ~(mode = "telegram" /\ samePanelTurn(v))
      s == ensureCurrentPanel(s0, v, mode, forceNew)
      row == Current(s)
  IN  IF ~mayCreate(v, mode, recent) THEN s0
      ELSE IF ~Runs(s) \/ (hasFinal(v) /\ row.finalFP = v.turn) THEN s
      ELSE IF samePanelTurn(v) /\ isLegacyTerminalReplay(row, v)
      THEN [Stored(s, [row EXCEPT !.finalFP = v.turn]) EXCEPT !.quiet = {v.turn}]
      ELSE IF hasFinal(v)
      THEN maybeRenderFinalCard(maybeSendUserRequestNotice(s, v), v)
      ELSE updateOrRecreate(s, v, mode)

\* The sync has the lock, and with it the panel that it will find.
LockPanel(p) ==
  /\ act[p].pc = "sync" /\ \A q \in Actors : act[q].pc # "locked"
  /\ act' = [act EXCEPT ![p].pc = "locked", ![p].marked = act[p].view.turn \in origin]
  /\ UNCHANGED <<latest, snap, observing, origin, panels, chat, press, presses, faults, replayed>>

\* After how many of its calls does the sync see the turn marked?
Marks(p) ==
  IF act[p].marked THEN {0} ELSE IF act[p].view.turn \in origin THEN 0 .. Never - 1 ELSE {Never}

\* A death takes every goroutine with it.
Sync(p) ==
  /\ act[p].pc = "locked"
  /\ \E f \in IF presses + faults < MaxEvents THEN Faults \cup {NoFault} ELSE {NoFault},
        mark \in Marks(p), recent \in IF panels = <<>> THEN BOOLEAN ELSE {TRUE} :
       \E s \in {syncThreadPanelToTarget(Begin(f, mark, act[p].marked),
                                         act[p].view, act[p].mode, act[p].force, recent)} :
         /\ s.n >= f.at
         /\ panels' = s.rows /\ chat' = s.chat
         /\ replayed' = replayed \cup s.quiet
         /\ faults' = IF f = NoFault THEN faults ELSE faults + 1
         /\ act' = IF s.dead THEN [a \in Actors |-> Idle] ELSE [act EXCEPT ![p] = Idle]
         /\ press' = IF s.dead THEN {} ELSE press
  /\ UNCHANGED <<latest, snap, observing, origin, presses>>

-----------------------------------------------------------------------------
(* The poll loop and the event loop.                                        *)

snapshotHasPassiveChange(v) ==
  IF snap = NoView THEN ~isTerminalStatus(v.status)
  ELSE \/ v.turn # snap.turn
       \/ v.user /\ ~snap.user
       \/ v.final /\ ~snap.final
       \/ isTerminalStatus(v.status) /\ v.status # snap.status

\* The thread changed within the catch-up window and since the stored snapshot.
threadNeedsCatchupPolling(recent) == recent /\ snap # latest

threadNeedsLiveSync == panels # <<>> /\ ~isTerminalStatus(panels[Len(panels)].status)

\* The snapshot is loaded here, with its store, and used in Sync, under panelMu.
\* The sync goes to the observer's chat, or to the chat of a panel of another source.
syncThreadPanel(p) ==
  LET own == {panels[r].mode : r \in DOMAIN panels \cap {Len(panels)}} \ {"observer"}
      modes == IF observing THEN {"observer"} ELSE own
  IN  IF modes = {} THEN UNCHANGED act
      ELSE \E mode \in modes : act' = [act EXCEPT ![p] = SyncOf(snap', mode, FALSE)]

Observe(p) ==
  /\ act[p] = Idle
  /\ latest # NoView /\ (snap # latest \/ threadNeedsLiveSync)
  /\ snap' = latest
  /\ \E recent \in BOOLEAN :
       IF \/ threadNeedsCatchupPolling(recent) \/ threadNeedsLiveSync
          \/ snapshotHasPassiveChange(latest)
       THEN syncThreadPanel(p) ELSE UNCHANGED act
  /\ UNCHANGED <<latest, observing, origin, panels, chat, press, presses, faults, replayed>>

-----------------------------------------------------------------------------
(* The bot.                                                                 *)

\* turn/start from Telegram; the turn is marked after the call has returned.
sendInputToThread ==
  /\ act[Bot] = Idle /\ latest.turn < MaxTurns /\ ~Running
  /\ latest' = NewView(latest.turn + 1)
  /\ act' = [act EXCEPT ![Bot].pc = "mark", ![Bot].view = latest']
  /\ UNCHANGED <<snap, observing, origin, panels, chat, press, presses, faults, replayed>>

markTelegramOriginTurn ==
  /\ act[Bot].pc = "mark"
  /\ origin' = origin \cup {act[Bot].view.turn}
  /\ snap' = latest
  /\ act' = [act EXCEPT ![Bot] = SyncOf(snap', "telegram", TRUE)]
  /\ UNCHANGED <<latest, observing, panels, chat, press, presses, faults, replayed>>

showThread ==
  /\ act[Bot] = Idle /\ latest # NoView /\ presses + faults < MaxEvents
  /\ presses' = presses + 1
  /\ snap' = latest
  /\ act' = [act EXCEPT ![Bot] = SyncOf(snap', "explicit", TRUE)]
  /\ UNCHANGED <<latest, observing, origin, panels, chat, press, faults, replayed>>

stopThread ==
  /\ act[Bot] = Idle /\ latest.status = "inProgress" /\ presses + faults < MaxEvents
  /\ presses' = presses + 1
  /\ latest' = [latest EXCEPT !.status = "interrupted"]
  /\ snap' = latest'
  /\ act' = [act EXCEPT ![Bot] = SyncOf(snap', "explicit", FALSE)]
  /\ UNCHANGED <<observing, origin, panels, chat, press, faults, replayed>>

SetGlobalObserverTarget ==
  /\ act[Bot] = Idle /\ presses + faults < MaxEvents
  /\ presses' = presses + 1
  /\ observing' = ~observing
  /\ UNCHANGED <<latest, snap, origin, panels, chat, act, press, faults, replayed>>

-----------------------------------------------------------------------------
(* The Details button of a final card, and Back.  The press carries the row *)
(* and the turn the button was made for; the check and the edit are not     *)
(* under panelMu, and the card may have been edited since it was pressed.   *)

detailsPanelForCallback(m, r) == panels[r].live = m /\ panels[r].turn = chat[m].of

\* The turn of the panel, taken out of the stored thread, whatever its latest turn is.
LatestTurn(r) == snap.turn
snapshotForPanelTurn(r) == panels[r].turn

PressDetails(m) ==
  LET r == chat[m].row
  IN  /\ chat[m].kind = "final" /\ chat[m].shows # "gone"
      /\ presses + faults < MaxEvents /\ r \in DOMAIN panels
      /\ detailsPanelForCallback(m, r)
      /\ panels[r].turn <= snap.turn
      /\ \E to \in {"details", "final"} :
           press' = press \cup {[msg |-> m, row |-> r, turn |-> snapshotForPanelTurn(r), to |-> to]}
      /\ presses' = presses + 1
      /\ UNCHANGED <<latest, snap, observing, origin, panels, chat, act, faults, replayed>>

editPanelCard(d) ==
  /\ chat' = IF chat[d.msg].shows = "gone" THEN chat
             ELSE [chat EXCEPT ![d.msg].turn = d.turn, ![d.msg].shows = d.to]
  /\ press' = press \ {d}
  /\ UNCHANGED <<latest, snap, observing, origin, panels, act, presses, faults, replayed>>

Details == (\E m \in DOMAIN chat : PressDetails(m)) \/ (\E d \in press : editPanelCard(d))

-----------------------------------------------------------------------------

Next ==
  \/ Codex
  \/ \E p \in Loops : Observe(p)
  \/ \E p \in Actors : LockPanel(p) \/ Sync(p)
  \/ sendInputToThread \/ markTelegramOriginTurn \/ showThread \/ stopThread
  \/ SetGlobalObserverTarget
  \/ Details

\* The steps of Next that do this are the Sync steps of p, and the deaths of the daemon.
Finishes(p) ==
  act[p].pc = "locked" /\ act' \in {[act EXCEPT ![p] = Idle], [a \in Actors |-> Idle]}

\* The loops run on timers; every sync that begins gets the mutex, which starves nobody, and
\* finishes.
Spec == /\ Init /\ [][Next]_vars
        /\ \A p \in Loops : WF_vars(Observe(p))
        /\ \A p \in Actors : SF_vars(LockPanel(p)) /\ WF_act(Finishes(p))

-----------------------------------------------------------------------------

Finals(r) == {m \in DOMAIN chat : chat[m].kind = "final" /\ chat[m].row = r}

\* A final card that repeats the one that its panel sent last.
Repeated(m) ==
  /\ chat[m].kind = "final"
  /\ \E k \in Finals(chat[m].row) :
       /\ k < m /\ chat[k].of = chat[m].of
       /\ \A j \in Finals(chat[m].row) : j <= k \/ m <= j

\* last_final_notice_fp stops every later sync from sending the answer: a panel that
\* records the answer of its turn has sent it, whichever Telegram call failed (except the
\* answers that panels.go:113 records without a card); and it does not send the answer again
\* before another one, except that each such repetition has its own failed call or death.
FinalsSentOnce ==
  /\ \A r \in DOMAIN panels :
       \/ panels[r].finalFP \in {0} \cup replayed
       \/ \E m \in Finals(r) : chat[m].of = panels[r].finalFP
  /\ Cardinality({m \in DOMAIN chat : Repeated(m)}) <= faults

\* The message a panel edits is still in the chat: the old live card is deleted only when
\* the row points to the final card.
CardOnScreen ==
  \A r \in DOMAIN panels : chat[panels[r].live].shows # "gone"

\* Rows and cards are well typed, and each row has the card that it edits.
PanelInv == TypeOK /\ CardOnScreen

\* CHANGELOG.md:72: Details shows the run its final card was sent for, though the row
\* may have moved on to another turn when the press arrives.
DetailsShowItsRun ==
  \A m \in DOMAIN chat : chat[m].shows = "details" => chat[m].turn = chat[m].of

\* Is a sync of turn t under way that took panelMu before t was marked as Telegram's own?
LockedBeforeMark(t) == \E p \in Actors : act[p].pc = "locked" /\ act[p].view.turn = t /\ ~act[p].marked

\* Once a turn is marked as started from Telegram, no sync repeats the user's own text to
\* the chat it came from, except the one that was under way when the mark was set.
OwnTextNotEchoed ==
  [][\A r \in DOMAIN panels' :
       LET fp == panels'[r].userFP IN
       fp \in origin => (r \in DOMAIN panels /\ panels[r].userFP = fp) \/ LockedBeforeMark(fp)]_vars

\* When the observer cannot edit the panel of a turn started from Telegram it leaves it
\* alone; it does not put a panel of its own in its place, unless the turn was marked while
\* its sync was under way.
TelegramPanelKept ==
  [][\A r \in DOMAIN panels :
       (/\ r = Len(panels) /\ Len(panels') > r /\ panels[r].mode = "telegram"
        /\ panels[r].turn \in origin /\ ~LockedBeforeMark(panels[r].turn))
       => LET new == panels'[Len(panels')]
          IN  new.mode # "observer" \/ new.turn # panels[r].turn]_vars

Told(t) == \E m \in DOMAIN chat : chat[m].kind = "final" /\ chat[m].of = t

MovedOn(t) ==
  \E r \in DOMAIN panels :
    /\ r = Len(panels)
    /\ panels[r].turn # t \/ panels[r].status = "interrupted" \/ panels[r].mode = "explicit"

\* A panel does not show an answered turn as running for ever, whichever call failed: the
\* answer is sent, unless the observer is switched off, Show puts a panel of its own in
\* its place, or the panel moves on to another turn or to an interruption that it takes
\* for the end of this one.  (A panel whose row says that the turn has ended sends the
\* answer once and does not retry, or, panels.go:113, does not send it.)
RunningPanelGetsFinal ==
  \A t \in TurnIds :
    (/\ threadNeedsLiveSync /\ panels[Len(panels)].turn = t
     /\ latest.turn = t /\ hasFinal(latest) /\ observing)
    ~> (Told(t) \/ t \in replayed \/ MovedOn(t) \/ ~observing)

=============================================================================
