------------------------------ MODULE ChatInput ------------------------------
(***************************************************************************)
(* What the owner of the minimal profile sends, and what becomes of it: the*)
(* bot's loop over Telegram's updates, whose offset is kept in memory only,*)
(* texts and replies, the pickers of working folder and conversation, and  *)
(* voice commands that run once their transcript has been confirmed.       *)
(*                                                                         *)
(* One chat.  The bot handles one update after the other; a handler makes  *)
(* one write to the database or one call to Telegram or Codex per step,    *)
(* unless nothing can tell the steps apart, and the daemon may die between *)
(* any two.  What happens to a command once its conversation is known is   *)
(* the subject of LinkedHandoff: here it is run there, refused or queued.  *)
(* Calls to the database succeed.                                          *)
(***************************************************************************)
EXTENDS Naturals, Sequences, FiniteSets, SequencesExt

CONSTANTS
  Projects,     \* the registered working folders
  None,         \* no working folder
  Home,         \* the working folders of the conversations that exist at first
  PageSize,     \* conversations on a page of the picker (8 in the code)
  MaxUpdates,   \* bound: what the owner sends
  MaxFaults     \* bound: failed calls, deaths of the daemon, conversations moved or deleted,
                \* and spells of ten minutes

ASSUME InputAssumption ==
  /\ IsFiniteSet(Projects) /\ None \notin Projects
  /\ Home \in Seq(Projects) /\ Home # <<>>
  /\ PageSize \in Nat \ {0} /\ MaxUpdates \in Nat /\ MaxFaults \in Nat

VARIABLES
  sent,       \* Telegram: the updates, in order
  confirmed,  \* Telegram: the first update that getUpdates has not confirmed
  cards,      \* Telegram: the messages of the bot that can be pressed or replied to
  where,      \* Codex: the working folder of each conversation, None when it is gone
  offset, batch,       \* Bot.Run
  job,                 \* the handler
  life,                \* voiceSessionIdentity, new at every start
  selected, bound,     \* selected_projects, thread_bindings
  routes,              \* callback_routes and minimal_picker_routes
  voices,              \* voice_confirmations
  expired,    \* the updates, routes and voices that are older than ten minutes
  faults,
  done,       \* history: updates that have been handled
  ran         \* history: the commands that Codex was given

telegram == <<sent, confirmed, cards>>
bot == <<offset, batch, life>>
history == <<done, ran>>
vars == <<telegram, where, bot, job, selected, bound, routes, voices, expired, faults, history>>

Unbound == [thread |-> 0, cwd |-> None]

Route(action, project, thread, page) ==
  [action |-> action, project |-> project, thread |-> thread, page |-> page, status |-> "active"]

Card(buttons, voice, about, list) ==
  [buttons |-> buttons, voice |-> voice, verdict |-> "none",
   about |-> about, list |-> list, routed |-> 0]

\* An answer: the card it replaces or 0, its buttons, the voice command it asks about, what it
\* says of one, the conversation it is about, and whether it lists conversations.
NoAnswer == [edit |-> 0, buttons |-> {}, voice |-> 0, verdict |-> "none",
             about |-> 0, list |-> FALSE]

Idle == [pc |-> "idle", u |-> 0, thread |-> 0, project |-> None, card |-> 0, answer |-> NoAnswer]

Threads == 1 .. Len(where)
Current == sent[job.u]
Pressed == Current.route
VoiceOf == cards[Current.re].voice

\* What a card says of its voice command.  "started" and "refused" stand under the same heading,
\* that it was executed; the text below says that a turn was started, or why none was.
Verdicts == {"none", "started", "refused", "cancelled", "expired", "unsure"}

ChatOK ==
  /\ sent \in Seq([kind : {"start", "text", "voice", "press", "confirm"},
                   re : 0 .. Len(cards), route : 0 .. Len(routes), go : BOOLEAN])
  /\ cards \in Seq([buttons : SUBSET (1 .. Len(routes)), voice : 0 .. Len(voices),
                    verdict : Verdicts, about : 0 .. Len(where), list : BOOLEAN,
                    routed : 0 .. Len(where)])

BotOK ==
  /\ offset \in 0 .. Len(sent) + 1 /\ batch \in Seq(1 .. Len(sent)) /\ life \in Nat
  /\ job \in [pc : {"idle", "handle", "thread", "new", "turn", "picked", "consumed", "clear",
                    "edit", "route", "send", "register"},
              u : 0 .. Len(sent), thread : 0 .. Len(where), project : Projects \cup {None},
              card : 0 .. Len(cards),
              answer : [edit : 0 .. Len(cards), buttons : SUBSET (1 .. Len(routes)),
                        voice : 0 .. Len(voices), verdict : Verdicts, about : 0 .. Len(where),
                        list : BOOLEAN]]

StoreOK ==
  /\ selected \in Projects \cup {None}
  /\ bound \in [thread : 0 .. Len(where), cwd : Projects \cup {None}]
  /\ routes \in Seq([action : {"pick", "new", "open", "back", "select"}, project : Projects,
                     thread : 0 .. Len(where), page : Nat,
                     status : {"active", "consumed", "expired"}])
  /\ voices \in Seq([project : Projects, thread : 0 .. Len(where), life : Nat,
                     status : {"pending", "executed", "cancelled", "expired", "failed"},
                     card : 0 .. Len(cards)])

RestOK ==
  /\ Len(sent) <= MaxUpdates /\ confirmed \in 1 .. Len(sent) + 1
  /\ where \in Seq(Projects \cup {None})
  /\ faults \in 0 .. MaxFaults /\ done \subseteq 1 .. Len(sent)
  /\ ran \in Seq([u : 1 .. Len(sent), thread : 1 .. Len(where), home : Projects,
                  chosen : Projects \cup {None}, life : 0 .. life])

TypeOK == ChatOK /\ BotOK /\ StoreOK /\ RestOK

Empty ==
  /\ cards = <<>> /\ routes = <<>> /\ voices = <<>> /\ selected = None /\ bound = Unbound

\* Three cards of earlier presses, one per menu, the card of the first conversation, and one
\* that asks about a voice command for a new one.
InUse ==
  LET p == Home[1]
  IN  /\ routes = [i \in 1 .. Cardinality(Projects) |->
                     Route("pick", SetToSeq(Projects)[i], 0, 0)]
                  \o <<Route("new", p, 0, 0), Route("open", p, 0, 0)>>
                  \o <<Route("select", p, 1, 0), Route("open", p, 0, 1), Route("back", p, 0, 0)>>
      /\ LET n == Cardinality(Projects)
         IN  cards = << Card(1 .. n, 0, 0, FALSE), Card({n + 1, n + 2}, 0, 0, FALSE),
                        Card({n + 3, n + 4, n + 5}, 0, 0, TRUE),
                        [Card({}, 0, 1, FALSE) EXCEPT !.routed = 1],
                        Card({}, 1, 0, FALSE) >>
      /\ voices = <<[project |-> p, thread |-> 0, life |-> 1, status |-> "pending", card |-> 5]>>
      /\ selected \in Projects
      /\ bound \in {Unbound} \cup (IF selected = p THEN {[thread |-> 1, cwd |-> p]} ELSE {})

Init ==
  /\ sent = <<>> /\ confirmed = 1 /\ where = Home
  /\ offset = 0 /\ batch = <<>> /\ job = Idle /\ life = 1
  /\ expired = [sent |-> 0, routes |-> 0, voices |-> 0]
  /\ faults = 0 /\ done = {} /\ ran = <<>>
  /\ Empty \/ InUse

Fault == faults < MaxFaults /\ faults' = faults + 1

-----------------------------------------------------------------------------
(* The owner, Codex and the clock.                                          *)

Sends(update) ==
  /\ Len(sent) < MaxUpdates
  /\ sent' = Append(sent, update)
  /\ UNCHANGED <<confirmed, cards, where, bot, job, selected, bound, routes, voices,
                 expired, faults, history>>

Update(kind, re, route, go) == [kind |-> kind, re |-> re, route |-> route, go |-> go]

Writes(kind) == \E c \in {0} \cup {d \in DOMAIN cards : cards[d].about # 0} :
                  Sends(Update(kind, c, 0, FALSE))

Owner ==
  \/ Sends(Update("start", 0, 0, FALSE))
  \/ Writes("text") \/ Writes("voice")
  \/ \E c \in DOMAIN cards : \E r \in cards[c].buttons : Sends(Update("press", c, r, FALSE))
  \/ \E c \in DOMAIN cards, go \in BOOLEAN :
       /\ cards[c].voice # 0 /\ cards[c].verdict = "none"
       /\ Sends(Update("confirm", c, 0, go))

\* A conversation is deleted, or continued in another working folder.
Moves ==
  /\ Fault
  /\ \E t \in Threads, q \in Projects \cup {None} :
       where[t] \notin {q, None} /\ where' = [where EXCEPT ![t] = q]
  /\ UNCHANGED <<telegram, bot, job, selected, bound, routes, voices, expired, history>>

TenMinutes ==
  /\ Fault
  /\ expired' = [sent |-> Len(sent), routes |-> Len(routes), voices |-> Len(voices)]
  /\ expired' # expired
  /\ UNCHANGED <<telegram, where, bot, job, selected, bound, routes, voices, history>>

-----------------------------------------------------------------------------
(* Bot.Run.                                                                 *)

\* getUpdates(offset) confirms what comes before offset.
GetUpdates ==
  /\ job = Idle /\ batch = <<>>
  /\ LET from == IF offset > confirmed THEN offset ELSE confirmed
     IN  /\ from > confirmed \/ from <= Len(sent)
         /\ confirmed' = from
         /\ batch' = [i \in 1 .. Len(sent) + 1 - from |-> from + i - 1]
  /\ UNCHANGED <<sent, cards, where, offset, life, job, selected, bound, routes, voices,
                 expired, faults, history>>

OffsetKept(u) == offset
OffsetSkips(u) == IF u >= offset THEN u + 2 ELSE offset

OffsetAfter(u) == IF u >= offset THEN u + 1 ELSE offset

handleUpdate ==
  /\ job = Idle /\ batch # <<>>
  /\ offset' = OffsetAfter(Head(batch)) /\ batch' = Tail(batch)
  /\ job' = [Idle EXCEPT !.pc = "handle", !.u = Head(batch)]
  /\ UNCHANGED <<telegram, where, life, selected, bound, routes, voices, expired, faults, history>>

Ends == job' = Idle /\ done' = done \cup {job.u}

Goes(j) == job' = j /\ UNCHANGED done

Answers(answer) ==
  Goes([job EXCEPT !.pc = IF answer.edit # 0 THEN "edit" ELSE "send", !.answer = answer])

\* An answer with buttons, whose routes are stored first; rs is what is there already.
Offers(rs, new, answer) ==
  /\ routes' = rs \o new
  /\ Answers([answer EXCEPT !.buttons = Len(rs) + 1 .. Len(rs) + Len(new)])

minimalProjectPicker ==
  Offers(routes, [i \in 1 .. Cardinality(Projects) |->
                    Route("pick", SetToSeq(Projects)[i], 0, 0)], NoAnswer)

\* The handler of an update of these kinds begins.
Handles(kinds) == job.pc = "handle" /\ Current.kind \in kinds

minimalInboundExpired == job.u <= expired.sent

RefuseExpired ==
  /\ Handles({"start", "text", "voice"}) /\ minimalInboundExpired
  /\ Ends
  /\ UNCHANGED <<telegram, where, bot, selected, bound, routes, voices, expired, faults, ran>>

HandleStart ==
  /\ Handles({"start"}) /\ ~minimalInboundExpired
  /\ minimalProjectPicker
  /\ UNCHANGED <<telegram, where, bot, selected, bound, voices, expired, faults, ran>>

-----------------------------------------------------------------------------
(* Texts.                                                                   *)

ResolveMessageRoute(c) == cards[c].routed

submitReply ==
  /\ Handles({"text"}) /\ ~minimalInboundExpired /\ Current.re # 0
  /\ LET t == ResolveMessageRoute(Current.re)
     IN  IF t = 0 THEN Ends ELSE Goes([job EXCEPT !.pc = "thread", !.thread = t])
  /\ UNCHANGED <<telegram, where, bot, selected, bound, routes, voices, expired, faults, ran>>

\* The conversation is in the selected working folder.
readMinimalExistingThread(t, project) == where[t] = project

\* The bound conversation is read again; one that is gone, or somewhere else, is unbound.
minimalBoundThreadForProject ==
  IF bound.thread # 0 /\ readMinimalExistingThread(bound.thread, selected)
  THEN /\ Goes([job EXCEPT !.pc = "thread", !.thread = bound.thread, !.project = selected])
       /\ UNCHANGED bound
  ELSE /\ Goes([job EXCEPT !.pc = "new", !.project = selected])
       /\ bound' = Unbound

submitNew ==
  /\ Handles({"text"}) /\ ~minimalInboundExpired /\ Current.re = 0
  /\ \/ selected = None /\ minimalProjectPicker /\ UNCHANGED <<bound, faults>>
     \/ selected # None /\ minimalBoundThreadForProject /\ UNCHANGED <<routes, faults>>
     \/ \* the read fails, as it may for a conversation that is gone
        /\ selected # None /\ bound.thread # 0 /\ Ends /\ UNCHANGED <<bound, routes>>
        /\ IF where[bound.thread] = None THEN UNCHANGED faults ELSE Fault
  /\ UNCHANGED <<telegram, where, bot, selected, voices, expired, ran>>

\* The router returns an error: the command is not run, or it is not known whether it is.
Fails ==
  IF Current.kind = "text" THEN Ends
  ELSE Answers([NoAnswer EXCEPT !.edit = Current.re, !.verdict = "unsure"])

\* It returns an answer about conversation t.
Tells(verdict, t) ==
  IF Current.kind = "text" THEN Answers([NoAnswer EXCEPT !.about = t])
  ELSE Answers([NoAnswer EXCEPT !.edit = Current.re, !.verdict = verdict, !.about = t])

Starts(t) == Tells("started", t)

\* Codex owns the conversation, its source has gone on or is gone, it could not be forked, or the
\* command waits in the queue: Codex is not given it, and the router's answer says so.
Refuses(t) == Tells("refused", t) /\ UNCHANGED <<faults, ran>>

\* Codex is given the command, to be run in folder cwd, and the handler hears of it or not.
Run(t, cwd) ==
  \/ /\ \/ Starts(t) /\ UNCHANGED faults
        \/ Fails /\ Fault
     /\ ran' = Append(ran, [u |-> job.u, thread |-> t, home |-> cwd,
                            chosen |-> selected, life |-> life])
  \/ Fails /\ Fault /\ UNCHANGED ran

AnyProject(t) == where[t] # None

\* The conversation's working folder is registered, and the expected one.
projectForThread(t) == where[t] # None /\ job.project \in {None, where[t]}

submitThread ==
  /\ job.pc = "thread"
  /\ \/ Refuses(job.thread)
     \/ projectForThread(job.thread) /\ Run(job.thread, where[job.thread])
     \/ ~projectForThread(job.thread) /\ Fails /\ UNCHANGED <<faults, ran>>
  /\ UNCHANGED <<telegram, where, bot, selected, bound, routes, voices, expired>>

submitNewProject ==
  /\ job.pc = "new"
  /\ \/ /\ where' = Append(where, job.project)
        /\ bound' = [thread |-> Len(where) + 1, cwd |-> job.project]
        /\ Goes([job EXCEPT !.pc = "turn", !.thread = Len(where) + 1])
        /\ UNCHANGED faults
     \/ Fails /\ Fault /\ UNCHANGED <<where, bound>>
  /\ UNCHANGED <<telegram, bot, selected, routes, voices, expired, ran>>

startLoadedTurn ==
  /\ job.pc = "turn"
  /\ Run(job.thread, job.project)
  /\ UNCHANGED <<telegram, where, bot, selected, bound, routes, voices, expired>>

-----------------------------------------------------------------------------
(* The pickers.                                                             *)

Active(r) == routes[r].status = "active"
Spent(r, status) == [routes EXCEPT ![r].status = status]

\* A button of the working folder picker; its route is spent when the folder is selected.
handleMinimalCallback ==
  /\ Handles({"press"}) /\ routes[Pressed].action = "pick"
  /\ IF Active(Pressed) /\ Pressed > expired.routes
     THEN /\ selected' = routes[Pressed].project
          /\ Goes([job EXCEPT !.pc = "picked"])
          /\ UNCHANGED routes
     ELSE /\ routes' = Spent(Pressed, "expired")
          /\ Ends
          /\ UNCHANGED selected
  /\ UNCHANGED <<telegram, where, bot, bound, voices, expired, faults, ran>>

\* The stored row of the bound conversation may be from before it moved.
clearMinimalBindingOutsideProject(project) ==
  IF bound.thread = 0 THEN UNCHANGED bound
  ELSE \E cwd \in {bound.cwd, where[bound.thread]} :
         bound' = IF cwd = project THEN bound ELSE Unbound

minimalProjectActions(rs, project) ==
  /\ clearMinimalBindingOutsideProject(project)
  /\ Offers(rs, <<Route("new", project, 0, 0), Route("open", project, 0, 0)>>,
            [NoAnswer EXCEPT !.edit = Current.re])

ShowActions ==
  /\ job.pc = "picked"
  /\ minimalProjectActions(Spent(Pressed, "expired"), selected)
  /\ UNCHANGED <<telegram, where, bot, selected, voices, expired, faults, ran>>

minimalPickerRouteMatchesCurrentProject(r) ==
  routes[r].action = "new" \/ routes[r].project = selected

\* A button of the other menus works once, for ten minutes, while its folder is selected.
ConsumeMinimalPickerRoute ==
  /\ Handles({"press"}) /\ routes[Pressed].action # "pick"
  /\ IF Active(Pressed)
     THEN routes' = Spent(Pressed, IF Pressed > expired.routes THEN "consumed" ELSE "expired")
     ELSE UNCHANGED routes
  /\ IF /\ Active(Pressed) /\ Pressed > expired.routes
        /\ selected = None \/ minimalPickerRouteMatchesCurrentProject(Pressed)
     THEN Goes([job EXCEPT !.pc = "consumed"]) ELSE Ends
  /\ UNCHANGED <<telegram, where, bot, selected, bound, voices, expired, faults, ran>>

\* The press of a consumed button goes on.
Consumed(actions) ==
  /\ job.pc = "consumed" /\ routes[Pressed].action \in actions
  /\ minimalPickerRouteMatchesCurrentProject(Pressed)

PickNew ==
  \/ /\ Consumed({"new"})
     /\ selected' = routes[Pressed].project
     /\ Goes([job EXCEPT !.pc = "clear"])
     /\ UNCHANGED <<telegram, where, bot, bound, routes, voices, expired, faults, ran>>
  \/ /\ job.pc = "clear"
     /\ bound' = Unbound
     /\ Answers([NoAnswer EXCEPT !.edit = Current.re])
     /\ UNCHANGED <<telegram, where, bot, selected, routes, voices, expired, faults, ran>>

PickBack ==
  /\ Consumed({"back"})
  /\ minimalProjectActions(routes, routes[Pressed].project)
  /\ UNCHANGED <<telegram, where, bot, selected, voices, expired, faults, ran>>

minimalAllProjectThreads(project) == {t \in Threads : where[t] = project}

PageAsked(page, n) == page

\* The page that is shown of n conversations: the last one when there are fewer pages by now.
PageShown(page, n) == IF page * PageSize >= n THEN (n - 1) \div PageSize ELSE page

\* The order of the conversations changes as they are used: any of them may be on the page.
minimalExistingThreadPage(project, asked) ==
  LET all == minimalAllProjectThreads(project)
      n == Cardinality(all)
      page == PageShown(asked, n)
      size == Cardinality({i \in 0 .. n - 1 : i \div PageSize = page})
      Nav == (IF page > 0 THEN <<Route("open", project, 0, page - 1)>> ELSE <<>>)
             \o (IF (page + 1) * PageSize < n THEN <<Route("open", project, 0, page + 1)>> ELSE <<>>)
             \o <<Route("back", project, 0, 0)>>
  IN  IF all = {}
      THEN Offers(routes, <<Route("open", project, 0, 0), Route("back", project, 0, 0)>>,
                  [NoAnswer EXCEPT !.edit = Current.re])
      ELSE \E shown \in {s \in SUBSET all : Cardinality(s) = size} :
             Offers(routes, [i \in 1 .. size |-> Route("select", project, SetToSeq(shown)[i], page)]
                            \o Nav,
                    [NoAnswer EXCEPT !.edit = Current.re, !.list = TRUE])

PickPage ==
  /\ Consumed({"open"})
  /\ \/ minimalExistingThreadPage(routes[Pressed].project, routes[Pressed].page) /\ UNCHANGED faults
     \/ Ends /\ Fault /\ UNCHANGED routes
  /\ UNCHANGED <<telegram, where, bot, selected, bound, voices, expired, ran>>

\* A conversation that cannot be read, or is somewhere else by now, is not bound: the page is
\* shown again.
selectMinimalExistingThread ==
  /\ Consumed({"select"})
  /\ LET r == routes[Pressed]
     IN  \/ /\ readMinimalExistingThread(r.thread, r.project)
            /\ bound' = [thread |-> r.thread, cwd |-> r.project]
            /\ Answers([NoAnswer EXCEPT !.about = r.thread])
            /\ UNCHANGED <<routes, faults>>
         \/ /\ IF readMinimalExistingThread(r.thread, r.project) THEN Fault ELSE UNCHANGED faults
            /\ minimalExistingThreadPage(r.project, r.page)
            /\ UNCHANGED bound
  /\ UNCHANGED <<telegram, where, bot, selected, voices, expired, ran>>

-----------------------------------------------------------------------------
(* Voice commands.                                                          *)

CreateVoiceConfirmation(project, t) ==
  /\ voices' = Append(voices, [project |-> project, thread |-> t, life |-> life,
                               status |-> "pending", card |-> 0])
  /\ Answers([NoAnswer EXCEPT !.voice = Len(voices) + 1, !.about = t])

\* The file is fetched and transcribed, the owner is asked.
HandleVoice ==
  /\ Handles({"voice"}) /\ ~minimalInboundExpired
  /\ LET t == IF Current.re = 0 THEN 0 ELSE ResolveMessageRoute(Current.re)
         project == IF Current.re = 0 THEN selected ELSE IF t = 0 THEN None ELSE where[t]
     IN  \/ /\ project = None
            /\ IF Current.re = 0 THEN minimalProjectPicker ELSE Ends /\ UNCHANGED routes
            /\ UNCHANGED <<voices, faults>>
         \/ /\ project # None
            /\ \/ CreateVoiceConfirmation(project, t) /\ UNCHANGED faults
               \/ Ends /\ Fault /\ UNCHANGED voices
            /\ UNCHANGED routes
  /\ UNCHANGED <<telegram, where, bot, selected, bound, expired, ran>>

Says(verdict) == Answers([NoAnswer EXCEPT !.edit = Current.re, !.verdict = verdict])

SettleVoice(v, status) == voices' = [voices EXCEPT ![v].status = status]

ConsumeAfterRun(v) ==
  IF Current.go THEN UNCHANGED voices ELSE SettleVoice(v, "cancelled")

\* Both buttons are spent, whichever is pressed, and before the command is run.
ConsumeVoiceConfirmation(v) == SettleVoice(v, IF Current.go THEN "executed" ELSE "cancelled")

\* Execute or Cancel, of a pending command of this life, on the card that asks for it.
handleMinimalVoiceCallback ==
  /\ Handles({"confirm"})
  /\ LET x == voices[VoiceOf]
         mine == x.status = "pending" /\ x.life = life /\ x.card = Current.re
     IN  \/ /\ mine /\ VoiceOf > expired.voices
            /\ ConsumeVoiceConfirmation(VoiceOf)
            /\ IF Current.go
               THEN Goes([job EXCEPT !.pc = IF x.thread = 0 THEN "new" ELSE "thread",
                                     !.thread = x.thread, !.project = x.project])
               ELSE Says("cancelled")
         \/ /\ ~(mine /\ VoiceOf > expired.voices)
            /\ IF mine THEN SettleVoice(VoiceOf, "expired") ELSE UNCHANGED voices
            /\ IF x.card = Current.re THEN Says("expired") ELSE Ends
  /\ UNCHANGED <<telegram, where, bot, selected, bound, routes, expired, faults, ran>>

-----------------------------------------------------------------------------
(* Answers.                                                                 *)

Edited(answer) ==
  cards' = [cards EXCEPT ![answer.edit].buttons = answer.buttons,
                         ![answer.edit].verdict = answer.verdict,
                         ![answer.edit].list = answer.list,
                         ![answer.edit].about = IF answer.about = 0 THEN @ ELSE answer.about]

\* editMessageText, and a new message when it fails.  A call that fails may have worked.
editOrSend ==
  /\ job.pc = "edit"
  /\ \/ /\ Edited(job.answer) /\ UNCHANGED faults
        /\ IF job.answer.about # 0 THEN Goes([job EXCEPT !.pc = "route"]) ELSE Ends
     \/ /\ Fault /\ Goes([job EXCEPT !.pc = "send"])
        /\ Edited(job.answer) \/ UNCHANGED cards
  /\ UNCHANGED <<sent, confirmed, where, bot, selected, bound, routes, voices, expired, ran>>

\* The card of a voice command that was answered is routed to its conversation.
PutMessageRoute ==
  /\ job.pc = "route"
  /\ cards' = [cards EXCEPT ![job.answer.edit].routed = job.answer.about]
  /\ Ends
  /\ UNCHANGED <<sent, confirmed, where, bot, selected, bound, routes, voices, expired, faults, ran>>

KeepVoice(v) == UNCHANGED voices

AbandonVoiceConfirmation(v) == IF v = 0 THEN UNCHANGED voices ELSE SettleVoice(v, "failed")

\* A message that can neither be pressed nor be replied to is not kept.
deliverDirectResponse ==
  /\ job.pc = "send"
  /\ LET a == job.answer
         Shown == cards' = Append(cards, Card(a.buttons, a.voice, a.about, a.list))
     IN  \/ /\ a.buttons # {} \/ a.voice # 0 \/ a.about # 0
            /\ Shown /\ Goes([job EXCEPT !.pc = "register", !.card = Len(cards) + 1])
            /\ UNCHANGED <<voices, faults>>
         \/ /\ a.buttons = {} /\ a.voice = 0 /\ a.about = 0
            /\ Ends /\ UNCHANGED <<cards, voices, faults>>
         \/ /\ Fault /\ Ends
            /\ Shown \/ UNCHANGED cards
            /\ AbandonVoiceConfirmation(a.voice)
  /\ UNCHANGED <<sent, confirmed, where, bot, selected, bound, routes, expired, ran>>

RegisterDirectDelivery ==
  /\ job.pc = "register"
  /\ cards' = [cards EXCEPT ![job.card].routed = job.answer.about]
  /\ voices' = IF job.answer.voice = 0 THEN voices
               ELSE [voices EXCEPT ![job.answer.voice].card = job.card]
  /\ Ends
  /\ UNCHANGED <<sent, confirmed, where, bot, selected, bound, routes, expired, faults, ran>>

\* The daemon dies and is started again: the offset is forgotten, and what was confirmed by
\* nobody is asked for again.
RecoverVoiceConfirmations ==
  [v \in DOMAIN voices |-> IF voices[v].status = "pending"
                           THEN [voices[v] EXCEPT !.status = "expired"] ELSE voices[v]]

Restart ==
  /\ Fault
  /\ offset' = 0 /\ batch' = <<>> /\ job' = Idle /\ life' = life + 1
  /\ voices' = RecoverVoiceConfirmations
  /\ UNCHANGED <<telegram, where, selected, bound, routes, expired, history>>

-----------------------------------------------------------------------------

Bot ==
  \/ GetUpdates \/ handleUpdate \/ RefuseExpired \/ HandleStart
  \/ submitReply \/ submitNew \/ submitThread \/ submitNewProject \/ startLoadedTurn
  \/ handleMinimalCallback \/ ShowActions \/ ConsumeMinimalPickerRoute
  \/ PickNew \/ PickBack \/ PickPage \/ selectMinimalExistingThread
  \/ HandleVoice \/ handleMinimalVoiceCallback
  \/ editOrSend \/ PutMessageRoute \/ deliverDirectResponse \/ RegisterDirectDelivery

Next == Owner \/ Moves \/ TenMinutes \/ Bot \/ Restart

\* The bot's loop does not stop: a call that fails is tried again or given up.
Spec == Init /\ [][Next]_vars /\ WF_vars(Bot)

-----------------------------------------------------------------------------

\* A reply runs in the conversation that the message it replies to is about.  Any other text
\* runs in the working folder that is selected, although the bound conversation may move at
\* any time, a voice command may have bound one of another folder, and the daemon may have
\* died between selecting a folder and clearing the binding.
TextsRunWhereMeant ==
  \A i \in DOMAIN ran :
    LET text == sent[ran[i].u]
    IN  text.kind = "text" =>
          IF text.re = 0 THEN ran[i].home = ran[i].chosen
          ELSE ran[i].thread = cards[text.re].about

\* An update is handled once by each life of the daemon, also when its handler fails.  (It
\* is handled again by the next one when the daemon dies before the next getUpdates.)
UpdateRunsOnce ==
  \A i, j \in DOMAIN ran : (ran[i].u = ran[j].u /\ ran[i].life = ran[j].life) => i = j

\* A voice command is run at most once, and only when its own card was confirmed, although
\* presses are repeated by the owner and redelivered after a death.  A card says that a turn was
\* started only when Codex was given the command, and that it was cancelled, refused or queued
\* only when Codex was not.
VoiceRunsOnce ==
  LET Runs(v) == {i \in DOMAIN ran : /\ sent[ran[i].u].kind = "confirm"
                                     /\ cards[sent[ran[i].u].re].voice = v}
  IN  /\ \A v \in DOMAIN voices : Cardinality(Runs(v)) <= 1
      /\ \A c \in DOMAIN cards :
           /\ cards[c].verdict = "started" => Cardinality(Runs(cards[c].voice)) = 1
           /\ cards[c].verdict \in {"refused", "cancelled"} => Runs(cards[c].voice) = {}

\* No transcript is kept that nobody can confirm: between two updates, a pending voice
\* command has a card.
PendingVoiceHasCard ==
  (job = Idle) =>
    \A v \in DOMAIN voices : voices[v].status = "pending" =>
      voices[v].card # 0 /\ cards[voices[v].card].voice = v /\ voices[v].life = life

\* The tables are well typed, and no transcript is left that cannot be confirmed.
VoiceInv == TypeOK /\ PendingVoiceHasCard

\* A card that lists conversations lists at least one, although conversations may have
\* gone since the page was asked for.
PageShowsThreads ==
  \A c \in DOMAIN cards :
    cards[c].list => \E r \in cards[c].buttons : routes[r].action = "select"

\* Every update is handled in the end: none is skipped, and none is lost when the daemon
\* dies with a batch in hand.
EveryUpdateHandled == \A u \in 1 .. MaxUpdates : (u <= Len(sent)) ~> (u \in done)

=============================================================================
