--------------------------- MODULE ChatInputProofs ---------------------------
(***************************************************************************)
(* Safety of the owner's input for every set of working folders, every      *)
(* page size, and every number of updates, conversations, failed calls and  *)
(* deaths of the daemon.                                                   *)
(***************************************************************************)
EXTENDS ChatInput, FiniteSetTheorems, TLAPS

-----------------------------------------------------------------------------
(***************************************************************************)
(* The inductive invariant.                                                *)
(***************************************************************************)

\* The handler has yet to give Codex its command.
Before == {"thread", "new", "turn"}

\* The times that a voice command was given to Codex.
RunsOf(v) == {i \in DOMAIN ran : /\ sent[ran[i].u].kind = "confirm"
                                 /\ cards[sent[ran[i].u].re].voice = v}

HasSelect(buttons) == \E r \in buttons : routes[r].action = "select"

\* A press names a button of a card, a confirmation the card of a voice command.
SentFits ==
  \A u \in DOMAIN sent :
    /\ sent[u].kind = "press" => sent[u].re # 0 /\ sent[u].route # 0
    /\ sent[u].kind = "confirm" => sent[u].re # 0 /\ cards[sent[u].re].voice # 0

\* Where the handler of which update can be.
JobFits ==
  /\ job.pc = "idle" => job = Idle
  /\ job.pc # "idle" => job.u # 0
  /\ job.pc \notin {"edit", "route", "send", "register"} => job.answer = NoAnswer
  /\ job.pc \in {"picked", "consumed", "clear"} => Current.kind = "press"
  /\ job.pc = "picked" => selected # None
  /\ job.pc \in Before => Current.kind \in {"text", "confirm"}
  /\ job.pc \in {"new", "turn"} => job.project # None
  /\ job.pc \in {"thread", "turn"} => job.thread # 0
  /\ job.pc \in {"edit", "route"} =>
       Current.kind \in {"press", "confirm"} /\ job.answer.edit = Current.re
  /\ job.pc = "route" =>
       job.answer.about # 0 /\ cards[job.answer.edit].about = job.answer.about
  /\ job.pc = "register" =>
       /\ job.card # 0
       /\ cards[job.card].about = job.answer.about /\ cards[job.card].voice = job.answer.voice

\* What this life has run is behind the offset, the batch is not.
Behind ==
  /\ \A i \in DOMAIN ran : ran[i].life = life => ran[i].u < offset
  /\ \A k \in DOMAIN batch : batch[k] >= offset
  /\ \A j, k \in DOMAIN batch : j < k => batch[j] < batch[k]

\* The update in hand is behind the offset too, and has not been run before it is.
InOrder ==
  /\ Behind
  /\ job.pc # "idle" => job.u < offset
  /\ job.pc \in {"handle"} \cup Before =>
       \A i \in DOMAIN ran : ran[i].life = life => ran[i].u # job.u

\* A voice command is spent before it is run, and run once.
RunsFit(v) ==
  /\ voices[v].status # "executed" => RunsOf(v) = {}
  /\ \A i, j \in RunsOf(v) : i = j

\* It is pending only while its card can confirm it, or is on its way.
PendingFits(v) ==
  voices[v].status = "pending" =>
    /\ voices[v].life = life
    /\ \/ voices[v].card # 0 /\ cards[voices[v].card].voice = v
       \/ job.answer.voice = v

VoicesFit ==
  /\ \A v \in DOMAIN voices : RunsFit(v) /\ PendingFits(v)
  /\ job.answer.voice # 0 =>
       job.pc \in {"send", "register"} /\ voices[job.answer.voice].status = "pending"
  /\ (job.pc \in Before /\ Current.kind = "confirm") =>
       voices[VoiceOf].status = "executed" /\ RunsOf(VoiceOf) = {}

\* A card is told what became of its command, v.
VerdictFits(verdict, v) ==
  /\ verdict \in {"started", "cancelled"} => v # 0
  /\ verdict = "started" => RunsOf(v) # {}
  /\ verdict = "cancelled" => voices[v].status = "cancelled"

VerdictsFit ==
  /\ \A c \in DOMAIN cards : VerdictFits(cards[c].verdict, cards[c].voice)
  /\ job.pc = "edit" => VerdictFits(job.answer.verdict, VoiceOf)

\* What a card is about is settled once, before a reply to it can find its conversation.
CardFits(c) ==
  /\ cards[c].routed \in {0, cards[c].about}
  /\ (cards[c].voice # 0 /\ voices[cards[c].voice].status = "pending") =>
       cards[c].about = voices[cards[c].voice].thread

CardsFit ==
  /\ \A c \in DOMAIN cards : CardFits(c)
  /\ job.answer.voice # 0 => job.answer.about = voices[job.answer.voice].thread
  /\ (job.pc \in Before /\ Current.kind = "confirm") =>
       cards[Current.re].about = IF job.pc = "thread" THEN job.thread ELSE 0
  /\ (job.pc = "edit" /\ job.answer.about # 0) =>
       /\ Current.kind = "confirm" /\ voices[VoiceOf].status = "executed"
       /\ cards[Current.re].about \in {0, job.answer.about}

TextsFit ==
  (job.pc \in Before /\ Current.kind = "text") =>
    IF Current.re = 0 THEN selected # None /\ job.project = selected
    ELSE job.pc = "thread" /\ job.thread = cards[Current.re].about

ListsFit ==
  /\ \A c \in DOMAIN cards : cards[c].list => HasSelect(cards[c].buttons)
  /\ job.answer.list => HasSelect(job.answer.buttons)

IInv ==
  /\ TypeOK
  /\ SentFits /\ JobFits
  /\ InOrder /\ UpdateRunsOnce
  /\ VoicesFit /\ VerdictsFit
  /\ CardsFit /\ TextsFit /\ TextsRunWhereMeant
  /\ ListsFit

-----------------------------------------------------------------------------
(***************************************************************************)
(* Types, by the lengths of the tables they refer to.                      *)
(***************************************************************************)

UpdateSet(c, r) ==
  [kind : {"start", "text", "voice", "press", "confirm"}, re : 0 .. c, route : 0 .. r, go : BOOLEAN]

CardSet(r, v, w) ==
  [buttons : SUBSET (1 .. r), voice : 0 .. v, verdict : Verdicts, about : 0 .. w, list : BOOLEAN,
   routed : 0 .. w]

AnswerSet(c, r, v, w) ==
  [edit : 0 .. c, buttons : SUBSET (1 .. r), voice : 0 .. v, verdict : Verdicts, about : 0 .. w,
   list : BOOLEAN]

PCs == {"idle", "handle", "thread", "new", "turn", "picked", "consumed", "clear",
        "edit", "route", "send", "register"}

JobSet(n, c, r, v, w) ==
  [pc : PCs, u : 0 .. n, thread : 0 .. w, project : Projects \cup {None}, card : 0 .. c,
   answer : AnswerSet(c, r, v, w)]

RouteSet(w) ==
  [action : {"pick", "new", "open", "back", "select"}, project : Projects, thread : 0 .. w,
   page : Nat, status : {"active", "consumed", "expired"}]

VoiceSet(w, c) ==
  [project : Projects, thread : 0 .. w, life : Nat,
   status : {"pending", "executed", "cancelled", "expired", "failed"}, card : 0 .. c]

RunSet(n, w, l) ==
  [u : 1 .. n, thread : 1 .. w, home : Projects, chosen : Projects \cup {None}, life : 0 .. l]

\* The types of the variables, where the tables have these lengths.
Typed(n, c, r, v, w, l) ==
  /\ sent \in Seq(UpdateSet(c, r))
  /\ cards \in Seq(CardSet(r, v, w))
  /\ batch \in Seq(1 .. n)
  /\ job \in JobSet(n, c, r, v, w)
  /\ bound \in [thread : 0 .. w, cwd : Projects \cup {None}]
  /\ routes \in Seq(RouteSet(w))
  /\ voices \in Seq(VoiceSet(w, c))
  /\ ran \in Seq(RunSet(n, w, l))
  /\ done \subseteq 1 .. n

Scalars ==
  /\ offset \in 0 .. Len(sent) + 1 /\ life \in Nat
  /\ selected \in Projects \cup {None}
  /\ Len(sent) <= MaxUpdates /\ confirmed \in 1 .. Len(sent) + 1
  /\ where \in Seq(Projects \cup {None})
  /\ faults \in 0 .. MaxFaults

\* TypeOK in these words.
LEMMA Types ==
  /\ TypeOK <=> /\ Typed(Len(sent), Len(cards), Len(routes), Len(voices), Len(where), life)
                /\ Scalars
  /\ TypeOK' <=> /\ Typed(Len(sent), Len(cards), Len(routes), Len(voices), Len(where), life)'
                 /\ Scalars'
<1>1. TypeOK <=> /\ Typed(Len(sent), Len(cards), Len(routes), Len(voices), Len(where), life)
                 /\ Scalars
  BY Zenon DEF TypeOK, ChatOK, BotOK, StoreOK, RestOK, Typed, Scalars, UpdateSet, CardSet,
     AnswerSet, PCs, JobSet, RouteSet, VoiceSet, RunSet
<1>2. TypeOK' <=> /\ Typed(Len(sent), Len(cards), Len(routes), Len(voices), Len(where), life)'
                  /\ Scalars'
  BY Zenon DEF TypeOK, ChatOK, BotOK, StoreOK, RestOK, Typed, Scalars, UpdateSet, CardSet,
     AnswerSet, PCs, JobSet, RouteSet, VoiceSet, RunSet
<1>3. QED
  BY <1>1, <1>2

\* The lengths are numbers.
LEMMA Lengths ==
  ASSUME TypeOK
  PROVE  /\ Len(sent) \in Nat /\ Len(cards) \in Nat /\ Len(routes) \in Nat /\ Len(voices) \in Nat
         /\ Len(where) \in Nat /\ Len(ran) \in Nat /\ Len(batch) \in Nat /\ life \in Nat
         /\ DOMAIN sent = 1 .. Len(sent) /\ DOMAIN cards = 1 .. Len(cards)
         /\ DOMAIN routes = 1 .. Len(routes) /\ DOMAIN voices = 1 .. Len(voices)
         /\ DOMAIN where = 1 .. Len(where) /\ DOMAIN ran = 1 .. Len(ran)
         /\ DOMAIN batch = 1 .. Len(batch)
BY Types, SMTT(30) DEF Typed, Scalars

\* So they are after a step.
LEMMA LengthsNext ==
  ASSUME TypeOK'
  PROVE  /\ Len(cards') \in Nat /\ DOMAIN cards' = 1 .. Len(cards')
         /\ Len(voices') \in Nat /\ DOMAIN voices' = 1 .. Len(voices')
         /\ Len(sent') \in Nat /\ DOMAIN sent' = 1 .. Len(sent')
         /\ Len(ran') \in Nat /\ DOMAIN ran' = 1 .. Len(ran')
BY Types DEF Typed

\* A sequence over a set is one over every larger set.
LEMMA SeqWider ==
  ASSUME NEW S, NEW T, S \subseteq T, NEW s \in Seq(S)
  PROVE  s \in Seq(T)
OBVIOUS

-----------------------------------------------------------------------------
(***************************************************************************)
(* What no step takes back.                                                *)
(***************************************************************************)

\* The tables grow, and the entries keep what the others know them by.
Grows ==
  /\ Len(sent') \in Nat /\ Len(sent) <= Len(sent')
  /\ \A u \in DOMAIN sent : sent'[u] = sent[u]
  /\ Len(cards') \in Nat /\ Len(cards) <= Len(cards')
  /\ \A c \in DOMAIN cards : cards'[c].voice = cards[c].voice
  /\ Len(routes') \in Nat /\ Len(routes) <= Len(routes')
  /\ \A r \in DOMAIN routes : routes'[r].action = routes[r].action
  /\ Len(voices') \in Nat /\ Len(voices) <= Len(voices')
  /\ \A v \in DOMAIN voices : voices'[v].thread = voices[v].thread
  /\ Len(where') \in Nat /\ Len(where) <= Len(where')
  /\ life' \in Nat /\ life <= life'

\* What is unchanged is still typed when the tables grow.
LEMMA StillTyped ==
  ASSUME TypeOK, Grows
  PROVE  Typed(Len(sent'), Len(cards'), Len(routes'), Len(voices'), Len(where'), life')
<1> DEFINE n == Len(sent)  c == Len(cards)  r == Len(routes)  v == Len(voices)  w == Len(where)
           n2 == Len(sent') c2 == Len(cards') r2 == Len(routes') v2 == Len(voices')
           w2 == Len(where')  l2 == life'
<1>1. Typed(n, c, r, v, w, life)
  BY Types
<1>0. /\ n \in Nat /\ c \in Nat /\ r \in Nat /\ v \in Nat /\ w \in Nat /\ life \in Nat
      /\ n2 \in Nat /\ c2 \in Nat /\ r2 \in Nat /\ v2 \in Nat /\ w2 \in Nat /\ l2 \in Nat
      /\ n <= n2 /\ c <= c2 /\ r <= r2 /\ v <= v2 /\ w <= w2 /\ life <= l2
  BY Lengths DEF Grows
<1> HIDE DEF n, c, r, v, w, n2, c2, r2, v2, w2, l2
<1>2. /\ 1 .. n \subseteq 1 .. n2 /\ 1 .. w \subseteq 1 .. w2
      /\ 0 .. n \subseteq 0 .. n2 /\ 0 .. c \subseteq 0 .. c2 /\ 0 .. r \subseteq 0 .. r2
      /\ 0 .. v \subseteq 0 .. v2 /\ 0 .. w \subseteq 0 .. w2 /\ 0 .. life \subseteq 0 .. l2
      /\ SUBSET (1 .. r) \subseteq SUBSET (1 .. r2)
  BY <1>0, SMT
<1>3. UpdateSet(c, r) \subseteq UpdateSet(c2, r2)
  BY <1>2, Zenon DEF UpdateSet
<1>4. CardSet(r, v, w) \subseteq CardSet(r2, v2, w2)
  BY <1>2, Zenon DEF CardSet
<1>5. AnswerSet(c, r, v, w) \subseteq AnswerSet(c2, r2, v2, w2)
  BY <1>2, Zenon DEF AnswerSet
<1>6. JobSet(n, c, r, v, w) \subseteq JobSet(n2, c2, r2, v2, w2)
  BY <1>2, <1>5, Zenon DEF JobSet
<1>7. RouteSet(w) \subseteq RouteSet(w2) /\ VoiceSet(w, c) \subseteq VoiceSet(w2, c2)
  BY <1>2, Zenon DEF RouteSet, VoiceSet
<1>8. RunSet(n, w, life) \subseteq RunSet(n2, w2, l2)
  BY <1>2, Zenon DEF RunSet
<1>9. bound \in [thread : 0 .. w2, cwd : Projects \cup {None}]
  BY <1>1, <1>2, Zenon DEF Typed
<1>10. Typed(n2, c2, r2, v2, w2, l2)
  BY <1>1, <1>2, <1>3, <1>4, <1>6, <1>7, <1>8, <1>9, SeqWider, Zenon DEF Typed
<1>11. QED
  BY <1>10 DEF n2, c2, r2, v2, w2, l2

-----------------------------------------------------------------------------
(***************************************************************************)
(* Jobs and answers.                                                       *)
(***************************************************************************)

\* The fields of the job.
LEMMA JobFields ==
  ASSUME TypeOK
  PROVE  /\ job.pc \in PCs /\ job.u \in 0 .. Len(sent) /\ job.thread \in 0 .. Len(where)
         /\ job.project \in Projects \cup {None} /\ job.card \in 0 .. Len(cards)
         /\ job.answer \in AnswerSet(Len(cards), Len(routes), Len(voices), Len(where))
BY Types DEF Typed, JobSet

\* The fields of an answer.
LEMMA AnswerFields ==
  ASSUME NEW c, NEW r, NEW v, NEW w, NEW a \in AnswerSet(c, r, v, w)
  PROVE  /\ a.edit \in 0 .. c /\ a.buttons \in SUBSET (1 .. r) /\ a.voice \in 0 .. v
         /\ a.verdict \in Verdicts /\ a.about \in 0 .. w /\ a.list \in BOOLEAN
BY DEF AnswerSet

\* The update that is handled.
LEMMA CurrentFields ==
  ASSUME TypeOK, JobFits, job.pc # "idle"
  PROVE  /\ job.u \in 1 .. Len(sent) /\ job.u \in DOMAIN sent
         /\ Current.kind \in {"start", "text", "voice", "press", "confirm"}
         /\ Current.re \in 0 .. Len(cards) /\ Current.route \in 0 .. Len(routes)
         /\ Current.go \in BOOLEAN
<1>1. job.u \in 1 .. Len(sent)
  BY JobFields, Lengths DEF JobFits
<1>2. Current \in UpdateSet(Len(cards), Len(routes))
  BY <1>1, Types, Lengths DEF Typed, Current
<1>3. QED
  BY <1>1, <1>2, Lengths DEF UpdateSet

\* A card, a route, a voice command and a run have their fields.
LEMMA CardFields ==
  ASSUME TypeOK, NEW c \in DOMAIN cards
  PROVE  /\ cards[c].buttons \in SUBSET (1 .. Len(routes)) /\ cards[c].voice \in 0 .. Len(voices)
         /\ cards[c].verdict \in Verdicts /\ cards[c].about \in 0 .. Len(where)
         /\ cards[c].list \in BOOLEAN /\ cards[c].routed \in 0 .. Len(where)
<1>1. cards[c] \in CardSet(Len(routes), Len(voices), Len(where))
  BY Types, Lengths DEF Typed
<1>2. QED
  BY <1>1 DEF CardSet

\* So does a route.
LEMMA RouteFields ==
  ASSUME TypeOK, NEW r \in DOMAIN routes
  PROVE  /\ routes[r].action \in {"pick", "new", "open", "back", "select"}
         /\ routes[r].project \in Projects /\ routes[r].thread \in 0 .. Len(where)
         /\ routes[r].page \in Nat /\ routes[r].status \in {"active", "consumed", "expired"}
<1>1. routes[r] \in RouteSet(Len(where))
  BY Types, Lengths DEF Typed
<1>2. QED
  BY <1>1 DEF RouteSet

\* So does a voice command.
LEMMA VoiceFields ==
  ASSUME TypeOK, NEW v \in DOMAIN voices
  PROVE  /\ voices[v].project \in Projects /\ voices[v].thread \in 0 .. Len(where)
         /\ voices[v].status \in {"pending", "executed", "cancelled", "expired", "failed"}
         /\ voices[v].life \in Nat /\ voices[v].card \in 0 .. Len(cards)
<1>1. voices[v] \in VoiceSet(Len(where), Len(cards))
  BY Types, Lengths DEF Typed
<1>2. QED
  BY <1>1 DEF VoiceSet

\* So does what was given to Codex, and the update that it came from.
LEMMA RunFields ==
  ASSUME TypeOK, NEW i \in DOMAIN ran
  PROVE  /\ ran[i].u \in 1 .. Len(sent) /\ ran[i].u \in DOMAIN sent /\ ran[i].u \in Nat
         /\ ran[i].thread \in 1 .. Len(where) /\ ran[i].life \in 0 .. life
         /\ sent[ran[i].u].re \in 0 .. Len(cards)
<1>1. ran[i] \in RunSet(Len(sent), Len(where), life)
  BY Types, Lengths DEF Typed
<1>2. /\ ran[i].u \in 1 .. Len(sent) /\ ran[i].thread \in 1 .. Len(where)
      /\ ran[i].life \in 0 .. life
  BY <1>1 DEF RunSet
<1>3. sent[ran[i].u] \in UpdateSet(Len(cards), Len(routes))
  BY <1>2, Types, Lengths DEF Typed
<1>4. QED
  BY <1>2, <1>3, Lengths DEF UpdateSet

\* The bot is between two updates.
LEMMA IdleFields ==
  /\ Idle.pc = "idle" /\ Idle.u = 0 /\ Idle.answer = NoAnswer
  /\ NoAnswer.edit = 0 /\ NoAnswer.voice = 0 /\ NoAnswer.about = 0
  /\ NoAnswer.verdict = "none" /\ NoAnswer.list = FALSE /\ NoAnswer.buttons = {}
BY DEF Idle, NoAnswer

\* Idle and NoAnswer are well typed.
LEMMA IdleTyped ==
  ASSUME NEW n \in Nat, NEW c \in Nat, NEW r \in Nat, NEW v \in Nat, NEW w \in Nat
  PROVE  /\ NoAnswer \in AnswerSet(c, r, v, w)
         /\ Idle \in JobSet(n, c, r, v, w)
<1>1. 0 \in 0 .. n /\ 0 \in 0 .. c /\ 0 \in 0 .. v /\ 0 \in 0 .. w
  OBVIOUS
<1>2. {} \in SUBSET (1 .. r)
  OBVIOUS
<1>3. NoAnswer \in AnswerSet(c, r, v, w)
  BY <1>1, <1>2, Zenon DEF NoAnswer, AnswerSet, Verdicts
<1>4. QED
  BY <1>1, <1>3, Zenon DEF Idle, JobSet, PCs

\* What an answer makes of the job.
LEMMA AnswersEffect ==
  ASSUME TypeOK, NEW a, a.edit \in Nat, Answers(a)
  PROVE  /\ job'.pc = (IF a.edit = 0 THEN "send" ELSE "edit") /\ job'.u = job.u
         /\ job'.thread = job.thread /\ job'.project = job.project /\ job'.card = job.card
         /\ job'.answer = a /\ done' = done
<1>1. job \in JobSet(Len(sent), Len(cards), Len(routes), Len(voices), Len(where))
  BY Types DEF Typed
<1>2. job' = [job EXCEPT !.pc = IF a.edit # 0 THEN "edit" ELSE "send", !.answer = a]
  BY Zenon DEF Answers, Goes
<1>3. QED
  BY <1>1, <1>2, Zenon DEF JobSet, Answers, Goes

-----------------------------------------------------------------------------
(***************************************************************************)
(* Most steps of the handlers send nothing, give Codex nothing and leave    *)
(* the voice commands alone.  These are all that the invariant needs to    *)
(* know of them.                                                           *)
(***************************************************************************)

\* The step leaves the handler here.
Passes ==
  /\ job'.u = job.u
  /\ job'.pc \in Before \cup {"picked", "consumed", "clear", "edit", "send"}
  /\ job'.pc \notin {"edit", "send"} => job'.answer = NoAnswer
  /\ job'.answer.voice = 0
  /\ \/ job'.answer.verdict \in {"none", "unsure"}
     \/ job'.answer.verdict = "refused" /\ job.pc = "thread" /\ Current.kind = "confirm"
  /\ job'.answer.about # 0 =>
       \/ job'.pc = "send"
       \/ job.pc = "thread" /\ Current.kind = "confirm" /\ job'.answer.about = job.thread
  /\ job'.answer.list => HasSelect(job.answer.buttons)'
  /\ job'.pc \in {"picked", "consumed", "clear"} => Current.kind = "press"
  /\ job'.pc = "picked" => selected' # None
  /\ job'.pc = "edit" => Current.kind \in {"press", "confirm"} /\ job'.answer.edit = Current.re
  /\ job'.pc \in Before =>
       /\ selected' = selected /\ job.pc \in {"handle"} \cup Before
       /\ \/ /\ Current.kind = "text"
             /\ IF Current.re = 0 THEN selected # None /\ job'.project = selected
                ELSE job'.pc = "thread" /\ job'.thread = cards[Current.re].about
          \/ /\ Current.kind = "confirm" /\ job.pc = "new" /\ job'.pc = "turn"
             /\ job'.project = job.project /\ job.project # None
       /\ job'.pc \in {"thread", "turn"} => job'.thread # 0

SimpleStep ==
  /\ UNCHANGED <<sent, confirmed, cards, offset, batch, life, voices, ran>>
  /\ job.pc \in {"handle", "picked", "consumed", "clear"} \cup Before
  /\ job' = Idle \/ Passes

\* Between two steps of a handler.
Rests ==
  /\ UNCHANGED <<sent, confirmed, cards, offset, batch, life, voices, ran>>
  /\ selected' \in Projects \cup {None} /\ faults' \in 0 .. MaxFaults

\* The routes only grow, and keep their actions.
RoutesGrow ==
  /\ routes' \in Seq(RouteSet(Len(where))) /\ Len(routes) <= Len(routes')
  /\ \A r \in DOMAIN routes : routes'[r].action = routes[r].action

\* So do the conversations.
WhereGrows ==
  where' \in Seq(Projects \cup {None}) /\ Len(where) <= Len(where')

\* A handler's step whose changes are well typed is well typed.
LEMMA HandlerTyped ==
  ASSUME TypeOK, Rests, RoutesGrow, WhereGrows,
         bound' \in [thread : 0 .. Len(where'), cwd : Projects \cup {None}],
         job' \in JobSet(Len(sent), Len(cards), Len(routes'), Len(voices), Len(where')),
         done' \subseteq 1 .. Len(sent)
  PROVE  TypeOK' /\ Grows
<1>1. Grows
  <2>1. sent' = sent /\ cards' = cards /\ voices' = voices /\ life' = life
    BY DEF Rests
  <2>2. Len(where') \in Nat /\ Len(where) <= Len(where')
    BY DEF WhereGrows
  <2>3. /\ Len(routes') \in Nat /\ Len(routes) <= Len(routes')
        /\ \A r \in DOMAIN routes : routes'[r].action = routes[r].action
    BY DEF RoutesGrow
  <2>4. QED
    BY <2>1, <2>2, <2>3, Lengths DEF Grows
<1>2. Typed(Len(sent'), Len(cards'), Len(routes'), Len(voices'), Len(where'), life')
  BY <1>1, StillTyped
<1>3. routes' \in Seq(RouteSet(Len(where')))
  <2>1. 0 .. Len(where) \subseteq 0 .. Len(where')
    BY Lengths DEF WhereGrows
  <2>2. RouteSet(Len(where)) \subseteq RouteSet(Len(where'))
    BY <2>1, Zenon DEF RouteSet
  <2>3. QED
    BY <2>2, SeqWider, Zenon DEF RoutesGrow
<1>4. Typed(Len(sent), Len(cards), Len(routes), Len(voices), Len(where), life)'
  BY <1>2, <1>3, Zenon DEF Typed, Rests
<1>5. Scalars'
  BY Types, Zenon DEF Scalars, Rests, WhereGrows
<1>6. QED
  BY <1>1, <1>4, <1>5, Types

\* Routes that stay as they are.
LEMMA RoutesStay ==
  ASSUME TypeOK, routes' = routes
  PROVE  RoutesGrow
BY Types, Lengths DEF Typed, RoutesGrow

\* So do the conversations.
LEMMA WhereStays ==
  ASSUME TypeOK, where' = where
  PROVE  WhereGrows
BY Types, Lengths DEF Scalars, WhereGrows

\* A fault is counted.
LEMMA FaultCounts ==
  ASSUME TypeOK, Fault
  PROVE  faults' \in 0 .. MaxFaults
<1>1. faults \in 0 .. MaxFaults
  BY Types, Zenon DEF Scalars
<1>2. MaxFaults \in Nat /\ faults < MaxFaults /\ faults' = faults + 1
  BY InputAssumption DEF Fault
<1>3. QED
  BY <1>1, <1>2

\* A handler that ends leaves nothing behind but the mark that it has.
LEMMA EndsTyped ==
  ASSUME TypeOK, JobFits, job.pc # "idle", Ends
  PROVE  /\ done' \subseteq 1 .. Len(sent)
         /\ \A r \in Nat, w \in Nat : job' \in JobSet(Len(sent), Len(cards), r, Len(voices), w)
<1>1. job' = Idle /\ done' = done \cup {job.u}
  BY DEF Ends
<1>2. done \subseteq 1 .. Len(sent) /\ job.u \in 1 .. Len(sent)
  BY Types, CurrentFields DEF Typed
<1>3. QED
  BY <1>1, <1>2, IdleTyped, Lengths

\* Two sequences, one after the other.
LEMMA ConcatFields ==
  ASSUME NEW S, NEW s \in Seq(S), NEW t \in Seq(S)
  PROVE  /\ s \o t \in Seq(S) /\ Len(s \o t) = Len(s) + Len(t)
         /\ \A i \in 1 .. Len(s) : (s \o t)[i] = s[i]
         /\ \A i \in 1 .. Len(t) : (s \o t)[Len(s) + i] = t[i]
OBVIOUS

\* A menu: the routes are stored, then the answer is on its way.
LEMMA OffersEffect ==
  ASSUME TypeOK, NEW rs \in Seq(RouteSet(Len(where))), Len(rs) = Len(routes),
         \A r \in DOMAIN routes : rs[r].action = routes[r].action,
         NEW new \in Seq(RouteSet(Len(where))),
         NEW a \in AnswerSet(Len(cards), Len(routes), Len(voices), Len(where)),
         Offers(rs, new, a)
  PROVE  /\ RoutesGrow /\ done' = done
         /\ job' \in JobSet(Len(sent), Len(cards), Len(routes'), Len(voices), Len(where))
         /\ job'.pc = (IF a.edit = 0 THEN "send" ELSE "edit") /\ job'.u = job.u
         /\ job'.answer.edit = a.edit /\ job'.answer.voice = a.voice
         /\ job'.answer.verdict = a.verdict /\ job'.answer.about = a.about
         /\ job'.answer.list = a.list
         /\ (\E i \in 1 .. Len(new) : new[i].action = "select") => HasSelect(job.answer.buttons)'
<1> DEFINE b == [a EXCEPT !.buttons = Len(rs) + 1 .. Len(rs) + Len(new)]
<1>0. Len(new) \in Nat /\ Len(rs) \in Nat /\ Len(routes) \in Nat /\ DOMAIN routes = 1 .. Len(routes)
  BY Lengths
<1>1. routes' = rs \o new /\ Answers(b)
  BY DEF Offers
<1>2. /\ routes' \in Seq(RouteSet(Len(where))) /\ Len(routes') = Len(routes) + Len(new)
      /\ \A r \in DOMAIN routes : routes'[r] = rs[r]
      /\ \A i \in 1 .. Len(new) : routes'[Len(routes) + i] = new[i]
  <2>1. rs \o new \in Seq(RouteSet(Len(where))) /\ Len(rs \o new) = Len(rs) + Len(new)
    BY ConcatFields
  <2>4. \A i \in 1 .. Len(rs) : (rs \o new)[i] = rs[i]
    BY ConcatFields
  <2>5. \A i \in 1 .. Len(new) : (rs \o new)[Len(rs) + i] = new[i]
    BY ConcatFields
  <2>2. PICK x : x = rs \o new
    OBVIOUS
  <2>3. QED
    BY <1>0, <1>1, <2>1, <2>2, <2>4, <2>5
<1>3. RoutesGrow
  BY <1>0, <1>2 DEF RoutesGrow
<1>4. Len(rs) + 1 .. Len(rs) + Len(new) \in SUBSET (1 .. Len(routes'))
  BY <1>0, <1>2
<1>5. b \in AnswerSet(Len(cards), Len(routes'), Len(voices), Len(where))
  BY <1>4, Zenon DEF AnswerSet
<1>6. /\ b.edit = a.edit /\ b.voice = a.voice /\ b.verdict = a.verdict /\ b.about = a.about
      /\ b.list = a.list /\ b.buttons = Len(rs) + 1 .. Len(rs) + Len(new)
  BY Zenon DEF AnswerSet
<1>7. a.edit \in Nat
  BY Lengths, AnswerFields
<1> HIDE DEF b
<1>8. /\ job'.pc = (IF b.edit = 0 THEN "send" ELSE "edit") /\ job'.u = job.u
      /\ job'.thread = job.thread /\ job'.project = job.project /\ job'.card = job.card
      /\ job'.answer = b /\ done' = done
  BY <1>1, <1>6, <1>7, AnswersEffect
<1>9. job' \in JobSet(Len(sent), Len(cards), Len(routes'), Len(voices), Len(where))
  <2>1. job \in JobSet(Len(sent), Len(cards), Len(routes), Len(voices), Len(where))
    BY Types DEF Typed
  <2>2. job' = [job EXCEPT !.pc = IF b.edit # 0 THEN "edit" ELSE "send", !.answer = b]
    BY <1>1, Zenon DEF Answers, Goes
  <2>3. QED
    BY <1>5, <2>1, <2>2, Zenon DEF JobSet, PCs
<1>10. ASSUME NEW i \in 1 .. Len(new), new[i].action = "select"
       PROVE  HasSelect(job.answer.buttons)'
  <2>1. Len(routes) + i \in job'.answer.buttons
    BY <1>0, <1>6, <1>8
  <2>2. routes'[Len(routes) + i].action = "select"
    BY <1>2, <1>10
  <2>3. QED
    BY <2>1, <2>2, Zenon DEF HasSelect
<1>11. QED
  BY <1>3, <1>6, <1>8, <1>9, <1>10, Zenon

\* An answer that replaces a card.
LEMMA EditTyped ==
  ASSUME TypeOK, NEW c \in 0 .. Len(cards)
  PROVE  [NoAnswer EXCEPT !.edit = c]
           \in AnswerSet(Len(cards), Len(routes), Len(voices), Len(where))
<1>1. NoAnswer \in AnswerSet(Len(cards), Len(routes), Len(voices), Len(where))
  BY IdleTyped, Lengths
<1>2. QED
  BY <1>1, Zenon DEF AnswerSet

\* What a step of a handler changes besides the job.
LEMMA HandlerRests ==
  ASSUME TypeOK, UNCHANGED <<sent, confirmed, cards, voices, ran, bot>>,
         selected' = selected \/ selected' \in Projects, faults' = faults \/ Fault
  PROVE  Rests
<1>1. faults' \in 0 .. MaxFaults
  BY FaultCounts, Types DEF Scalars
<1>2. selected' \in Projects \cup {None}
  BY Types DEF Scalars
<1>3. QED
  BY <1>1, <1>2 DEF Rests, bot

\* A bound conversation is one that exists.
LEMMA BoundFields ==
  ASSUME TypeOK
  PROVE  /\ bound.thread \in 0 .. Len(where) /\ bound.cwd \in Projects \cup {None}
         /\ bound \in [thread : 0 .. Len(where), cwd : Projects \cup {None}]
         /\ Unbound \in [thread : 0 .. Len(where), cwd : Projects \cup {None}]
BY Types, Lengths DEF Typed, Unbound

\* The handler gives up, or has nothing more to do.
LEMMA SimpleEnds ==
  ASSUME TypeOK, JobFits, Rests, job.pc \in {"handle", "picked", "consumed", "clear"} \cup Before,
         RoutesGrow, WhereGrows,
         bound' \in [thread : 0 .. Len(where'), cwd : Projects \cup {None}], Ends
  PROVE  TypeOK' /\ Grows /\ SimpleStep
<1>1. job.pc # "idle"
  BY DEF Before
<1>2. /\ done' \subseteq 1 .. Len(sent)
      /\ \A r \in Nat, w \in Nat : job' \in JobSet(Len(sent), Len(cards), r, Len(voices), w)
  BY <1>1, EndsTyped
<1>3. Len(routes') \in Nat /\ Len(where') \in Nat
  BY DEF RoutesGrow, WhereGrows
<1>4. TypeOK' /\ Grows
  BY <1>2, <1>3, HandlerTyped
<1>5. QED
  BY <1>4 DEF SimpleStep, Rests, Ends

\* The handler goes on.
LEMMA SimplePasses ==
  ASSUME TypeOK, JobFits, Rests, job.pc \in {"handle", "picked", "consumed", "clear"} \cup Before,
         RoutesGrow, WhereGrows,
         bound' \in [thread : 0 .. Len(where'), cwd : Projects \cup {None}], done' = done,
         job' \in JobSet(Len(sent), Len(cards), Len(routes'), Len(voices), Len(where')),
         Passes
  PROVE  TypeOK' /\ Grows /\ SimpleStep
<1>1. done' \subseteq 1 .. Len(sent)
  BY Types DEF Typed
<1>2. TypeOK' /\ Grows
  BY <1>1, HandlerTyped
<1>3. QED
  BY <1>2 DEF SimpleStep, Rests

\* Fields of the job that are not mentioned stay.
LEMMA SameJob ==
  ASSUME TypeOK, NEW p, NEW t, NEW q
  PROVE  /\ [job EXCEPT !.pc = p]
               = [job EXCEPT !.pc = p, !.thread = job.thread, !.project = job.project]
         /\ [job EXCEPT !.pc = p, !.thread = t]
               = [job EXCEPT !.pc = p, !.thread = t, !.project = job.project]
         /\ [job EXCEPT !.pc = p, !.project = q]
               = [job EXCEPT !.pc = p, !.thread = job.thread, !.project = q]
<1>1. job \in JobSet(Len(sent), Len(cards), Len(routes), Len(voices), Len(where))
  BY Types DEF Typed
<1>2. QED
  BY <1>1, Zenon DEF JobSet

\* The handler goes on to another step.
LEMMA GoesOn ==
  ASSUME TypeOK, JobFits, Rests, job.pc \in {"handle", "picked", "consumed", "clear"} \cup Before,
         RoutesGrow, WhereGrows,
         bound' \in [thread : 0 .. Len(where'), cwd : Projects \cup {None}],
         NEW p \in Before \cup {"picked", "consumed", "clear"}, NEW t \in 0 .. Len(where'),
         NEW q \in Projects \cup {None},
         Goes([job EXCEPT !.pc = p, !.thread = t, !.project = q]),
         p \in {"picked", "consumed", "clear"} => Current.kind = "press",
         p = "picked" => selected' # None,
         p \in Before =>
           /\ selected' = selected /\ job.pc \in {"handle"} \cup Before
           /\ \/ /\ Current.kind = "text"
                 /\ IF Current.re = 0 THEN selected # None /\ q = selected
                    ELSE p = "thread" /\ t = cards[Current.re].about
              \/ /\ Current.kind = "confirm" /\ job.pc = "new" /\ p = "turn"
                 /\ q = job.project /\ job.project # None
           /\ p \in {"thread", "turn"} => t # 0
  PROVE  TypeOK' /\ Grows /\ SimpleStep
<1>1. job \in JobSet(Len(sent), Len(cards), Len(routes), Len(voices), Len(where))
  BY Types DEF Typed
<1>2. job' = [job EXCEPT !.pc = p, !.thread = t, !.project = q] /\ done' = done
  BY Zenon DEF Goes
<1>3. /\ job'.pc = p /\ job'.thread = t /\ job'.project = q /\ job'.u = job.u
      /\ job'.answer = job.answer
  BY <1>1, <1>2, Zenon DEF JobSet
<1>4. job.answer = NoAnswer
  BY Zenon DEF JobFits, Before
<1>5. job' \in JobSet(Len(sent), Len(cards), Len(routes'), Len(voices), Len(where'))
  <2>4. /\ Len(cards) \in Nat /\ Len(routes') \in Nat /\ Len(voices) \in Nat
        /\ Len(where') \in Nat
    BY Lengths DEF WhereGrows
  <2>5. NoAnswer \in AnswerSet(Len(cards), Len(routes'), Len(voices), Len(where'))
    BY <2>4, IdleTyped
  <2>1. NoAnswer \in AnswerSet(Len(cards), Len(routes'), Len(voices), Len(where')) /\ p \in PCs
    BY <2>5, Zenon DEF Before, PCs
  <2>2. job' \in [pc : PCs, u : 0 .. Len(sent), thread : 0 .. Len(where'),
                 project : Projects \cup {None}, card : 0 .. Len(cards),
                 answer : AnswerSet(Len(cards), Len(routes'), Len(voices), Len(where'))]
    BY <1>1, <1>2, <1>4, <2>1, Zenon DEF JobSet
  <2>3. QED
    BY <2>2, Zenon DEF JobSet
<1>6. Passes
  BY <1>3, <1>4, IdleFields DEF Passes, Before
<1>7. QED
  BY <1>2, <1>5, <1>6, SimplePasses

\* A menu ends a handler's work but for the answer.
LEMMA OffersMenu ==
  ASSUME TypeOK, JobFits, Rests, job.pc \in {"handle", "picked", "consumed", "clear"} \cup Before,
         where' = where, bound' \in [thread : 0 .. Len(where'), cwd : Projects \cup {None}],
         NEW rs \in Seq(RouteSet(Len(where))), Len(rs) = Len(routes),
         \A r \in DOMAIN routes : rs[r].action = routes[r].action,
         NEW new \in Seq(RouteSet(Len(where))),
         NEW a \in AnswerSet(Len(cards), Len(routes), Len(voices), Len(where)),
         Offers(rs, new, a), a.voice = 0, a.verdict = "none", a.about = 0,
         a.edit # 0 => a.edit = Current.re /\ Current.kind = "press",
         a.list => \E i \in 1 .. Len(new) : new[i].action = "select"
  PROVE  TypeOK' /\ Grows /\ SimpleStep
<1>1. /\ RoutesGrow /\ done' = done
      /\ job' \in JobSet(Len(sent), Len(cards), Len(routes'), Len(voices), Len(where))
      /\ job'.pc = (IF a.edit = 0 THEN "send" ELSE "edit") /\ job'.u = job.u
      /\ job'.answer.edit = a.edit /\ job'.answer.voice = a.voice
      /\ job'.answer.verdict = a.verdict /\ job'.answer.about = a.about
      /\ job'.answer.list = a.list
      /\ (\E i \in 1 .. Len(new) : new[i].action = "select") => HasSelect(job.answer.buttons)'
  BY OffersEffect
<1>2. Passes
  BY <1>1, Zenon DEF Passes, Before
<1>3. WhereGrows
  BY WhereStays
<1>4. QED
  BY <1>1, <1>2, <1>3, SimplePasses

\* An answer without a menu.
LEMMA AnswersPlainly ==
  ASSUME TypeOK, JobFits, Rests, job.pc \in {"handle", "picked", "consumed", "clear"} \cup Before,
         routes' = routes, where' = where,
         bound' \in [thread : 0 .. Len(where'), cwd : Projects \cup {None}],
         NEW a \in AnswerSet(Len(cards), Len(routes), Len(voices), Len(where)),
         Answers(a), a.voice = 0, a.list = FALSE,
         \/ a.verdict \in {"none", "unsure"}
         \/ a.verdict = "refused" /\ job.pc = "thread" /\ Current.kind = "confirm",
         a.about # 0 =>
           \/ a.edit = 0
           \/ job.pc = "thread" /\ Current.kind = "confirm" /\ a.about = job.thread,
         a.edit # 0 => a.edit = Current.re /\ Current.kind \in {"press", "confirm"}
  PROVE  TypeOK' /\ Grows /\ SimpleStep
<1>0. a.edit \in Nat
  BY AnswerFields, Lengths
<1>1. /\ job'.pc = (IF a.edit = 0 THEN "send" ELSE "edit") /\ job'.u = job.u
      /\ job'.answer = a /\ done' = done
  BY <1>0, AnswersEffect
<1>2. job' \in JobSet(Len(sent), Len(cards), Len(routes), Len(voices), Len(where))
  <2>1. job \in JobSet(Len(sent), Len(cards), Len(routes), Len(voices), Len(where))
    BY Types DEF Typed
  <2>2. job' = [job EXCEPT !.pc = IF a.edit # 0 THEN "edit" ELSE "send", !.answer = a]
    BY Zenon DEF Answers, Goes
  <2>3. QED
    BY <2>1, <2>2, Zenon DEF JobSet, PCs
<1>3. Passes
  BY <1>1, Zenon DEF Passes, Before
<1>4. WhereGrows /\ RoutesGrow
  BY WhereStays, RoutesStay
<1>5. job' \in JobSet(Len(sent), Len(cards), Len(routes'), Len(voices), Len(where'))
  BY <1>2
<1>6. QED
  BY <1>1, <1>3, <1>4, <1>5, SimplePasses

-----------------------------------------------------------------------------
(***************************************************************************)
(* The steps that are simple.                                              *)
(***************************************************************************)

\* A finite set in a row.
LEMMA SetToSeqFields ==
  ASSUME NEW S, IsFiniteSet(S)
  PROVE  Cardinality(S) \in Nat /\ SetToSeq(S) \in [1 .. Cardinality(S) -> S]
<1>1. Cardinality(S) \in Nat /\ ExistsBijection(1 .. Cardinality(S), S)
  BY FS_CardinalityType
<1>2. PICK f \in [1 .. Cardinality(S) -> S] : IsInjective(f)
  BY <1>1, Zenon DEF ExistsBijection, Bijection, Injection
<1>3. QED
  BY <1>1, <1>2, Zenon DEF SetToSeq

\* A route as it is stored first.
LEMMA RouteTyped ==
  ASSUME NEW w, NEW a \in {"pick", "new", "open", "back", "select"}, NEW q \in Projects,
         NEW t \in 0 .. w, NEW g \in Nat
  PROVE  Route(a, q, t, g) \in RouteSet(w) /\ Route(a, q, t, g).action = a
BY Zenon DEF Route, RouteSet

\* The picker of working folders.
LEMMA PickerEffect ==
  ASSUME TypeOK, JobFits, Rests, job.pc = "handle", where' = where,
         bound' \in [thread : 0 .. Len(where'), cwd : Projects \cup {None}],
         minimalProjectPicker
  PROVE  TypeOK' /\ Grows /\ SimpleStep
<1> DEFINE new == [i \in 1 .. Cardinality(Projects) |-> Route("pick", SetToSeq(Projects)[i], 0, 0)]
<1>1. Cardinality(Projects) \in Nat
      /\ \A i \in 1 .. Cardinality(Projects) : SetToSeq(Projects)[i] \in Projects
  BY SetToSeqFields, InputAssumption
<1>2. 0 \in 0 .. Len(where) /\ 0 \in Nat
  BY Lengths
<1>3. \A i \in 1 .. Cardinality(Projects) :
        Route("pick", SetToSeq(Projects)[i], 0, 0) \in RouteSet(Len(where))
  BY <1>1, <1>2, RouteTyped, Zenon
<1>4. new \in Seq(RouteSet(Len(where)))
  BY <1>1, <1>3
<1>5. routes \in Seq(RouteSet(Len(where))) /\ Len(routes) = Len(routes)
      /\ \A r \in DOMAIN routes : routes[r].action = routes[r].action
  BY Types, Zenon DEF Typed
<1>6. NoAnswer \in AnswerSet(Len(cards), Len(routes), Len(voices), Len(where))
  BY IdleTyped, Lengths
<1>7. Offers(routes, new, NoAnswer)
  BY Zenon DEF minimalProjectPicker
<1> HIDE DEF new
<1>8. QED
  BY <1>4, <1>5, <1>6, <1>7, OffersMenu, IdleFields, Zenon

\* An update that is too old is dropped.
LEMMA RefuseExpiredEffect ==
  ASSUME IInv, RefuseExpired
  PROVE  TypeOK' /\ Grows /\ SimpleStep
<1>1. TypeOK /\ JobFits /\ job.pc = "handle" /\ Ends
  BY Zenon DEF IInv, RefuseExpired, Handles
<1>2. Rests /\ RoutesGrow /\ WhereGrows
  BY <1>1, HandlerRests, RoutesStay, WhereStays DEF RefuseExpired, telegram
<1>3. bound' \in [thread : 0 .. Len(where'), cwd : Projects \cup {None}]
  BY <1>1, BoundFields, Zenon DEF RefuseExpired
<1>4. QED
  BY <1>1, <1>2, <1>3, SimpleEnds, Zenon

\* The start command offers the working folders.
LEMMA HandleStartEffect ==
  ASSUME IInv, HandleStart
  PROVE  TypeOK' /\ Grows /\ SimpleStep
<1>1. TypeOK /\ JobFits /\ job.pc = "handle" /\ where' = where
  BY Zenon DEF IInv, HandleStart, Handles
<1>2. Rests
  BY <1>1, HandlerRests, Zenon DEF HandleStart, telegram
<1>3. bound' \in [thread : 0 .. Len(where'), cwd : Projects \cup {None}]
  BY <1>1, BoundFields, Zenon DEF HandleStart
<1>4. QED
  BY <1>1, <1>2, <1>3, PickerEffect, Zenon DEF HandleStart

\* A reply goes on to the conversation of the card, if it has one.
LEMMA submitReplyEffect ==
  ASSUME IInv, submitReply
  PROVE  TypeOK' /\ Grows /\ SimpleStep
<1>1. TypeOK /\ JobFits /\ CardsFit /\ job.pc = "handle" /\ job.pc # "idle"
  BY Zenon DEF IInv, submitReply, Handles
<1>2. Rests /\ RoutesGrow /\ WhereGrows
  BY <1>1, HandlerRests, RoutesStay, WhereStays, Zenon DEF submitReply, telegram
<1>3. bound' \in [thread : 0 .. Len(where'), cwd : Projects \cup {None}]
  BY <1>1, BoundFields, Zenon DEF submitReply
<1>4. PICK t : t = ResolveMessageRoute(Current.re)
  OBVIOUS
<1>5. IF t = 0 THEN Ends ELSE Goes([job EXCEPT !.pc = "thread", !.thread = t])
  BY <1>4, Zenon DEF submitReply
<1>6. CASE t = 0
  BY <1>1, <1>2, <1>3, <1>5, <1>6, SimpleEnds, Zenon
<1>7. CASE t # 0
  <2>1. Current.re \in DOMAIN cards /\ Current.kind = "text" /\ Current.re # 0
    BY <1>1, CurrentFields, Lengths DEF submitReply, Handles
  <2>2. t \in 0 .. Len(where) /\ t = cards[Current.re].about
    BY <1>1, <1>4, <1>7, <2>1, CardFields, Zenon DEF CardsFit, CardFits, ResolveMessageRoute
  <2>3. where' = where /\ selected' = selected /\ t \in 0 .. Len(where')
    BY <2>2, Zenon DEF submitReply
  <2>4. job.project \in Projects \cup {None}
    BY <1>1, JobFields
  <2>5. Goes([job EXCEPT !.pc = "thread", !.thread = t, !.project = job.project])
    BY <1>1, <1>5, <1>7, SameJob, Zenon
  <2>6. QED
    BY <1>1, <1>2, <1>3, <1>7, <2>1, <2>2, <2>3, <2>4, <2>5, GoesOn, ZenonT(30) DEF Before
<1>8. QED
  BY <1>6, <1>7

\* Any other text goes on to the bound conversation, to a new one, or to the picker.
LEMMA submitNewEffect ==
  ASSUME IInv, submitNew
  PROVE  TypeOK' /\ Grows /\ SimpleStep
<1>1. /\ TypeOK /\ JobFits /\ job.pc = "handle" /\ job.pc # "idle" /\ Current.kind = "text"
      /\ Current.re = 0 /\ selected' = selected /\ where' = where
  BY Zenon DEF IInv, submitNew, Handles
<1>2. Rests /\ WhereGrows
  BY <1>1, HandlerRests, WhereStays, Zenon DEF submitNew, telegram
<1>3. bound' \in [thread : 0 .. Len(where'), cwd : Projects \cup {None}]
  BY <1>1, BoundFields, Zenon DEF submitNew, minimalBoundThreadForProject
<1>4. CASE minimalProjectPicker
  BY <1>1, <1>2, <1>3, <1>4, PickerEffect
<1>5. CASE /\ selected # None /\ minimalBoundThreadForProject /\ routes' = routes
  <2>1. RoutesGrow /\ selected \in Projects \cup {None}
    BY <1>1, <1>5, RoutesStay, Types DEF Scalars
  <2>2. CASE bound.thread # 0 /\ readMinimalExistingThread(bound.thread, selected)
    <3>1. Goes([job EXCEPT !.pc = "thread", !.thread = bound.thread, !.project = selected])
      BY <1>5, <2>2, Zenon DEF minimalBoundThreadForProject
    <3>2. bound.thread \in 0 .. Len(where')
      BY <1>1, BoundFields
    <3>3. QED
      BY <1>1, <1>2, <1>3, <1>5, <2>1, <2>2, <3>1, <3>2, GoesOn, Zenon DEF Before
  <2>3. CASE ~(bound.thread # 0 /\ readMinimalExistingThread(bound.thread, selected))
    <3>1. Goes([job EXCEPT !.pc = "new", !.project = selected])
      BY <1>5, <2>3, Zenon DEF minimalBoundThreadForProject
    <3>2. Goes([job EXCEPT !.pc = "new", !.thread = job.thread, !.project = selected])
      BY <1>1, <3>1, SameJob, Zenon
    <3>3. job.thread \in 0 .. Len(where')
      BY <1>1, JobFields
    <3>4. /\ "new" \in Before \cup {"picked", "consumed", "clear"}
          /\ "new" \notin {"picked", "consumed", "clear"} /\ "new" # "picked"
          /\ "new" \notin {"thread", "turn"}
      BY DEF Before
    <3>5. QED
      BY <1>1, <1>2, <1>3, <1>5, <2>1, <3>2, <3>3, <3>4, GoesOn, Zenon
  <2>4. QED
    BY <2>2, <2>3
<1>6. CASE Ends /\ routes' = routes
  BY <1>1, <1>2, <1>3, <1>6, RoutesStay, SimpleEnds, Zenon
<1>7. QED
  BY <1>4, <1>5, <1>6, Zenon DEF submitNew

\* A command that fails.
LEMMA FailsEffect ==
  ASSUME TypeOK, JobFits, Rests, job.pc \in Before, UNCHANGED <<where, bound, routes>>, Fails
  PROVE  TypeOK' /\ Grows /\ SimpleStep
<1>1. bound' \in [thread : 0 .. Len(where'), cwd : Projects \cup {None}]
  BY BoundFields, Zenon
<1>2. RoutesGrow /\ WhereGrows
  BY RoutesStay, WhereStays
<1>3. CASE Current.kind = "text"
  BY <1>1, <1>2, <1>3, SimpleEnds, Zenon DEF Fails
<1>4. CASE Current.kind # "text"
  <2>1. PICK a : a = [NoAnswer EXCEPT !.edit = Current.re, !.verdict = "unsure"]
    OBVIOUS
  <2>2. job.pc # "idle" /\ Current.kind = "confirm"
    BY <1>4 DEF JobFits, Before
  <2>3. /\ a.edit = Current.re /\ a.voice = 0 /\ a.verdict = "unsure" /\ a.about = 0
        /\ a.list = FALSE /\ a.buttons = {}
    BY <2>1, Zenon DEF NoAnswer
  <2>4. a \in AnswerSet(Len(cards), Len(routes), Len(voices), Len(where))
    <3>1. NoAnswer \in AnswerSet(Len(cards), Len(routes), Len(voices), Len(where))
      BY IdleTyped, Lengths
    <3>2. Current.re \in 0 .. Len(cards)
      BY <2>2, CurrentFields
    <3>3. QED
      BY <2>1, <3>1, <3>2, Zenon DEF AnswerSet, Verdicts
  <2>5. Answers(a)
    BY <1>4, <2>1, Zenon DEF Fails
  <2>6. QED
    BY <1>1, <2>2, <2>3, <2>4, <2>5, AnswersPlainly, Zenon
<1>5. QED
  BY <1>3, <1>4

\* A command that is refused or queued.
LEMMA RefusesEffect ==
  ASSUME TypeOK, JobFits, Rests, job.pc = "thread", UNCHANGED <<where, bound, routes>>,
         Refuses(job.thread)
  PROVE  TypeOK' /\ Grows /\ SimpleStep
<1>1. bound' \in [thread : 0 .. Len(where'), cwd : Projects \cup {None}]
  BY BoundFields, Zenon
<1>2. job.pc # "idle" /\ job.pc \in {"handle", "picked", "consumed", "clear"} \cup Before
  BY DEF Before
<1>3. /\ Current.re \in 0 .. Len(cards) /\ job.thread \in 0 .. Len(where)
      /\ Current.kind \in {"text", "confirm"}
  BY <1>2, CurrentFields, JobFields DEF JobFits, Before
<1>4. NoAnswer \in AnswerSet(Len(cards), Len(routes), Len(voices), Len(where))
  BY IdleTyped, Lengths
<1>5. CASE Current.kind = "text"
  <2>1. PICK a : a = [NoAnswer EXCEPT !.about = job.thread]
    OBVIOUS
  <2>2. /\ a.edit = 0 /\ a.voice = 0 /\ a.verdict = "none" /\ a.about = job.thread
        /\ a.list = FALSE
    BY <2>1, Zenon DEF NoAnswer
  <2>3. a \in AnswerSet(Len(cards), Len(routes), Len(voices), Len(where))
    BY <1>3, <1>4, <2>1, Zenon DEF AnswerSet
  <2>4. Answers(a)
    BY <1>5, <2>1, Zenon DEF Refuses, Tells
  <2>5. QED
    BY <1>1, <1>2, <2>2, <2>3, <2>4, AnswersPlainly, Zenon
<1>6. CASE Current.kind = "confirm"
  <2>1. PICK a : a = [NoAnswer EXCEPT !.edit = Current.re, !.verdict = "refused",
                                      !.about = job.thread]
    OBVIOUS
  <2>2. /\ a.edit = Current.re /\ a.voice = 0 /\ a.verdict = "refused" /\ a.about = job.thread
        /\ a.list = FALSE
    BY <2>1, Zenon DEF NoAnswer
  <2>3. a \in AnswerSet(Len(cards), Len(routes), Len(voices), Len(where))
    BY <1>3, <1>4, <2>1, Zenon DEF AnswerSet, Verdicts
  <2>4. Answers(a)
    BY <1>6, <2>1 DEF Refuses, Tells
  <2>5. QED
    BY <1>1, <1>2, <1>6, <2>2, <2>3, <2>4, AnswersPlainly, Zenon
<1>7. QED
  BY <1>3, <1>5, <1>6

\* A new conversation is made and bound, or the command fails.
LEMMA submitNewProjectEffect ==
  ASSUME IInv, submitNewProject
  PROVE  TypeOK' /\ Grows /\ SimpleStep
<1>1. /\ TypeOK /\ JobFits /\ TextsFit /\ job.pc = "new" /\ job.pc # "idle" /\ job.pc \in Before
      /\ selected' = selected /\ routes' = routes
  BY Zenon DEF IInv, submitNewProject, Before
<1>2. Rests /\ RoutesGrow
  BY <1>1, HandlerRests, RoutesStay, Zenon DEF submitNewProject, telegram
<1>3. CASE /\ where' = Append(where, job.project)
           /\ bound' = [thread |-> Len(where) + 1, cwd |-> job.project]
           /\ Goes([job EXCEPT !.pc = "turn", !.thread = Len(where) + 1])
  <2>1. job.project \in Projects \cup {None} /\ job.project # None
    BY <1>1, JobFields DEF JobFits
  <2>2. where \in Seq(Projects \cup {None}) /\ Len(where) \in Nat
    BY <1>1, Types DEF Scalars
  <2>3. WhereGrows /\ Len(where') = Len(where) + 1
    BY <1>3, <2>1, <2>2 DEF WhereGrows
  <2>4. bound' \in [thread : 0 .. Len(where'), cwd : Projects \cup {None}]
    BY <1>3, <2>1, <2>2, <2>3
  <2>5. Len(where) + 1 \in 0 .. Len(where') /\ Len(where) + 1 # 0
    BY <2>2, <2>3
  <2>6. Goes([job EXCEPT !.pc = "turn", !.thread = Len(where) + 1, !.project = job.project])
    BY <1>1, <1>3, SameJob, Zenon
  <2>7. \/ Current.kind = "text" /\ Current.re = 0 /\ selected # None /\ job.project = selected
        \/ Current.kind = "confirm"
    BY <1>1 DEF JobFits, TextsFit
  <2>8. "turn" \in Before \cup {"picked", "consumed", "clear"}
        /\ "turn" \notin {"picked", "consumed", "clear"} /\ "turn" # "picked"
    BY DEF Before
  <2>9. CASE Current.kind = "confirm"
    BY <1>1, <1>2, <2>1, <2>3, <2>4, <2>5, <2>6, <2>8, <2>9, GoesOn, Zenon
  <2>10. CASE /\ Current.kind = "text" /\ Current.re = 0 /\ selected # None
              /\ job.project = selected
    BY <1>1, <1>2, <2>1, <2>3, <2>4, <2>5, <2>6, <2>8, <2>10, GoesOn, Zenon
  <2>11. QED
    BY <2>7, <2>9, <2>10
<1>4. CASE Fails /\ UNCHANGED <<where, bound>>
  BY <1>1, <1>2, <1>4, FailsEffect, Zenon
<1>5. QED
  BY <1>3, <1>4, Zenon DEF submitNewProject

\* A press names a button and a card.
LEMMA PressFields ==
  ASSUME TypeOK, JobFits, SentFits, job.pc # "idle", Current.kind = "press"
  PROVE  /\ Pressed \in DOMAIN routes /\ Current.re \in DOMAIN cards /\ Current.re # 0
         /\ Current.re \in 0 .. Len(cards)
<1>1. job.u \in DOMAIN sent /\ Current.re \in 0 .. Len(cards) /\ Current.route \in 0 .. Len(routes)
  BY CurrentFields
<1>2. Current.re # 0 /\ Current.route # 0
  BY <1>1 DEF SentFits, Current
<1>3. QED
  BY <1>1, <1>2, Lengths DEF Pressed

\* A route that is spent.
LEMMA SpentFields ==
  ASSUME TypeOK, NEW r \in DOMAIN routes, NEW s \in {"active", "consumed", "expired"}
  PROVE  /\ Spent(r, s) \in Seq(RouteSet(Len(where))) /\ Len(Spent(r, s)) = Len(routes)
         /\ \A q \in DOMAIN routes : Spent(r, s)[q].action = routes[q].action
         /\ routes' = Spent(r, s) => RoutesGrow
<1> DEFINE new == [routes[r] EXCEPT !.status = s]
<1>1. /\ routes \in Seq(RouteSet(Len(where))) /\ Len(routes) \in Nat
      /\ DOMAIN routes = 1 .. Len(routes)
  BY Types, Lengths DEF Typed
<1>2. routes[r] \in RouteSet(Len(where))
  BY <1>1
<1>3. new \in RouteSet(Len(where)) /\ new.action = routes[r].action
  BY <1>2, Zenon DEF RouteSet
<1>4. Spent(r, s) = [routes EXCEPT ![r] = new]
  BY Zenon DEF Spent
<1> HIDE DEF new
<1>5. /\ Spent(r, s) \in Seq(RouteSet(Len(where))) /\ Len(Spent(r, s)) = Len(routes)
      /\ \A q \in DOMAIN routes : Spent(r, s)[q] = IF q = r THEN new ELSE routes[q]
  BY <1>1, <1>3, <1>4
<1>6. \A q \in DOMAIN routes : Spent(r, s)[q].action = routes[q].action
  BY <1>3, <1>5, Zenon
<1>7. QED
  BY <1>1, <1>5, <1>6 DEF RoutesGrow

\* A button of the folder picker selects, or is spent.
LEMMA handleMinimalCallbackEffect ==
  ASSUME IInv, handleMinimalCallback
  PROVE  TypeOK' /\ Grows /\ SimpleStep
<1>1. /\ TypeOK /\ JobFits /\ SentFits /\ job.pc = "handle" /\ job.pc # "idle"
      /\ Current.kind = "press" /\ where' = where
  BY Zenon DEF IInv, handleMinimalCallback, Handles
<1>2. Pressed \in DOMAIN routes
  BY <1>1, PressFields
<1>3. WhereGrows /\ bound' \in [thread : 0 .. Len(where'), cwd : Projects \cup {None}]
  BY <1>1, WhereStays, BoundFields, Zenon DEF handleMinimalCallback
<1>4. CASE /\ selected' = routes[Pressed].project
           /\ Goes([job EXCEPT !.pc = "picked"])
           /\ routes' = routes
  <2>1. Rests /\ RoutesGrow
    BY <1>1, <1>2, <1>4, RouteFields, HandlerRests, RoutesStay, Zenon
       DEF handleMinimalCallback, telegram
  <2>2. Goes([job EXCEPT !.pc = "picked", !.thread = job.thread, !.project = job.project])
    BY <1>1, <1>4, SameJob, Zenon
  <2>3. job.thread \in 0 .. Len(where') /\ job.project \in Projects \cup {None}
    BY <1>1, JobFields
  <2>6. selected' # None
    BY <1>1, <1>2, <1>4, RouteFields, InputAssumption
  <2>4. "picked" \in Before \cup {"picked", "consumed", "clear"} /\ "picked" \notin Before
    BY DEF Before
  <2>5. QED
    BY <1>1, <1>3, <2>1, <2>2, <2>3, <2>4, <2>6, GoesOn, Zenon
<1>5. CASE routes' = Spent(Pressed, "expired") /\ Ends /\ UNCHANGED selected
  <2>1. Rests /\ RoutesGrow
    BY <1>1, <1>2, <1>5, HandlerRests, SpentFields, Zenon DEF handleMinimalCallback, telegram
  <2>2. QED
    BY <1>1, <1>3, <1>5, <2>1, SimpleEnds, Zenon
<1>6. QED
  BY <1>4, <1>5, Zenon DEF handleMinimalCallback

\* The binding is kept or given up.
LEMMA ClearBindingFields ==
  ASSUME TypeOK, NEW project, clearMinimalBindingOutsideProject(project)
  PROVE  bound' \in [thread : 0 .. Len(where), cwd : Projects \cup {None}]
<1>1. bound' \in {bound, Unbound}
  BY Zenon DEF clearMinimalBindingOutsideProject
<1>2. QED
  BY <1>1, BoundFields

\* The menu of a working folder.
LEMMA ActionsEffect ==
  ASSUME TypeOK, JobFits, SentFits, Rests, job.pc \in {"picked", "consumed"}, where' = where,
         NEW rs \in Seq(RouteSet(Len(where))), Len(rs) = Len(routes),
         \A r \in DOMAIN routes : rs[r].action = routes[r].action,
         NEW project \in Projects, minimalProjectActions(rs, project)
  PROVE  TypeOK' /\ Grows /\ SimpleStep
<1> DEFINE new == <<Route("new", project, 0, 0), Route("open", project, 0, 0)>>
<1>1. Current.kind = "press" /\ job.pc # "idle"
  BY DEF JobFits
<1>2. Current.re # 0 /\ Current.re \in 0 .. Len(cards)
  BY <1>1, PressFields
<1>3. bound' \in [thread : 0 .. Len(where'), cwd : Projects \cup {None}]
  BY ClearBindingFields, Zenon DEF minimalProjectActions
<1>4. 0 \in 0 .. Len(where) /\ 0 \in Nat
  BY Lengths
<1>5. /\ Route("new", project, 0, 0) \in RouteSet(Len(where))
      /\ Route("open", project, 0, 0) \in RouteSet(Len(where))
  BY <1>4, RouteTyped, Zenon
<1>6. new \in Seq(RouteSet(Len(where)))
  BY <1>5
<1>7. PICK a : a = [NoAnswer EXCEPT !.edit = Current.re]
  OBVIOUS
<1>8. /\ a \in AnswerSet(Len(cards), Len(routes), Len(voices), Len(where))
      /\ a.edit = Current.re /\ a.voice = 0 /\ a.verdict = "none" /\ a.about = 0 /\ a.list = FALSE
  <2>1. NoAnswer \in AnswerSet(Len(cards), Len(routes), Len(voices), Len(where))
    BY IdleTyped, Lengths
  <2>2. a \in AnswerSet(Len(cards), Len(routes), Len(voices), Len(where))
    BY <1>2, <1>7, <2>1, Zenon DEF AnswerSet
  <2>3. QED
    BY <1>7, <2>2, Zenon DEF NoAnswer
<1>9. Offers(rs, new, a)
  BY <1>7, Zenon DEF minimalProjectActions
<1> HIDE DEF new
<1>10. job.pc \in {"handle", "picked", "consumed", "clear"} \cup Before
  OBVIOUS
<1>11. QED
  BY <1>1, <1>3, <1>6, <1>8, <1>9, <1>10, OffersMenu, Zenon

\* The folder that was selected shows its menu.
LEMMA ShowActionsEffect ==
  ASSUME IInv, ShowActions
  PROVE  TypeOK' /\ Grows /\ SimpleStep
<1>1. /\ TypeOK /\ JobFits /\ SentFits /\ job.pc = "picked" /\ job.pc # "idle" /\ where' = where
      /\ selected' = selected
  BY Zenon DEF IInv, ShowActions
<1>2. selected \in Projects /\ Current.kind = "press"
  BY <1>1, Types DEF JobFits, Scalars
<1>3. Pressed \in DOMAIN routes
  BY <1>1, <1>2, PressFields
<1>4. /\ Spent(Pressed, "expired") \in Seq(RouteSet(Len(where)))
      /\ Len(Spent(Pressed, "expired")) = Len(routes)
      /\ \A q \in DOMAIN routes : Spent(Pressed, "expired")[q].action = routes[q].action
  BY <1>1, <1>3, SpentFields, Zenon
<1>5. Rests
  BY <1>1, HandlerRests, Zenon DEF ShowActions, telegram
<1>6. PICK rs : rs = Spent(Pressed, "expired")
  OBVIOUS
<1>7. minimalProjectActions(rs, selected)
  BY <1>6, Zenon DEF ShowActions
<1>8. QED
  BY <1>1, <1>2, <1>4, <1>5, <1>6, <1>7, ActionsEffect, Zenon

\* A button of another menu is spent.
LEMMA ConsumeEffect ==
  ASSUME IInv, ConsumeMinimalPickerRoute
  PROVE  TypeOK' /\ Grows /\ SimpleStep
<1>1. /\ TypeOK /\ JobFits /\ SentFits /\ job.pc = "handle" /\ job.pc # "idle"
      /\ Current.kind = "press" /\ where' = where
  BY Zenon DEF IInv, ConsumeMinimalPickerRoute, Handles
<1>2. Pressed \in DOMAIN routes
  BY <1>1, PressFields
<1>3. WhereGrows /\ bound' \in [thread : 0 .. Len(where'), cwd : Projects \cup {None}]
  BY <1>1, WhereStays, BoundFields, Zenon DEF ConsumeMinimalPickerRoute
<1>4. Rests
  BY <1>1, HandlerRests, Zenon DEF ConsumeMinimalPickerRoute, telegram
<1>5. RoutesGrow
  <2>1. \/ \E s \in {"consumed", "expired"} : routes' = Spent(Pressed, s)
        \/ routes' = routes
    BY Zenon DEF ConsumeMinimalPickerRoute
  <2>2. QED
    BY <1>1, <1>2, <2>1, SpentFields, RoutesStay
<1>6. Goes([job EXCEPT !.pc = "consumed"]) \/ Ends
  BY Zenon DEF ConsumeMinimalPickerRoute
<1>7. CASE Goes([job EXCEPT !.pc = "consumed"])
  <2>1. Goes([job EXCEPT !.pc = "consumed", !.thread = job.thread, !.project = job.project])
    BY <1>1, <1>7, SameJob, Zenon
  <2>2. job.thread \in 0 .. Len(where') /\ job.project \in Projects \cup {None}
    BY <1>1, JobFields
  <2>3. /\ "consumed" \in Before \cup {"picked", "consumed", "clear"}
        /\ "consumed" \notin Before /\ "consumed" # "picked"
    BY DEF Before
  <2>4. QED
    BY <1>1, <1>3, <1>4, <1>5, <2>1, <2>2, <2>3, GoesOn, Zenon
<1>8. CASE Ends
  BY <1>1, <1>3, <1>4, <1>5, <1>8, SimpleEnds, Zenon
<1>9. QED
  BY <1>6, <1>7, <1>8

\* A press that goes on is one of a button that exists.
LEMMA ConsumedFields ==
  ASSUME IInv, NEW A, Consumed(A)
  PROVE  /\ TypeOK /\ JobFits /\ SentFits /\ job.pc = "consumed" /\ job.pc # "idle"
         /\ Current.kind = "press" /\ Pressed \in DOMAIN routes
<1>1. TypeOK /\ JobFits /\ SentFits /\ job.pc = "consumed" /\ job.pc # "idle"
  BY Zenon DEF IInv, Consumed
<1>2. Current.kind = "press"
  BY <1>1 DEF JobFits
<1>3. QED
  BY <1>1, <1>2, PressFields

\* The next text is to start a conversation.
LEMMA PickNewEffect ==
  ASSUME IInv, PickNew
  PROVE  TypeOK' /\ Grows /\ SimpleStep
<1>1. CASE /\ Consumed({"new"})
           /\ selected' = routes[Pressed].project
           /\ Goes([job EXCEPT !.pc = "clear"])
           /\ UNCHANGED <<telegram, where, bot, bound, routes, voices, expired, faults, ran>>
  <2>1. /\ TypeOK /\ JobFits /\ job.pc = "consumed" /\ Current.kind = "press"
        /\ Pressed \in DOMAIN routes
    BY <1>1, ConsumedFields
  <2>2. selected' \in Projects
    BY <1>1, <2>1, RouteFields
  <2>3. Rests /\ RoutesGrow /\ WhereGrows
    BY <1>1, <2>1, <2>2, HandlerRests, RoutesStay, WhereStays, Zenon DEF telegram
  <2>4. bound' \in [thread : 0 .. Len(where'), cwd : Projects \cup {None}]
    BY <1>1, <2>1, BoundFields, Zenon
  <2>5. Goes([job EXCEPT !.pc = "clear", !.thread = job.thread, !.project = job.project])
    BY <1>1, <2>1, SameJob, Zenon
  <2>6. job.thread \in 0 .. Len(where') /\ job.project \in Projects \cup {None}
    BY <1>1, <2>1, JobFields
  <2>7. /\ "clear" \in Before \cup {"picked", "consumed", "clear"}
        /\ "clear" \notin Before /\ "clear" # "picked"
    BY DEF Before
  <2>8. QED
    BY <2>1, <2>3, <2>4, <2>5, <2>6, <2>7, GoesOn, Zenon
<1>2. CASE /\ job.pc = "clear"
           /\ bound' = Unbound
           /\ Answers([NoAnswer EXCEPT !.edit = Current.re])
           /\ UNCHANGED <<telegram, where, bot, selected, routes, voices, expired, faults, ran>>
  <2>1. TypeOK /\ JobFits /\ SentFits /\ job.pc # "idle"
    BY <1>2, Zenon DEF IInv
  <2>2. Current.kind = "press"
    BY <1>2, <2>1 DEF JobFits
  <2>3. Rests
    BY <1>2, <2>1, HandlerRests, Zenon DEF telegram
  <2>4. bound' \in [thread : 0 .. Len(where'), cwd : Projects \cup {None}]
    BY <1>2, <2>1, BoundFields, Zenon
  <2>5. PICK a : a = [NoAnswer EXCEPT !.edit = Current.re]
    OBVIOUS
  <2>6. a \in AnswerSet(Len(cards), Len(routes), Len(voices), Len(where))
    BY <2>1, <2>2, <2>5, EditTyped, PressFields, Zenon
  <2>7. /\ a.edit = Current.re /\ a.voice = 0 /\ a.verdict = "none" /\ a.about = 0
        /\ a.list = FALSE
    BY <2>5, Zenon DEF NoAnswer
  <2>8. Answers(a)
    BY <1>2, <2>5, Zenon
  <2>9. QED
    BY <1>2, <2>1, <2>2, <2>3, <2>4, <2>6, <2>7, <2>8, AnswersPlainly, Zenon
<1>3. QED
  BY <1>1, <1>2, Zenon DEF PickNew

\* Back to the menu of the folder.
LEMMA PickBackEffect ==
  ASSUME IInv, PickBack
  PROVE  TypeOK' /\ Grows /\ SimpleStep
<1>1. /\ TypeOK /\ JobFits /\ SentFits /\ job.pc = "consumed" /\ Pressed \in DOMAIN routes
  BY ConsumedFields, Zenon DEF PickBack
<1>2. Rests
  BY <1>1, HandlerRests, Zenon DEF PickBack, telegram
<1>3. routes \in Seq(RouteSet(Len(where))) /\ routes[Pressed].project \in Projects
  BY <1>1, Types, RouteFields DEF Typed
<1>4. minimalProjectActions(routes, routes[Pressed].project) /\ where' = where
  BY Zenon DEF PickBack
<1>5. QED
  BY <1>1, <1>2, <1>3, <1>4, ActionsEffect, Zenon

\* The page that is shown is one of those there are.
LEMMA PageFields ==
  ASSUME NEW asked \in Nat, NEW n \in Nat, n # 0
  PROVE  /\ PageShown(asked, n) \in Nat
         /\ \E i \in 0 .. n - 1 : i \div PageSize = PageShown(asked, n)
<1>0. PageSize \in Nat /\ PageSize > 0
  BY InputAssumption
<1>1. CASE asked * PageSize >= n
  <2>1. (n - 1) \div PageSize \in Nat
    BY <1>0
  <2>2. QED
    BY <1>1, <2>1 DEF PageShown
<1>2. CASE ~(asked * PageSize >= n)
  <2>1. asked * PageSize \in Nat
    BY <1>0
  <2>2. (asked * PageSize) \div PageSize = asked
    BY <1>0
  <2>3. QED
    BY <1>2, <2>1, <2>2 DEF PageShown
<1>3. QED
  BY <1>1, <1>2

\* It is not empty.
LEMMA PageFull ==
  ASSUME NEW asked \in Nat, NEW n \in Nat, n # 0
  PROVE  LET size == Cardinality({i \in 0 .. n - 1 : i \div PageSize = PageShown(asked, n)})
         IN  size \in Nat /\ size > 0
<1> DEFINE I == {i \in 0 .. n - 1 : i \div PageSize = PageShown(asked, n)}
<1>1. IsFiniteSet(0 .. n - 1)
  BY FS_Interval
<1>2. I \in SUBSET (0 .. n - 1)
  OBVIOUS
<1>3. I # {}
  BY PageFields
<1> HIDE DEF I
<1>4. IsFiniteSet(I)
  BY <1>1, <1>2, FS_Subset
<1>5. Cardinality(I) \in Nat /\ Cardinality(I) # 0
  BY <1>3, <1>4, FS_CardinalityType, FS_EmptySet
<1>6. Cardinality(I) > 0
  BY <1>5
<1>7. QED
  BY <1>5, <1>6 DEF I

\* A page of conversations, or the notice that there are none.
LEMMA PageEffect ==
  ASSUME TypeOK, JobFits, SentFits, Rests, job.pc = "consumed", where' = where,
         bound' \in [thread : 0 .. Len(where'), cwd : Projects \cup {None}],
         NEW project \in Projects, NEW asked \in Nat, minimalExistingThreadPage(project, asked)
  PROVE  TypeOK' /\ Grows /\ SimpleStep
<1> DEFINE all == minimalAllProjectThreads(project)
           n == Cardinality(all)
           page == PageShown(asked, n)
           size == Cardinality({i \in 0 .. n - 1 : i \div PageSize = page})
           Left == IF page > 0 THEN <<Route("open", project, 0, page - 1)>> ELSE <<>>
           Right == IF (page + 1) * PageSize < n THEN <<Route("open", project, 0, page + 1)>>
                    ELSE <<>>
           Nav == Left \o Right \o <<Route("back", project, 0, 0)>>
           Menu(shown) == [i \in 1 .. size |-> Route("select", project, SetToSeq(shown)[i], page)]
           R == RouteSet(Len(where))
           A == AnswerSet(Len(cards), Len(routes), Len(voices), Len(where))
<1>1. Current.kind = "press" /\ job.pc # "idle"
  BY DEF JobFits
<1>2. Current.re # 0 /\ Current.re \in 0 .. Len(cards)
  BY <1>1, PressFields
<1>3. routes \in Seq(R) /\ Len(where) \in Nat /\ 0 \in 0 .. Len(where) /\ 0 \in Nat
  BY Types, Lengths DEF Typed
<1>4. Route("open", project, 0, 0) \in R /\ Route("back", project, 0, 0) \in R
  BY <1>3, RouteTyped, Zenon
<1>5. PICK a : a = [NoAnswer EXCEPT !.edit = Current.re]
  OBVIOUS
<1>6. /\ a \in A /\ a.edit = Current.re /\ a.voice = 0 /\ a.verdict = "none" /\ a.about = 0
      /\ a.list = FALSE
  BY <1>2, <1>5, EditTyped, Zenon DEF NoAnswer
<1>7. job.pc \in {"handle", "picked", "consumed", "clear"} \cup Before
  OBVIOUS
<1>8. CASE all = {}
  <2> DEFINE new == <<Route("open", project, 0, 0), Route("back", project, 0, 0)>>
  <2>1. new \in Seq(R)
    BY <1>4
  <2>2. Offers(routes, new, a)
    BY <1>5, <1>8, Zenon DEF minimalExistingThreadPage
  <2> HIDE DEF new
  <2>3. QED
    BY <1>1, <1>3, <1>6, <1>7, <2>1, <2>2, OffersMenu, Zenon
<1>9. CASE all # {}
  <2>1. PICK shown \in SUBSET all :
          /\ Cardinality(shown) = size
          /\ Offers(routes, Menu(shown) \o Nav,
                    [NoAnswer EXCEPT !.edit = Current.re, !.list = TRUE])
    BY <1>9, Zenon DEF minimalExistingThreadPage
  <2>2. all \in SUBSET (1 .. Len(where)) /\ IsFiniteSet(1 .. Len(where))
    BY <1>3, FS_Interval DEF minimalAllProjectThreads, Threads
  <2>3. IsFiniteSet(all) /\ IsFiniteSet(shown)
    BY <2>1, <2>2, FS_Subset, Zenon
  <2>4. n \in Nat /\ n # 0
    BY <1>9, <2>3, FS_CardinalityType, FS_EmptySet, Zenon
  <2>5. page \in Nat /\ size \in Nat /\ size > 0
    BY <2>4, PageFields, PageFull
  <2>6. SetToSeq(shown) \in [1 .. size -> shown]
    BY <2>1, <2>3, SetToSeqFields, Zenon
  <2> HIDE DEF size, page, n, all
  <2>7. \A i \in 1 .. size : SetToSeq(shown)[i] \in 0 .. Len(where)
    BY <1>3, <2>1, <2>2, <2>6
  <2>8. \A i \in 1 .. size : /\ Menu(shown)[i] \in R
                             /\ Menu(shown)[i].action = "select"
    <3>1. ASSUME NEW i \in 1 .. size
          PROVE  /\ Route("select", project, SetToSeq(shown)[i], page) \in R
                 /\ Route("select", project, SetToSeq(shown)[i], page).action = "select"
      <4>1. SetToSeq(shown)[i] \in 0 .. Len(where)
        BY <2>7, Zenon
      <4>2. "select" \in {"pick", "new", "open", "back", "select"} /\ page \in Nat
        BY <2>5
      <4>3. QED
        BY <4>1, <4>2, RouteTyped, SMTT(30)
    <3> HIDE DEF R
    <3>2. QED
      BY <3>1, Zenon
  <2>9. Menu(shown) \in Seq(R) /\ Len(Menu(shown)) = size
    BY <2>5, <2>8
  <2>10. Nav \in Seq(R)
    <3>1. page > 0 => page - 1 \in Nat
      BY <2>5
    <3>2. page + 1 \in Nat
      BY <2>5
    <3>3. /\ page > 0 => Route("open", project, 0, page - 1) \in R
          /\ Route("open", project, 0, page + 1) \in R
      BY <1>3, <3>1, <3>2, RouteTyped, ZenonT(30)
    <3> HIDE DEF R
    <3>4. Left \in Seq(R) /\ Right \in Seq(R)
      BY <3>3
    <3> HIDE DEF Left, Right
    <3>5. Left \o Right \in Seq(R)
      BY <3>4
    <3>6. <<Route("back", project, 0, 0)>> \in Seq(R)
      BY <1>4 DEF R
    <3>7. QED
      BY <3>5, <3>6, ConcatFields
  <2>11. PICK m : m = Menu(shown)
    OBVIOUS
  <2>12. PICK new : new = m \o Nav
    OBVIOUS
  <2> HIDE DEF Menu, Nav, R
  <2>13. new \in Seq(R) /\ Len(new) = Len(m) + Len(Nav)
    BY <2>9, <2>10, <2>11, <2>12, ConcatFields
  <2>14. 1 \in 1 .. Len(new) /\ new[1].action = "select"
    <3>1. m \in Seq(R) /\ Len(m) \in Nat /\ Len(m) > 0 /\ Len(Nav) \in Nat
      BY <2>5, <2>9, <2>10, <2>11
    <3>2. new[1] = m[1] /\ 1 \in 1 .. Len(new)
      BY <2>10, <2>12, <2>13, <3>1
    <3>3. m[1].action = "select"
      BY <2>5, <2>8, <2>11
    <3>4. QED
      BY <3>2, <3>3
  <2>15. PICK b : b = [NoAnswer EXCEPT !.edit = Current.re, !.list = TRUE]
    OBVIOUS
  <2>16. /\ b \in A /\ b.edit = Current.re /\ b.voice = 0 /\ b.verdict = "none" /\ b.about = 0
         /\ b.list = TRUE
    <3>1. b = [a EXCEPT !.list = TRUE]
      BY <1>5, <2>15, Zenon DEF NoAnswer
    <3>2. QED
      BY <1>6, <3>1, Zenon DEF AnswerSet
  <2>17. Offers(routes, new, b)
    BY <2>1, <2>11, <2>12, <2>15
  <2>18. new \in Seq(RouteSet(Len(where))) /\ routes \in Seq(RouteSet(Len(where)))
    BY <1>3, <2>13 DEF R
  <2>19. QED
    BY <1>1, <1>7, <2>14, <2>16, <2>17, <2>18, OffersMenu, Zenon
<1>10. QED
  BY <1>8, <1>9

\* A page of conversations is shown.
LEMMA PickPageEffect ==
  ASSUME IInv, PickPage
  PROVE  TypeOK' /\ Grows /\ SimpleStep
<1>1. /\ TypeOK /\ JobFits /\ SentFits /\ job.pc = "consumed" /\ Pressed \in DOMAIN routes
  BY ConsumedFields, Zenon DEF PickPage
<1>2. Rests /\ where' = where
  BY <1>1, HandlerRests, Zenon DEF PickPage, telegram
<1>3. bound' \in [thread : 0 .. Len(where'), cwd : Projects \cup {None}]
  BY <1>1, BoundFields, Zenon DEF PickPage
<1>4. CASE minimalExistingThreadPage(routes[Pressed].project, routes[Pressed].page)
  <2>1. routes[Pressed].project \in Projects /\ routes[Pressed].page \in Nat
    BY <1>1, RouteFields
  <2>2. QED
    BY <1>1, <1>2, <1>3, <1>4, <2>1, PageEffect, Zenon
<1>5. CASE Ends /\ routes' = routes
  <2>1. job.pc \in {"handle", "picked", "consumed", "clear"} \cup Before
    BY <1>1
  <2>2. QED
    BY <1>1, <1>2, <1>3, <1>5, <2>1, RoutesStay, WhereStays, SimpleEnds, Zenon
<1>6. QED
  BY <1>4, <1>5, Zenon DEF PickPage

\* A conversation is bound, or the page is shown again.
LEMMA SelectEffect ==
  ASSUME IInv, selectMinimalExistingThread
  PROVE  TypeOK' /\ Grows /\ SimpleStep
<1>1. /\ TypeOK /\ JobFits /\ SentFits /\ job.pc = "consumed" /\ job.pc # "idle"
      /\ Pressed \in DOMAIN routes
  BY ConsumedFields, Zenon DEF selectMinimalExistingThread
<1>2. PICK r : r = routes[Pressed]
  OBVIOUS
<1>3. r.project \in Projects /\ r.thread \in 0 .. Len(where) /\ r.page \in Nat
  BY <1>1, <1>2, RouteFields
<1>4. Rests /\ where' = where
  BY <1>1, HandlerRests, Zenon DEF selectMinimalExistingThread, telegram
<1>5. CASE /\ bound' = [thread |-> r.thread, cwd |-> r.project]
           /\ Answers([NoAnswer EXCEPT !.about = r.thread])
           /\ routes' = routes
  <2>1. bound' \in [thread : 0 .. Len(where'), cwd : Projects \cup {None}]
    BY <1>3, <1>4, <1>5
  <2>2. PICK a : a = [NoAnswer EXCEPT !.about = r.thread]
    OBVIOUS
  <2>3. /\ a \in AnswerSet(Len(cards), Len(routes), Len(voices), Len(where))
        /\ a.edit = 0 /\ a.voice = 0 /\ a.verdict = "none" /\ a.list = FALSE
    <3>1. NoAnswer \in AnswerSet(Len(cards), Len(routes), Len(voices), Len(where))
      BY <1>1, IdleTyped, Lengths
    <3>2. a \in AnswerSet(Len(cards), Len(routes), Len(voices), Len(where))
      BY <1>3, <2>2, <3>1, Zenon DEF AnswerSet
    <3>3. QED
      BY <2>2, <3>2, Zenon DEF NoAnswer
  <2>4. Answers(a)
    BY <1>5, <2>2, Zenon
  <2>5. job.pc \in {"handle", "picked", "consumed", "clear"} \cup Before
    BY <1>1
  <2>6. QED
    BY <1>1, <1>4, <1>5, <2>1, <2>3, <2>4, <2>5, AnswersPlainly, Zenon
<1>6. CASE minimalExistingThreadPage(r.project, r.page) /\ bound' = bound
  <2>1. bound' \in [thread : 0 .. Len(where'), cwd : Projects \cup {None}]
    BY <1>1, <1>4, <1>6, BoundFields, Zenon
  <2>2. QED
    BY <1>1, <1>3, <1>4, <1>6, <2>1, PageEffect, Zenon
<1>7. QED
  BY <1>2, <1>5, <1>6, Zenon DEF selectMinimalExistingThread

-----------------------------------------------------------------------------
(***************************************************************************)
(* What every step keeps.                                                  *)
(***************************************************************************)

\* An update names a card that exists.
LEMMA SentFields ==
  ASSUME TypeOK, NEW u \in DOMAIN sent
  PROVE  /\ sent[u].re \in 0 .. Len(cards) /\ sent[u].route \in 0 .. Len(routes)
         /\ u \in 1 .. Len(sent)
<1>1. sent[u] \in UpdateSet(Len(cards), Len(routes))
  BY Types, Lengths DEF Typed
<1>2. QED
  BY <1>1, Lengths DEF UpdateSet

\* The update in hand and its card stay what they are.
LEMMA CurrentStays ==
  ASSUME TypeOK, TypeOK', JobFits, Grows, job.pc # "idle", job'.u = job.u
  PROVE  /\ Current' = Current
         /\ Current.re # 0 =>
              /\ Current.re \in DOMAIN cards /\ Current.re \in DOMAIN cards'
              /\ VoiceOf' = VoiceOf
<1>1. job.u \in DOMAIN sent /\ Current.re \in 0 .. Len(cards)
  BY CurrentFields
<1>2. Current' = Current
  BY <1>1, Zenon DEF Grows, Current
<1>3. ASSUME Current.re # 0
      PROVE  Current.re \in DOMAIN cards /\ Current.re \in 1 .. Len(cards')
  BY <1>1, <1>3, Lengths, SMTT(30) DEF Grows
<1>4. ASSUME Current.re # 0
      PROVE  VoiceOf' = VoiceOf
  BY <1>2, <1>3, <1>4, Zenon DEF Grows, VoiceOf
<1>5. DOMAIN cards' = 1 .. Len(cards')
  BY LengthsNext
<1>6. QED
  BY <1>2, <1>3, <1>4, <1>5

\* When nothing is given to Codex, no voice command is.
LEMMA RunsStay ==
  ASSUME TypeOK, SentFits, ran' = ran, NEW v,
         \A u \in DOMAIN sent : sent'[u] = sent[u],
         \A c \in DOMAIN cards : cards'[c].voice = cards[c].voice
  PROVE  RunsOf(v)' = RunsOf(v)
<1>1. ASSUME NEW i \in DOMAIN ran
      PROVE  /\ sent'[ran[i].u] = sent[ran[i].u]
             /\ sent[ran[i].u].kind = "confirm" =>
                  cards'[sent[ran[i].u].re].voice = cards[sent[ran[i].u].re].voice
  <2>1. ran[i].u \in DOMAIN sent /\ sent[ran[i].u].re \in 0 .. Len(cards)
    BY RunFields
  <2>2. sent'[ran[i].u] = sent[ran[i].u]
    BY <2>1, Zenon
  <2>3. ASSUME sent[ran[i].u].kind = "confirm"
        PROVE  sent[ran[i].u].re \in DOMAIN cards
    BY <2>1, <2>3, Lengths DEF SentFits
  <2>4. QED
    BY <2>2, <2>3, Zenon
<1>2. QED
  BY <1>1, Zenon DEF RunsOf

\* So it is when the tables grow.
LEMMA RunsSame ==
  ASSUME TypeOK, Grows, SentFits, ran' = ran, NEW v
  PROVE  RunsOf(v)' = RunsOf(v)
BY RunsStay DEF Grows

\* Buttons that lead to a conversation still do.
LEMMA SelectStays ==
  ASSUME TypeOK, Grows, NEW b \in SUBSET (1 .. Len(routes)), HasSelect(b)
  PROVE  HasSelect(b)'
BY Lengths DEF HasSelect, Grows

\* What is in order stays so while nothing is run.
LEMMA InOrderKept ==
  ASSUME TypeOK, InOrder, UpdateRunsOnce, UNCHANGED <<ran, life, offset, batch>>,
         \/ job' = job
         \/ job' = Idle
         \/ /\ job.pc # "idle" /\ job'.u = job.u
            /\ job'.pc \in {"handle"} \cup Before => job.pc \in {"handle"} \cup Before
  PROVE  InOrder' /\ UpdateRunsOnce'
<1>0. ran' = ran /\ life' = life /\ offset' = offset /\ batch' = batch
  OBVIOUS
<1>1. UpdateRunsOnce' /\ Behind'
  BY <1>0, Zenon DEF UpdateRunsOnce, InOrder, Behind
<1>2. CASE job' = job
  BY <1>0, <1>1, <1>2, Zenon DEF InOrder
<1>3. CASE job' = Idle
  <2>1. job'.pc = "idle" /\ job'.pc \notin {"handle"} \cup Before
    BY <1>3, IdleFields DEF Before
  <2>2. QED
    BY <1>1, <2>1, Zenon DEF InOrder
<1>4. CASE /\ job.pc # "idle" /\ job'.u = job.u
           /\ job'.pc \in {"handle"} \cup Before => job.pc \in {"handle"} \cup Before
  BY <1>0, <1>1, <1>4, Zenon DEF InOrder
<1>5. QED
  BY <1>2, <1>3, <1>4, <1>1

\* A confirmation names the card of a voice command.
LEMMA ConfirmFields ==
  ASSUME TypeOK, JobFits, SentFits, job.pc # "idle", Current.kind = "confirm"
  PROVE  /\ Current.re # 0 /\ Current.re \in DOMAIN cards /\ Current.re \in 0 .. Len(cards)
         /\ VoiceOf # 0 /\ VoiceOf \in DOMAIN voices
<1>1. job.u \in DOMAIN sent /\ Current.re \in 0 .. Len(cards)
  BY CurrentFields
<1>2. Current.re # 0 /\ VoiceOf # 0
  BY <1>1 DEF SentFits, Current, VoiceOf
<1>3. Current.re \in DOMAIN cards
  BY <1>1, <1>2, Lengths
<1>4. VoiceOf \in 0 .. Len(voices)
  BY <1>3, CardFields DEF VoiceOf
<1>5. QED
  BY <1>1, <1>2, <1>3, <1>4, Lengths

\* A simple step disturbs nothing.
LEMMA SimpleKeeps ==
  ASSUME IInv, TypeOK', Grows, SimpleStep
  PROVE  IInv'
<1>0. /\ TypeOK /\ SentFits /\ JobFits /\ InOrder /\ UpdateRunsOnce /\ VoicesFit /\ VerdictsFit
      /\ CardsFit /\ TextsFit /\ TextsRunWhereMeant /\ ListsFit
  BY Zenon DEF IInv
<1>1. /\ sent' = sent /\ cards' = cards /\ offset' = offset /\ batch' = batch /\ life' = life
      /\ voices' = voices /\ ran' = ran
      /\ job.pc \in {"handle", "picked", "consumed", "clear"} \cup Before
      /\ job' = Idle \/ Passes
  BY Zenon DEF SimpleStep
<1>2. job.pc # "idle" /\ job.answer.voice = 0
  <2>1. job.pc \notin {"edit", "route", "send", "register"} /\ job.pc # "idle"
    BY <1>1 DEF Before
  <2>2. QED
    BY <1>0, <2>1, IdleFields DEF JobFits
<1>3. CASE job' = Idle
  <2>1. /\ job'.pc = "idle" /\ job'.answer = NoAnswer /\ job'.answer.voice = 0
        /\ job'.answer.list = FALSE /\ job'.pc \notin Before /\ job'.pc # "edit"
    BY <1>3, IdleFields DEF Before
  <2>2. SentFits' /\ TextsRunWhereMeant'
    BY <1>0, <1>1, Zenon DEF SentFits, TextsRunWhereMeant
  <2>3. JobFits'
    BY <1>3, <2>1 DEF JobFits
  <2>4. InOrder' /\ UpdateRunsOnce'
    BY <1>0, <1>1, <1>3, InOrderKept, Zenon
  <2>5. VoicesFit'
    <3>1. \A v \in DOMAIN voices : RunsFit(v)' /\ PendingFits(v)'
      <4>1. ASSUME NEW v \in DOMAIN voices
            PROVE  PendingFits(v)'
        <5>1. v # 0
          BY <1>0, Lengths
        <5>2. QED
          BY <1>0, <1>1, <1>2, <2>1, <5>1, Zenon DEF VoicesFit, PendingFits
      <4>2. QED
        BY <1>0, <1>1, <4>1, RunsSame, Zenon DEF VoicesFit, RunsFit
    <3>2. QED
      BY <1>1, <2>1, <3>1, Zenon DEF VoicesFit
  <2>6. VerdictsFit'
    BY <1>0, <1>1, <2>1, RunsSame, Zenon DEF VerdictsFit, VerdictFits
  <2>7. CardsFit' /\ TextsFit'
    BY <1>0, <1>1, <2>1, Zenon DEF CardsFit, CardFits, TextsFit
  <2>8. ListsFit'
    BY <1>0, <1>1, <2>1, CardFields, SelectStays, Zenon DEF ListsFit
  <2>9. QED
    BY <2>2, <2>3, <2>4, <2>5, <2>6, <2>7, <2>8, Zenon DEF IInv
<1>4. CASE Passes
  <2>1. /\ job'.u = job.u /\ job'.answer.voice = 0
        /\ job'.answer.verdict \in {"none", "unsure", "refused"}
        /\ job'.pc \in Before \cup {"picked", "consumed", "clear", "edit", "send"}
        /\ job'.answer.about # 0 =>
             \/ job'.pc = "send"
             \/ job.pc = "thread" /\ Current.kind = "confirm" /\ job'.answer.about = job.thread
    BY <1>4 DEF Passes
  <2>2. Current' = Current /\ (Current.re # 0 => VoiceOf' = VoiceOf)
    BY <1>0, <1>2, <2>1, CurrentStays
  <2>3. SentFits' /\ TextsRunWhereMeant'
    BY <1>0, <1>1, Zenon DEF SentFits, TextsRunWhereMeant
  <2>4. JobFits'
    <3>1. job'.pc \notin {"idle", "route", "register"} /\ job'.u # 0
      BY <1>0, <1>2, <2>1 DEF Before, JobFits
    <3>2. job'.pc \in {"new", "turn"} => job'.project # None
      BY <1>0, <1>4 DEF Passes, Before, TextsFit
    <3>3. QED
      BY <1>4, <2>2, <3>1, <3>2 DEF JobFits, Passes
  <2>5. InOrder' /\ UpdateRunsOnce'
    <3>1. job'.pc \in {"handle"} \cup Before => job.pc \in {"handle"} \cup Before
      BY <1>1, <1>4 DEF Passes, Before
    <3>2. QED
      BY <1>0, <1>1, <1>2, <2>1, <3>1, InOrderKept, Zenon
  <2>12. ASSUME job'.pc \in Before, Current.kind = "confirm"
         PROVE  /\ job.pc \in Before /\ job.pc # "thread" /\ job'.pc # "thread"
                /\ VoiceOf' = VoiceOf
    <3>1. job.pc = "new" /\ job'.pc = "turn"
      BY <1>4, <2>12 DEF Passes
    <3>2. Current.re # 0
      BY <1>0, <1>2, <2>12, CurrentFields DEF SentFits, Current
    <3>3. QED
      BY <2>2, <3>1, <3>2 DEF Before
  <2>6. VoicesFit'
    <3>1. \A v \in DOMAIN voices : RunsFit(v)' /\ PendingFits(v)'
      <4>1. ASSUME NEW v \in DOMAIN voices
            PROVE  PendingFits(v)'
        <5>1. v # 0
          BY <1>0, Lengths
        <5>2. QED
          BY <1>0, <1>1, <1>2, <2>1, <5>1, Zenon DEF VoicesFit, PendingFits
      <4>2. QED
        BY <1>0, <1>1, <4>1, RunsSame, Zenon DEF VoicesFit, RunsFit
    <3>2. (job'.pc \in Before /\ Current'.kind = "confirm") =>
            voices'[VoiceOf'].status = "executed" /\ RunsOf(VoiceOf)' = {}
      <4>1. PICK v : v = VoiceOf
        OBVIOUS
      <4>2. RunsOf(v)' = RunsOf(v)
        BY <1>0, <1>1, RunsSame
      <4>3. QED
        BY <1>0, <1>1, <2>2, <2>12, <4>1, <4>2, Zenon DEF VoicesFit
    <3>3. QED
      BY <1>1, <2>1, <3>1, <3>2, Zenon DEF VoicesFit
  <2>7. VerdictsFit'
    <3>1. job'.answer.verdict # "started" /\ job'.answer.verdict # "cancelled"
      BY <2>1
    <3>2. VerdictFits(job.answer.verdict, VoiceOf)'
      BY <3>1 DEF VerdictFits
    <3>3. \A c \in DOMAIN cards : VerdictFits(cards[c].verdict, cards[c].voice)'
      BY <1>0, <1>1, RunsSame, Zenon DEF VerdictsFit, VerdictFits
    <3>4. QED
      BY <1>1, <3>2, <3>3, Zenon DEF VerdictsFit
  <2>8. CardsFit'
    <3>1. (job'.pc \in Before /\ Current'.kind = "confirm") =>
            cards'[Current'.re].about = IF job'.pc = "thread" THEN job'.thread ELSE 0
      BY <1>0, <1>1, <2>2, <2>12, Zenon DEF CardsFit
    <3>2. ASSUME job'.pc = "edit", job'.answer.about # 0
          PROVE  /\ Current'.kind = "confirm" /\ voices'[VoiceOf'].status = "executed"
                 /\ cards'[Current'.re].about \in {0, job'.answer.about}
      <4>1. /\ job.pc = "thread" /\ job.pc \in Before /\ Current.kind = "confirm"
            /\ job'.answer.about = job.thread
        BY <2>1, <3>2 DEF Before
      <4>2. VoiceOf' = VoiceOf
        BY <1>0, <1>2, <2>2, <4>1, ConfirmFields
      <4>3. voices[VoiceOf].status = "executed" /\ cards[Current.re].about = job.thread
        BY <1>0, <4>1, Zenon DEF VoicesFit, CardsFit
      <4>4. QED
        BY <1>1, <2>2, <4>1, <4>2, <4>3
    <3>3. QED
      BY <1>0, <1>1, <2>1, <3>1, <3>2, Zenon DEF CardsFit, CardFits
  <2>9. TextsFit'
    BY <1>1, <1>4, <2>2 DEF TextsFit, Passes
  <2>10. ListsFit'
    BY <1>0, <1>1, <1>4, CardFields, SelectStays, Zenon DEF ListsFit, Passes
  <2>11. QED
    BY <2>3, <2>4, <2>5, <2>6, <2>7, <2>8, <2>9, <2>10, Zenon DEF IInv
<1>5. QED
  BY <1>1, <1>3, <1>4

-----------------------------------------------------------------------------
(***************************************************************************)
(* What the other steps leave alone.                                       *)
(***************************************************************************)

\* The updates that were sent still fit.
LEMMA SentKept ==
  ASSUME TypeOK, Grows, SentFits, sent' = sent
  PROVE  SentFits'
<1>1. ASSUME NEW u \in DOMAIN sent, sent[u].kind = "confirm"
      PROVE  cards'[sent[u].re].voice = cards[sent[u].re].voice
  <2>1. sent[u].re \in DOMAIN cards
    BY <1>1, SentFields, Lengths DEF SentFits
  <2>2. QED
    BY <2>1, Zenon DEF Grows
<1>2. QED
  BY <1>1, Zenon DEF SentFits

\* The voice commands are left alone.
LEMMA VoicesKept ==
  ASSUME TypeOK, TypeOK', Grows, SentFits, JobFits, VoicesFit,
         voices' = voices, ran' = ran, life' = life, job'.answer.voice = job.answer.voice,
         job'.answer.voice # 0 => job'.pc \in {"send", "register"},
         job'.pc \in Before => job' = job
  PROVE  VoicesFit'
<1>1. \A v \in DOMAIN voices : RunsFit(v)'
  BY RunsSame, Zenon DEF VoicesFit, RunsFit
<1>2. ASSUME NEW v \in DOMAIN voices
      PROVE  PendingFits(v)'
  <2>1. v # 0
    BY Lengths
  <2>2. CASE voices[v].card = 0
    BY <2>1, <2>2, Zenon DEF VoicesFit, PendingFits
  <2>3. CASE voices[v].card # 0
    <3>1. voices[v].card \in DOMAIN cards
      BY <2>3, VoiceFields, Lengths
    <3>2. cards'[voices[v].card].voice = cards[voices[v].card].voice
      BY <3>1, Zenon DEF Grows
    <3>3. QED
      BY <2>1, <3>2, Zenon DEF VoicesFit, PendingFits
  <2>4. QED
    BY <2>2, <2>3
<1>3. job'.answer.voice # 0 =>
        job'.pc \in {"send", "register"} /\ voices'[job'.answer.voice].status = "pending"
  BY Zenon DEF VoicesFit
<1>4. ASSUME job'.pc \in Before, Current'.kind = "confirm"
      PROVE  voices'[VoiceOf'].status = "executed" /\ RunsOf(VoiceOf)' = {}
  <2>1. job' = job /\ job.pc # "idle"
    BY <1>4 DEF Before
  <2>2. Current' = Current
    BY <2>1, CurrentStays
  <2>3. Current.re # 0
    BY <1>4, <2>1, <2>2, ConfirmFields
  <2>4. VoiceOf' = VoiceOf
    BY <2>1, <2>3, CurrentStays
  <2>5. PICK v : v = VoiceOf
    OBVIOUS
  <2>6. RunsOf(v)' = RunsOf(v)
    BY RunsSame
  <2>7. QED
    BY <1>4, <2>1, <2>2, <2>4, <2>5, <2>6, Zenon DEF VoicesFit
<1>5. QED
  BY <1>1, <1>2, <1>3, <1>4, Zenon DEF VoicesFit

\* A card that was told the truth was told the truth.
LEMMA VerdictKept ==
  ASSUME TypeOK, Grows, NEW verdict, NEW v \in 0 .. Len(voices), VerdictFits(verdict, v),
         \A w \in DOMAIN voices : voices[w].status = "cancelled" => voices'[w].status = "cancelled",
         RunsOf(v) # {} => RunsOf(v)' # {}
  PROVE  VerdictFits(verdict, v)'
<1>1. v # 0 => v \in DOMAIN voices
  BY Lengths
<1>2. QED
  BY <1>1, Zenon DEF VerdictFits

\* The cards are told nothing.
LEMMA VerdictsKept ==
  ASSUME TypeOK, TypeOK', Grows, SentFits, JobFits, VerdictsFit,
         \A c \in DOMAIN cards : cards'[c].verdict = cards[c].verdict,
         \A c \in DOMAIN cards' : c \notin DOMAIN cards => cards'[c].verdict = "none",
         \A w \in DOMAIN voices : voices[w].status = "cancelled" => voices'[w].status = "cancelled",
         \A v : RunsOf(v) # {} => RunsOf(v)' # {},
         job'.pc = "edit" => job' = job
  PROVE  VerdictsFit'
<1>1. ASSUME NEW c \in DOMAIN cards'
      PROVE  VerdictFits(cards[c].verdict, cards[c].voice)'
  <2>1. CASE c \in DOMAIN cards
    <3>1. PICK x : x = cards[c].verdict
      OBVIOUS
    <3>2. PICK v : v = cards[c].voice
      OBVIOUS
    <3>3. v \in 0 .. Len(voices) /\ VerdictFits(x, v)
      BY <2>1, <3>1, <3>2, CardFields, Zenon DEF VerdictsFit
    <3>4. VerdictFits(x, v)'
      BY <3>3, VerdictKept, Zenon
    <3>5. cards'[c].verdict = x /\ cards'[c].voice = v
      BY <2>1, <3>1, <3>2, Zenon DEF Grows
    <3>6. QED
      BY <3>4, <3>5, Zenon
  <2>2. CASE c \notin DOMAIN cards
    <3>1. cards'[c].verdict = "none"
      BY <2>2
    <3>2. QED
      BY <3>1 DEF VerdictFits
  <2>3. QED
    BY <2>1, <2>2
<1>2. ASSUME job'.pc = "edit"
      PROVE  VerdictFits(job.answer.verdict, VoiceOf)'
  <2>1. job' = job /\ job.pc = "edit" /\ job.pc # "idle"
    BY <1>2
  <2>2. Current.re # 0
    BY <2>1, ConfirmFields, PressFields DEF JobFits
  <2>3. VoiceOf' = VoiceOf /\ Current.re \in DOMAIN cards
    BY <2>1, <2>2, CurrentStays
  <2>4. PICK x : x = job.answer.verdict
    OBVIOUS
  <2>5. PICK v : v = VoiceOf
    OBVIOUS
  <2>6. v \in 0 .. Len(voices) /\ VerdictFits(x, v)
    BY <2>1, <2>3, <2>4, <2>5, CardFields, Zenon DEF VerdictsFit, VoiceOf
  <2>7. VerdictFits(x, v)'
    BY <2>6, VerdictKept, Zenon
  <2>8. QED
    BY <2>1, <2>3, <2>4, <2>5, <2>7, Zenon
<1>3. QED
  BY <1>1, <1>2, Zenon DEF VerdictsFit

\* A card that is left alone still fits.
LEMMA CardKept ==
  ASSUME TypeOK, Grows, NEW c \in DOMAIN cards, CardFits(c),
         cards'[c].routed = cards[c].routed, cards'[c].about = cards[c].about,
         \A v \in DOMAIN voices : voices'[v].status = "pending" => voices[v].status = "pending"
  PROVE  CardFits(c)'
<1>1. cards'[c].voice = cards[c].voice
  BY Zenon DEF Grows
<1>2. CASE cards[c].voice = 0
  BY <1>1, <1>2, Zenon DEF CardFits
<1>3. CASE cards[c].voice # 0
  <2>1. cards[c].voice \in DOMAIN voices
    BY <1>3, CardFields, Lengths
  <2>2. voices'[cards[c].voice].thread = voices[cards[c].voice].thread
    BY <2>1, Zenon DEF Grows
  <2>3. QED
    BY <1>1, <2>1, <2>2, Zenon DEF CardFits
<1>4. QED
  BY <1>2, <1>3

\* No card is changed.
LEMMA CardsKept ==
  ASSUME TypeOK, TypeOK', Grows, SentFits, JobFits, CardsFit,
         \A c \in DOMAIN cards' : CardFits(c)',
         \A c \in DOMAIN cards : cards'[c].about = cards[c].about,
         \A v \in DOMAIN voices : voices[v].status = "executed" => voices'[v].status = "executed",
         \/ job' = job
         \/ job'.answer.voice = 0 /\ job'.pc \notin Before /\ job'.pc # "edit"
         \/ job'.answer = job.answer /\ job'.pc \notin Before /\ job'.pc # "edit"
  PROVE  CardsFit'
<1>1. CASE job' = job
  <2>1. ASSUME job.pc \in Before \cup {"edit"}, Current'.kind = "confirm"
        PROVE  /\ Current' = Current /\ VoiceOf' = VoiceOf
               /\ VoiceOf \in DOMAIN voices
               /\ cards'[Current.re].about = cards[Current.re].about
    <3>1. job.pc # "idle"
      BY <2>1 DEF Before
    <3>2. Current' = Current
      BY <1>1, <3>1, CurrentStays
    <3>3. Current.re # 0 /\ Current.re \in DOMAIN cards /\ VoiceOf \in DOMAIN voices
      BY <2>1, <3>1, <3>2, ConfirmFields
    <3>4. VoiceOf' = VoiceOf
      BY <1>1, <3>1, <3>3, CurrentStays
    <3>5. QED
      BY <3>2, <3>3, <3>4
  <2>2. ASSUME job.pc = "edit", job.answer.about # 0
        PROVE  Current'.kind = "confirm"
    <3>1. Current.kind = "confirm" /\ job.pc # "idle"
      BY <2>2, Zenon DEF CardsFit
    <3>2. QED
      BY <1>1, <3>1, CurrentStays
  <2>3. job.answer.voice # 0 => job.answer.about = voices'[job.answer.voice].thread
    <3>1. job.answer.voice \in 0 .. Len(voices)
      BY JobFields, AnswerFields
    <3>2. job.answer.voice # 0 => job.answer.voice \in DOMAIN voices
      BY <3>1, Lengths
    <3>3. QED
      BY <3>2, Zenon DEF CardsFit, Grows
  <2>4. (job'.pc \in Before /\ Current'.kind = "confirm") =>
          cards'[Current'.re].about = IF job'.pc = "thread" THEN job'.thread ELSE 0
    BY <1>1, <2>1, Zenon DEF CardsFit
  <2>5. (job'.pc = "edit" /\ job'.answer.about # 0) =>
          /\ Current'.kind = "confirm" /\ voices'[VoiceOf'].status = "executed"
          /\ cards'[Current'.re].about \in {0, job'.answer.about}
    BY <1>1, <2>1, <2>2, Zenon DEF CardsFit
  <2>6. QED
    BY <1>1, <2>3, <2>4, <2>5, Zenon DEF CardsFit
<1>2. CASE job'.answer.voice = 0 /\ job'.pc \notin Before /\ job'.pc # "edit"
  BY <1>2, Zenon DEF CardsFit
<1>3. CASE job'.answer = job.answer /\ job'.pc \notin Before /\ job'.pc # "edit"
  <2>1. job.answer.voice \in 0 .. Len(voices)
    BY JobFields, AnswerFields
  <2>2. job.answer.voice # 0 => job.answer.voice \in DOMAIN voices
    BY <2>1, Lengths
  <2>3. QED
    BY <1>3, <2>2, Zenon DEF CardsFit, Grows
<1>4. QED
  BY <1>1, <1>2, <1>3

\* The texts in hand are left alone.
LEMMA TextsKept ==
  ASSUME TypeOK, TypeOK', Grows, SentFits, JobFits, TextsFit, selected' = selected,
         \A c \in DOMAIN cards : cards'[c].about = cards[c].about \/ cards[c].about = 0,
         job'.pc \in Before => job' = job
  PROVE  TextsFit'
<1> SUFFICES ASSUME job'.pc \in Before, Current'.kind = "text"
             PROVE  IF Current'.re = 0 THEN selected # None /\ job.project = selected
                    ELSE job.pc = "thread" /\ job.thread = cards'[Current'.re].about
  BY Zenon DEF TextsFit
<1>1. job' = job /\ job.pc # "idle" /\ job.pc \in Before
  BY DEF Before
<1>2. Current' = Current
  BY <1>1, CurrentStays
<1>3. CASE Current.re = 0
  BY <1>1, <1>2, <1>3, Zenon DEF TextsFit
<1>4. CASE Current.re # 0
  <2>1. Current.re \in DOMAIN cards
    BY <1>1, <1>4, CurrentStays
  <2>2. job.pc = "thread" /\ job.thread = cards[Current.re].about
    BY <1>1, <1>2, <1>4, Zenon DEF TextsFit
  <2>3. job.thread # 0
    BY <2>2, Zenon DEF JobFits
  <2>4. QED
    BY <1>2, <1>4, <2>1, <2>2, <2>3, Zenon
<1>5. QED
  BY <1>3, <1>4

\* Nor are the texts that were run.
LEMMA RanKept ==
  ASSUME TypeOK, Grows, TextsRunWhereMeant, ran' = ran,
         \A c \in DOMAIN cards : cards'[c].about = cards[c].about \/ cards[c].about = 0
  PROVE  TextsRunWhereMeant'
<1>1. ASSUME NEW i \in DOMAIN ran, sent'[ran[i].u].kind = "text"
      PROVE  IF sent'[ran[i].u].re = 0 THEN ran[i].home = ran[i].chosen
             ELSE ran[i].thread = cards'[sent'[ran[i].u].re].about
  <2>1. /\ ran[i].u \in DOMAIN sent /\ sent[ran[i].u].re \in 0 .. Len(cards)
        /\ ran[i].thread \in 1 .. Len(where)
    BY RunFields
  <2>2. sent'[ran[i].u] = sent[ran[i].u]
    BY <2>1, Zenon DEF Grows
  <2>3. CASE sent[ran[i].u].re = 0
    BY <1>1, <2>2, <2>3, Zenon DEF TextsRunWhereMeant
  <2>4. CASE sent[ran[i].u].re # 0
    <3>1. sent[ran[i].u].re \in DOMAIN cards
      BY <2>1, <2>4, Lengths
    <3>2. ran[i].thread = cards[sent[ran[i].u].re].about /\ ran[i].thread # 0
      BY <1>1, <2>1, <2>2, <2>4 DEF TextsRunWhereMeant
    <3>3. QED
      BY <2>2, <2>4, <3>1, <3>2, Zenon
  <2>5. QED
    BY <2>3, <2>4
<1>2. QED
  BY <1>1, Zenon DEF TextsRunWhereMeant

\* The lists are left alone.
LEMMA ListsKept ==
  ASSUME TypeOK, TypeOK', Grows, ListsFit,
         \A c \in DOMAIN cards : /\ cards'[c].list = cards[c].list
                                 /\ cards'[c].buttons = cards[c].buttons,
         DOMAIN cards' = DOMAIN cards,
         job'.answer = job.answer \/ job'.answer.list = FALSE
  PROVE  ListsFit'
<1>1. ASSUME NEW c \in DOMAIN cards, cards[c].list
      PROVE  HasSelect(cards[c].buttons)'
  <2>1. PICK b : b = cards[c].buttons
    OBVIOUS
  <2>2. b \in SUBSET (1 .. Len(routes)) /\ HasSelect(b)
    BY <1>1, <2>1, CardFields, Zenon DEF ListsFit
  <2>3. HasSelect(b)'
    BY <2>2, SelectStays
  <2>4. QED
    BY <2>1, <2>3, Zenon
<1>2. ASSUME job'.answer.list
      PROVE  HasSelect(job.answer.buttons)'
  <2>1. PICK b : b = job.answer.buttons
    OBVIOUS
  <2>2. job'.answer = job.answer
    BY <1>2, Zenon
  <2>3. b \in SUBSET (1 .. Len(routes)) /\ HasSelect(b)
    BY <1>2, <2>1, <2>2, JobFields, AnswerFields, Zenon DEF ListsFit
  <2>4. HasSelect(b)'
    BY <2>3, SelectStays
  <2>5. QED
    BY <2>1, <2>2, <2>4, Zenon
<1>3. QED
  BY <1>1, <1>2, Zenon DEF ListsFit

-----------------------------------------------------------------------------
(***************************************************************************)
(* The owner, Codex and the clock, and the bot's loop.                      *)
(***************************************************************************)

\* The bot's tables and its work in hand are not touched.
Untouched == UNCHANGED <<cards, job, life, selected, voices, routes, ran>>

\* Such a step disturbs little.
LEMMA UntouchedKeeps ==
  ASSUME IInv, TypeOK', Grows, Untouched, SentFits', InOrder'
  PROVE  IInv'
<1>0. /\ TypeOK /\ SentFits /\ JobFits /\ InOrder /\ UpdateRunsOnce /\ VoicesFit /\ VerdictsFit
      /\ CardsFit /\ TextsFit /\ TextsRunWhereMeant /\ ListsFit
  BY Zenon DEF IInv
<1>1. /\ cards' = cards /\ job' = job /\ life' = life /\ selected' = selected
      /\ voices' = voices /\ routes' = routes /\ ran' = ran
  BY DEF Untouched
<1>2. JobFits'
  <2>1. CASE job.pc = "idle"
    <3>1. job'.pc = "idle" /\ job' = Idle /\ job'.pc \notin Before
      BY <1>0, <1>1, <2>1 DEF JobFits, Before
    <3>2. QED
      BY <3>1, IdleFields DEF JobFits
  <2>2. CASE job.pc # "idle"
    <3>1. Current' = Current
      BY <1>0, <1>1, <2>2, CurrentStays
    <3>2. QED
      BY <1>0, <1>1, <3>1, Zenon DEF JobFits
  <2>3. QED
    BY <2>1, <2>2
<1>3. UpdateRunsOnce'
  BY <1>0, <1>1, Zenon DEF UpdateRunsOnce
<1>4. VoicesFit'
  <2>1. job.answer.voice # 0 => job.pc \in {"send", "register"}
    BY <1>0, Zenon DEF VoicesFit
  <2>2. QED
    BY <1>0, <1>1, <2>1, VoicesKept, Zenon
<1>5. VerdictsFit'
  <2>1. \A v : RunsOf(v) # {} => RunsOf(v)' # {}
    BY <1>0, <1>1, RunsSame
  <2>2. QED
    BY <1>0, <1>1, <2>1, VerdictsKept, Zenon
<1>6. CardsFit'
  <2>1. \A c \in DOMAIN cards' : CardFits(c)'
    BY <1>0, <1>1, CardKept, Zenon DEF CardsFit
  <2>2. QED
    BY <1>0, <1>1, <2>1, CardsKept, Zenon
<1>7. TextsFit' /\ TextsRunWhereMeant'
  BY <1>0, <1>1, TextsKept, RanKept, Zenon
<1>8. ListsFit'
  BY <1>0, <1>1, ListsKept, Zenon
<1>9. QED
  BY <1>2, <1>3, <1>4, <1>5, <1>6, <1>7, <1>8, Zenon DEF IInv

\* What the owner sends names a button, a card to reply to, or the card of a voice command.
LEMMA OwnerKeeps ==
  ASSUME IInv, Owner
  PROVE  IInv'
<1>0. TypeOK /\ SentFits /\ JobFits /\ InOrder /\ UpdateRunsOnce
  BY Zenon DEF IInv
<1> DEFINE U == UpdateSet(Len(cards), Len(routes))
           Fits(x) == /\ x.kind = "press" => x.re # 0 /\ x.route # 0
                      /\ x.kind = "confirm" => x.re # 0 /\ cards[x.re].voice # 0
<1>1. PICK x \in U : Sends(x) /\ Fits(x)
  <2>1. 0 \in 0 .. Len(cards) /\ 0 \in 0 .. Len(routes)
    BY <1>0, Lengths
  <2>2. ASSUME NEW k \in {"start", "text", "voice", "press", "confirm"}, NEW c \in 0 .. Len(cards),
               NEW r \in 0 .. Len(routes), NEW g \in BOOLEAN
        PROVE  /\ Update(k, c, r, g) \in U
               /\ Update(k, c, r, g).kind = k /\ Update(k, c, r, g).re = c
               /\ Update(k, c, r, g).route = r
    BY Zenon DEF Update, UpdateSet
  <2>3. CASE Sends(Update("start", 0, 0, FALSE))
    BY <2>1, <2>2, <2>3
  <2>4. CASE Writes("text") \/ Writes("voice")
    <3>1. PICK k \in {"text", "voice"},
               c \in {0} \cup {d \in DOMAIN cards : cards[d].about # 0} :
                 Sends(Update(k, c, 0, FALSE))
      BY <2>4, Zenon DEF Writes
    <3>2. c \in 0 .. Len(cards)
      BY <1>0, Lengths
    <3>5. k \in {"start", "text", "voice", "press", "confirm"} /\ FALSE \in BOOLEAN
      OBVIOUS
    <3>3. Update(k, c, 0, FALSE) \in U /\ Update(k, c, 0, FALSE).kind = k
      BY <2>1, <3>2, <3>5, Zenon DEF Update, UpdateSet
    <3>4. QED
      BY <3>1, <3>3
  <2>5. CASE \E c \in DOMAIN cards : \E r \in cards[c].buttons : Sends(Update("press", c, r, FALSE))
    <3>1. PICK c \in DOMAIN cards : \E r \in cards[c].buttons : Sends(Update("press", c, r, FALSE))
      BY <2>5
    <3>2. PICK r \in cards[c].buttons : Sends(Update("press", c, r, FALSE))
      BY <3>1
    <3>3. c \in 0 .. Len(cards) /\ c # 0 /\ r \in 0 .. Len(routes) /\ r # 0
      BY <1>0, Lengths, CardFields
    <3>4. /\ Update("press", c, r, FALSE) \in U /\ Update("press", c, r, FALSE).kind = "press"
          /\ Update("press", c, r, FALSE).re = c /\ Update("press", c, r, FALSE).route = r
      BY <3>3, Zenon DEF Update, UpdateSet
    <3>5. QED
      BY <3>2, <3>3, <3>4
  <2>6. CASE \E c \in DOMAIN cards, go \in BOOLEAN :
               /\ cards[c].voice # 0 /\ cards[c].verdict = "none"
               /\ Sends(Update("confirm", c, 0, go))
    <3>1. PICK c \in DOMAIN cards, go \in BOOLEAN :
            cards[c].voice # 0 /\ Sends(Update("confirm", c, 0, go))
      BY <2>6
    <3>2. c \in 0 .. Len(cards) /\ c # 0
      BY <1>0, Lengths
    <3>3. /\ Update("confirm", c, 0, go) \in U /\ Update("confirm", c, 0, go).kind = "confirm"
          /\ Update("confirm", c, 0, go).re = c
      BY <2>1, <2>2, <3>2
    <3>4. QED
      BY <3>1, <3>2, <3>3
  <2>7. QED
    BY <2>3, <2>4, <2>5, <2>6, Zenon DEF Owner
<1>2. /\ sent' = Append(sent, x) /\ Len(sent) < MaxUpdates /\ confirmed' = confirmed
      /\ where' = where /\ offset' = offset /\ batch' = batch /\ bound' = bound
      /\ expired' = expired
      /\ faults' = faults /\ done' = done /\ Untouched
  BY <1>1, Zenon DEF Sends, bot, history, Untouched
<1>3. sent \in Seq(U) /\ Len(sent) \in Nat /\ DOMAIN sent = 1 .. Len(sent)
  BY <1>0, Types, Lengths DEF Typed
<1>4. /\ sent' \in Seq(U) /\ Len(sent') = Len(sent) + 1
      /\ \A u \in DOMAIN sent : sent'[u] = sent[u]
      /\ sent'[Len(sent) + 1] = x /\ DOMAIN sent' = 1 .. Len(sent) + 1
  <2> HIDE DEF U
  <2>1. QED
    BY <1>2, <1>3
<1> HIDE DEF U
<1>5. Grows
  BY <1>0, <1>2, <1>3, <1>4, Lengths DEF Grows, Untouched
<1>6. TypeOK'
  <2>1. Typed(Len(sent'), Len(cards'), Len(routes'), Len(voices'), Len(where'), life')
    BY <1>0, <1>5, StillTyped
  <2>2. Typed(Len(sent), Len(cards), Len(routes), Len(voices), Len(where), life)'
    BY <1>2, <1>4, <2>1, Zenon DEF Typed, Untouched, U
  <2>3. Scalars'
    <3>1. Scalars
      BY <1>0, Types
    <3>2. /\ life' = life /\ selected' = selected /\ where' = where /\ faults' = faults
          /\ offset' = offset /\ confirmed' = confirmed
      BY <1>2 DEF Untouched
    <3>3. /\ offset' \in 0 .. Len(sent') + 1 /\ confirmed' \in 1 .. Len(sent') + 1
          /\ Len(sent') <= MaxUpdates
      BY <1>2, <1>3, <1>4, <3>1, <3>2, InputAssumption DEF Scalars
    <3>4. QED
      BY <3>1, <3>2, <3>3, Zenon DEF Scalars
  <2>4. QED
    BY <2>2, <2>3, Types
<1>7. SentFits'
  <2>1. cards' = cards
    BY <1>2 DEF Untouched
  <2>2. ASSUME NEW u \in DOMAIN sent'
        PROVE  Fits(sent'[u])
    <3>1. CASE u \in DOMAIN sent
      BY <1>0, <1>4, <3>1, Zenon DEF SentFits
    <3>2. CASE u \notin DOMAIN sent
      <4>1. u = Len(sent) + 1
        BY <1>3, <1>4, <3>2
      <4>2. QED
        BY <1>1, <1>4, <4>1
    <3>3. QED
      BY <3>1, <3>2
  <2>3. QED
    BY <2>1, <2>2, Zenon DEF SentFits
<1>8. InOrder'
  BY <1>0, <1>2, InOrderKept, Zenon DEF Untouched
<1>9. QED
  BY <1>2, <1>5, <1>6, <1>7, <1>8, UntouchedKeeps

\* A conversation is moved or deleted, or ten minutes pass.
LEMMA OutsideKeeps ==
  ASSUME IInv, Moves \/ TenMinutes
  PROVE  IInv'
<1>0. TypeOK /\ SentFits /\ JobFits /\ InOrder /\ UpdateRunsOnce
  BY Zenon DEF IInv
<1>1. /\ Untouched /\ sent' = sent /\ confirmed' = confirmed /\ offset' = offset
      /\ batch' = batch /\ bound' = bound /\ done' = done /\ Fault
  BY Zenon DEF Moves, TenMinutes, telegram, bot, history, Untouched
<1>2. where' \in Seq(Projects \cup {None}) /\ Len(where') = Len(where)
  <2>1. where \in Seq(Projects \cup {None})
    BY <1>0, Types DEF Scalars
  <2>2. CASE Moves
    <3>1. PICK t \in Threads, q \in Projects \cup {None} : where' = [where EXCEPT ![t] = q]
      BY <2>2, Zenon DEF Moves
    <3>2. QED
      BY <2>1, <3>1 DEF Threads
  <2>3. CASE TenMinutes
    BY <2>1, <2>3, Zenon DEF TenMinutes
  <2>4. QED
    BY <2>2, <2>3
<1>3. Grows
  BY <1>0, <1>1, <1>2, Lengths DEF Grows, Untouched
<1>4. TypeOK'
  <2>1. Typed(Len(sent'), Len(cards'), Len(routes'), Len(voices'), Len(where'), life')
    BY <1>0, <1>3, StillTyped
  <2>2. Typed(Len(sent), Len(cards), Len(routes), Len(voices), Len(where), life)'
    BY <1>1, <2>1, Zenon DEF Typed, Untouched
  <2>3. Scalars'
    <3>1. Scalars /\ faults' \in 0 .. MaxFaults
      BY <1>0, <1>1, Types, FaultCounts
    <3>2. QED
      BY <1>1, <1>2, <3>1, Zenon DEF Scalars, Untouched
  <2>4. QED
    BY <2>2, <2>3, Types
<1>5. SentFits'
  BY <1>0, <1>1, <1>3, SentKept
<1>6. InOrder'
  BY <1>0, <1>1, InOrderKept, Zenon DEF Untouched
<1>7. QED
  BY <1>1, <1>3, <1>4, <1>5, <1>6, UntouchedKeeps

\* A batch starts at the offset, or behind it.
LEMMA GetUpdatesKeeps ==
  ASSUME IInv, GetUpdates
  PROVE  IInv'
<1>0. TypeOK /\ SentFits /\ JobFits /\ InOrder /\ UpdateRunsOnce
  BY Zenon DEF IInv
<1>1. /\ Untouched /\ sent' = sent /\ offset' = offset /\ bound' = bound /\ done' = done
      /\ where' = where /\ faults' = faults /\ job = Idle
  BY Zenon DEF GetUpdates, history, Untouched
<1>2. PICK from : /\ from = IF offset > confirmed THEN offset ELSE confirmed
                  /\ confirmed' = from
                  /\ batch' = [i \in 1 .. Len(sent) + 1 - from |-> from + i - 1]
  BY Zenon DEF GetUpdates
<1>3. /\ offset \in 0 .. Len(sent) + 1 /\ confirmed \in 1 .. Len(sent) + 1 /\ Len(sent) \in Nat
      /\ Scalars
  BY <1>0, Types, Lengths DEF Scalars
<1>4. from \in 1 .. Len(sent) + 1 /\ from >= offset
  BY <1>2, <1>3
<1>5. Grows
  BY <1>0, <1>1, Lengths DEF Grows, Untouched
<1>6. TypeOK'
  <2>1. Typed(Len(sent'), Len(cards'), Len(routes'), Len(voices'), Len(where'), life')
    BY <1>0, <1>5, StillTyped
  <2>2. batch' \in Seq(1 .. Len(sent'))
    BY <1>1, <1>2, <1>3, <1>4
  <2>3. Typed(Len(sent), Len(cards), Len(routes), Len(voices), Len(where), life)'
    BY <1>1, <2>1, <2>2, Zenon DEF Typed, Untouched
  <2>4. Scalars'
    BY <1>1, <1>2, <1>3, <1>4, Zenon DEF Scalars, Untouched
  <2>5. QED
    BY <2>3, <2>4, Types
<1>7. SentFits'
  BY <1>0, <1>1, <1>5, SentKept
<1>8. InOrder'
  <2>1. ran' = ran /\ life' = life /\ job' = job /\ offset' = offset /\ job.pc = "idle"
    BY <1>1, IdleFields DEF Untouched
  <2>2. \A i \in DOMAIN ran' : ran'[i].life = life' => ran'[i].u < offset'
    BY <1>0, <2>1, Zenon DEF InOrder, Behind
  <2>3. /\ DOMAIN batch' = 1 .. Len(sent) + 1 - from
        /\ \A k \in DOMAIN batch' : batch'[k] = from + k - 1
    BY <1>2
  <2>4. \A k \in DOMAIN batch' : batch'[k] >= offset'
    BY <1>3, <1>4, <2>1, <2>3
  <2>5. \A j, k \in DOMAIN batch' : j < k => batch'[j] < batch'[k]
    BY <1>3, <1>4, <2>3
  <2>6. Behind'
    BY <2>2, <2>4, <2>5, Zenon DEF Behind
  <2>7. job'.pc = "idle" /\ job'.pc \notin {"handle"} \cup Before
    BY <2>1 DEF Before
  <2>8. QED
    BY <2>6, <2>7, Zenon DEF InOrder
<1>9. QED
  BY <1>1, <1>5, <1>6, <1>7, <1>8, UntouchedKeeps

\* An update is taken off the batch once its offset is past.
LEMMA handleUpdateKeeps ==
  ASSUME IInv, handleUpdate
  PROVE  IInv'
<1>0. /\ TypeOK /\ SentFits /\ JobFits /\ InOrder /\ UpdateRunsOnce /\ VoicesFit /\ VerdictsFit
      /\ CardsFit /\ TextsFit /\ TextsRunWhereMeant /\ ListsFit
  BY Zenon DEF IInv
<1>1. PICK h : h = Head(batch)
  OBVIOUS
<1>2. /\ job = Idle /\ batch # <<>> /\ offset' = OffsetAfter(h) /\ batch' = Tail(batch)
      /\ job' = [Idle EXCEPT !.pc = "handle", !.u = h]
      /\ sent' = sent /\ confirmed' = confirmed /\ cards' = cards /\ where' = where
      /\ life' = life /\ selected' = selected /\ bound' = bound /\ routes' = routes
      /\ voices' = voices /\ faults' = faults /\ done' = done /\ ran' = ran
  BY <1>1, Zenon DEF handleUpdate, telegram, history
<1>3. /\ job'.pc = "handle" /\ job'.u = h /\ job'.answer = NoAnswer /\ job.answer = NoAnswer
      /\ job.pc = "idle"
  BY <1>2, Zenon DEF Idle
<1>4. batch \in Seq(1 .. Len(sent)) /\ Scalars /\ Len(sent) \in Nat /\ Len(batch) \in Nat
      /\ DOMAIN batch = 1 .. Len(batch)
  BY <1>0, Types, Lengths DEF Typed
<1>5. h \in 1 .. Len(sent) /\ h = batch[1] /\ 1 \in DOMAIN batch
  BY <1>1, <1>2, <1>4
<1>6. /\ Tail(batch) \in Seq(1 .. Len(sent)) /\ DOMAIN Tail(batch) = 1 .. Len(batch) - 1
      /\ \A k \in DOMAIN Tail(batch) : Tail(batch)[k] = batch[k + 1] /\ k + 1 \in DOMAIN batch
                                       /\ k \in Nat /\ k >= 1
  BY <1>2, <1>4
<1>7. h >= offset /\ offset' = h + 1 /\ offset \in Nat
  BY <1>0, <1>2, <1>4, <1>5 DEF InOrder, Behind, OffsetAfter, Scalars
<1>8. Grows
  BY <1>0, <1>2, Lengths DEF Grows
<1>9. TypeOK'
  <2>1. Typed(Len(sent'), Len(cards'), Len(routes'), Len(voices'), Len(where'), life')
    BY <1>0, <1>8, StillTyped
  <2>2. job' \in JobSet(Len(sent'), Len(cards'), Len(routes'), Len(voices'), Len(where'))
    <3>1. Idle \in JobSet(Len(sent), Len(cards), Len(routes), Len(voices), Len(where))
      BY <1>0, IdleTyped, Lengths
    <3>2. h \in 0 .. Len(sent)
      BY <1>4, <1>5
    <3>3. job' \in JobSet(Len(sent), Len(cards), Len(routes), Len(voices), Len(where))
      BY <1>2, <3>1, <3>2, Zenon DEF JobSet, PCs
    <3>4. QED
      BY <1>2, <3>3, Zenon
  <2>3. Typed(Len(sent), Len(cards), Len(routes), Len(voices), Len(where), life)'
    BY <1>2, <1>6, <2>1, <2>2, Zenon DEF Typed
  <2>4. offset' \in 0 .. Len(sent) + 1
    BY <1>4, <1>5, <1>7
  <2>5. Scalars'
    BY <1>2, <1>4, <2>4, Zenon DEF Scalars
  <2>6. QED
    BY <2>3, <2>5, Types
<1>10. SentFits' /\ TextsRunWhereMeant' /\ UpdateRunsOnce'
  BY <1>0, <1>2, Zenon DEF SentFits, TextsRunWhereMeant, UpdateRunsOnce
<1>11. JobFits'
  BY <1>3, <1>5 DEF JobFits, Before
<1>12. InOrder'
  <2>1. ASSUME NEW i \in DOMAIN ran, ran[i].life = life
        PROVE  ran[i].u < h /\ ran[i].u \in Nat
    <3>1. ran[i].u < offset /\ ran[i].u \in Nat
      BY <1>0, <2>1, RunFields DEF InOrder, Behind
    <3>2. QED
      BY <1>5, <1>7, <3>1
  <2>2. \A i \in DOMAIN ran' : ran'[i].life = life' => ran'[i].u < offset'
    BY <1>2, <1>5, <1>7, <2>1
  <2>3. \A k \in DOMAIN batch' : batch'[k] >= offset'
    <3>1. ASSUME NEW k \in DOMAIN Tail(batch)
          PROVE  Tail(batch)[k] > h /\ Tail(batch)[k] \in Nat
      <4>1. k + 1 \in DOMAIN batch /\ 1 < k + 1 /\ Tail(batch)[k] = batch[k + 1]
        BY <1>6
      <4>2. batch[1] < batch[k + 1] /\ batch[k + 1] \in Nat
        BY <1>0, <1>4, <1>5, <4>1 DEF InOrder, Behind
      <4>3. QED
        BY <1>5, <4>1, <4>2
    <3>2. QED
      BY <1>2, <1>5, <1>7, <3>1
  <2>4. \A j, k \in DOMAIN batch' : j < k => batch'[j] < batch'[k]
    <3>1. ASSUME NEW j \in DOMAIN Tail(batch), NEW k \in DOMAIN Tail(batch), j < k
          PROVE  Tail(batch)[j] < Tail(batch)[k]
      <4>1. /\ j + 1 \in DOMAIN batch /\ k + 1 \in DOMAIN batch /\ j + 1 < k + 1
            /\ Tail(batch)[j] = batch[j + 1] /\ Tail(batch)[k] = batch[k + 1]
        BY <1>6, <3>1
      <4>2. QED
        BY <1>0, <4>1 DEF InOrder, Behind
    <3>2. QED
      BY <1>2, <3>1, Zenon
  <2>5. Behind'
    BY <2>2, <2>3, <2>4, Zenon DEF Behind
  <2>6. job'.u < offset'
    BY <1>3, <1>5, <1>7
  <2>7. \A i \in DOMAIN ran' : ran'[i].life = life' => ran'[i].u # job'.u
    BY <1>2, <1>3, <1>5, <2>1
  <2>8. QED
    BY <2>5, <2>6, <2>7, Zenon DEF InOrder
<1>13. job'.pc \notin Before /\ job'.pc # "edit" /\ NoAnswer.voice = 0 /\ NoAnswer.list = FALSE
  BY <1>3, IdleFields DEF Before
<1>14. VoicesFit'
  BY <1>0, <1>2, <1>3, <1>8, <1>9, <1>13, VoicesKept, Zenon
<1>15. VerdictsFit'
  <2>1. \A v : RunsOf(v) # {} => RunsOf(v)' # {}
    BY <1>0, <1>2, <1>8, RunsSame
  <2>2. QED
    BY <1>0, <1>2, <1>8, <1>9, <1>13, <2>1, VerdictsKept, Zenon
<1>16. CardsFit' /\ TextsFit' /\ ListsFit'
  <2>1. \A c \in DOMAIN cards' : CardFits(c)'
    BY <1>0, <1>2, <1>8, CardKept, Zenon DEF CardsFit
  <2>2. QED
    BY <1>0, <1>2, <1>3, <1>8, <1>9, <1>13, <2>1, CardsKept, TextsKept, ListsKept, Zenon
<1>17. QED
  BY <1>9, <1>10, <1>11, <1>12, <1>14, <1>15, <1>16, Zenon DEF IInv

-----------------------------------------------------------------------------
(***************************************************************************)
(* The daemon dies.                                                        *)
(***************************************************************************)

\* The new life knows no update, and no transcript that is pending.
LEMMA RestartKeeps ==
  ASSUME IInv, Restart
  PROVE  IInv'
<1>0. /\ TypeOK /\ SentFits /\ JobFits /\ InOrder /\ UpdateRunsOnce /\ VoicesFit /\ VerdictsFit
      /\ CardsFit /\ TextsFit /\ TextsRunWhereMeant /\ ListsFit
  BY Zenon DEF IInv
<1>1. /\ Fault /\ offset' = 0 /\ batch' = <<>> /\ job' = Idle /\ life' = life + 1
      /\ voices' = RecoverVoiceConfirmations
      /\ sent' = sent /\ confirmed' = confirmed /\ cards' = cards /\ where' = where
      /\ selected' = selected /\ bound' = bound /\ routes' = routes /\ done' = done /\ ran' = ran
  BY Zenon DEF Restart, telegram, history
<1>2. /\ voices \in Seq(VoiceSet(Len(where), Len(cards))) /\ Len(voices) \in Nat
      /\ DOMAIN voices = 1 .. Len(voices) /\ life \in Nat
  BY <1>0, Types, Lengths DEF Typed
<1>3. ASSUME NEW v \in DOMAIN voices
      PROVE  /\ [voices[v] EXCEPT !.status = "expired"] \in VoiceSet(Len(where), Len(cards))
             /\ [voices[v] EXCEPT !.status = "expired"].status = "expired"
             /\ [voices[v] EXCEPT !.status = "expired"].thread = voices[v].thread
  <2>1. voices[v] \in VoiceSet(Len(where), Len(cards))
    BY <1>2
  <2>2. QED
    BY <2>1, Zenon DEF VoiceSet
<1>4. /\ voices' \in Seq(VoiceSet(Len(where), Len(cards))) /\ Len(voices') = Len(voices)
      /\ DOMAIN voices' = DOMAIN voices
  BY <1>1, <1>2, <1>3 DEF RecoverVoiceConfirmations
<1>5. \A v \in DOMAIN voices :
        /\ voices'[v].thread = voices[v].thread /\ voices'[v].status # "pending"
        /\ voices[v].status # "pending" => voices'[v].status = voices[v].status
        /\ voices'[v].status = "executed" => voices[v].status = "executed"
  BY <1>1, <1>3 DEF RecoverVoiceConfirmations
<1>6. Grows
  BY <1>0, <1>1, <1>2, <1>4, <1>5, Lengths DEF Grows
<1>7. TypeOK'
  <2>1. Typed(Len(sent'), Len(cards'), Len(routes'), Len(voices'), Len(where'), life')
    BY <1>0, <1>6, StillTyped
  <2>2. Idle \in JobSet(Len(sent), Len(cards), Len(routes), Len(voices), Len(where))
    BY <1>0, IdleTyped, Lengths
  <2>3. batch' \in Seq(1 .. Len(sent'))
    BY <1>1
  <2>4. Typed(Len(sent), Len(cards), Len(routes), Len(voices), Len(where), life)'
    BY <1>1, <1>4, <2>1, <2>2, <2>3, Zenon DEF Typed
  <2>5. faults' \in 0 .. MaxFaults /\ Scalars
    BY <1>0, <1>1, FaultCounts, Types
  <2>6. Len(sent) \in Nat
    BY <1>0, Lengths
  <2>7. Scalars'
    BY <1>1, <1>2, <2>5, <2>6 DEF Scalars
  <2>8. QED
    BY <2>4, <2>7, Types
<1>8. /\ job'.pc = "idle" /\ job'.answer = NoAnswer /\ job'.answer.voice = 0
      /\ job'.answer.list = FALSE /\ job'.pc \notin Before /\ job'.pc # "edit"
      /\ job'.pc \notin {"handle"} \cup Before
  BY <1>1, IdleFields DEF Before
<1>9. SentFits' /\ TextsRunWhereMeant' /\ UpdateRunsOnce'
  BY <1>0, <1>1, Zenon DEF SentFits, TextsRunWhereMeant, UpdateRunsOnce
<1>10. JobFits'
  BY <1>1, <1>8 DEF JobFits
<1>11. InOrder'
  <2>1. \A i \in DOMAIN ran : ran[i].life # life + 1
    BY <1>0, <1>2, RunFields
  <2>2. Behind'
    BY <1>1, <2>1 DEF Behind
  <2>3. QED
    BY <1>8, <2>2, Zenon DEF InOrder
<1>12. \A v : RunsOf(v)' = RunsOf(v)
  BY <1>0, <1>1, <1>6, RunsSame
<1>13. VoicesFit'
  <2>1. \A v \in DOMAIN voices' : RunsFit(v)' /\ PendingFits(v)'
    BY <1>0, <1>4, <1>5, <1>12, ZenonT(30) DEF VoicesFit, RunsFit, PendingFits
  <2>2. QED
    BY <1>8, <2>1, Zenon DEF VoicesFit
<1>14. VerdictsFit'
  <2>1. \A v \in DOMAIN voices : voices[v].status = "cancelled" => voices'[v].status = "cancelled"
    BY <1>5
  <2>2. QED
    BY <1>0, <1>1, <1>6, <1>7, <1>8, <1>12, <2>1, VerdictsKept, Zenon
<1>15. CardsFit'
  <2>1. \A c \in DOMAIN cards' : CardFits(c)'
    BY <1>0, <1>1, <1>5, <1>6, CardKept, Zenon DEF CardsFit
  <2>2. \A v \in DOMAIN voices : voices[v].status = "executed" => voices'[v].status = "executed"
    BY <1>5
  <2>3. QED
    BY <1>0, <1>1, <1>6, <1>7, <1>8, <2>1, <2>2, CardsKept, Zenon
<1>16. TextsFit' /\ ListsFit'
  BY <1>0, <1>1, <1>6, <1>7, <1>8, TextsKept, ListsKept, Zenon
<1>17. QED
  BY <1>7, <1>9, <1>10, <1>11, <1>13, <1>14, <1>15, <1>16, Zenon DEF IInv

-----------------------------------------------------------------------------
(***************************************************************************)
(* Answers.                                                                *)
(***************************************************************************)

\* What a step that only sends changes: the cards, the voice commands and the job.
OnlySends ==
  /\ UNCHANGED <<sent, confirmed, where, offset, batch, life, selected, bound, routes, expired,
                 ran>>
  /\ faults' \in 0 .. MaxFaults

\* Its changes are well typed when they are.
LEMMA SendsTyped ==
  ASSUME TypeOK, OnlySends,
         cards' \in Seq(CardSet(Len(routes), Len(voices), Len(where))), Len(cards) <= Len(cards'),
         \A c \in DOMAIN cards : cards'[c].voice = cards[c].voice,
         voices' \in Seq(VoiceSet(Len(where), Len(cards'))), Len(voices') = Len(voices),
         \A v \in DOMAIN voices : voices'[v].thread = voices[v].thread,
         job' \in JobSet(Len(sent), Len(cards'), Len(routes), Len(voices), Len(where)),
         done' \subseteq 1 .. Len(sent)
  PROVE  TypeOK' /\ Grows
<1>1. /\ sent' = sent /\ confirmed' = confirmed /\ where' = where /\ offset' = offset
      /\ batch' = batch /\ life' = life /\ selected' = selected /\ bound' = bound
      /\ routes' = routes /\ ran' = ran /\ faults' \in 0 .. MaxFaults
  BY DEF OnlySends
<1>2. Grows
  BY <1>1, Lengths DEF Grows
<1>3. Typed(Len(sent'), Len(cards'), Len(routes'), Len(voices'), Len(where'), life')
  BY <1>2, StillTyped
<1>4. Typed(Len(sent), Len(cards), Len(routes), Len(voices), Len(where), life)'
  BY <1>1, <1>3, Zenon DEF Typed
<1>5. Scalars'
  BY <1>1, Types, Zenon DEF Scalars
<1>6. QED
  BY <1>2, <1>4, <1>5, Types

\* A handler whose answer was given up or given ends.
LEMMA EndsKeeps ==
  ASSUME IInv, TypeOK', Grows, OnlySends, job' = Idle
  PROVE  /\ SentFits' /\ JobFits' /\ InOrder' /\ UpdateRunsOnce'
         /\ job'.pc \notin Before /\ job'.pc # "edit" /\ job'.answer.voice = 0
         /\ job'.answer.list = FALSE /\ \A v : RunsOf(v)' = RunsOf(v)
<1>0. TypeOK /\ SentFits /\ JobFits /\ InOrder /\ UpdateRunsOnce
  BY Zenon DEF IInv
<1>1. sent' = sent /\ ran' = ran /\ life' = life /\ offset' = offset /\ batch' = batch
  BY DEF OnlySends
<1>2. /\ job'.pc = "idle" /\ job'.answer = NoAnswer /\ job'.answer.voice = 0
      /\ job'.answer.list = FALSE /\ job'.pc \notin Before /\ job'.pc # "edit"
  BY IdleFields DEF Before
<1>3. SentFits' /\ \A v : RunsOf(v)' = RunsOf(v)
  BY <1>0, <1>1, SentKept, RunsSame
<1>4. JobFits'
  BY <1>2 DEF JobFits
<1>5. InOrder' /\ UpdateRunsOnce'
  BY <1>0, <1>1, InOrderKept, Zenon
<1>6. QED
  BY <1>2, <1>3, <1>4, <1>5

\* One card is changed.
LEMMA CardUpdate ==
  ASSUME TypeOK, NEW e \in DOMAIN cards, NEW x \in CardSet(Len(routes), Len(voices), Len(where)),
         x.voice = cards[e].voice, cards' = [cards EXCEPT ![e] = x]
  PROVE  /\ cards' \in Seq(CardSet(Len(routes), Len(voices), Len(where)))
         /\ Len(cards') = Len(cards) /\ DOMAIN cards' = DOMAIN cards
         /\ cards'[e] = x
         /\ \A c \in DOMAIN cards : c # e => cards'[c] = cards[c]
         /\ \A c \in DOMAIN cards : cards'[c].voice = cards[c].voice
<1>1. cards \in Seq(CardSet(Len(routes), Len(voices), Len(where))) /\ Len(cards) \in Nat
  BY Types, Lengths DEF Typed
<1>2. /\ cards' \in Seq(CardSet(Len(routes), Len(voices), Len(where)))
      /\ Len(cards') = Len(cards) /\ DOMAIN cards' = DOMAIN cards
      /\ cards'[e] = x
      /\ \A c \in DOMAIN cards : c # e => cards'[c] = cards[c]
  BY <1>1
<1>3. QED
  BY <1>2, Zenon

\* Of a card that is routed, only that is new.
LEMMA RoutedCard ==
  ASSUME TypeOK, NEW e \in DOMAIN cards, NEW t \in 0 .. Len(where),
         cards' = [cards EXCEPT ![e].routed = t]
  PROVE  /\ cards' \in Seq(CardSet(Len(routes), Len(voices), Len(where)))
         /\ Len(cards') = Len(cards) /\ DOMAIN cards' = DOMAIN cards
         /\ \A c \in DOMAIN cards :
              /\ cards'[c].voice = cards[c].voice /\ cards'[c].about = cards[c].about
              /\ cards'[c].verdict = cards[c].verdict /\ cards'[c].list = cards[c].list
              /\ cards'[c].buttons = cards[c].buttons
              /\ cards'[c].routed = IF c = e THEN t ELSE cards[c].routed
<1> DEFINE x == [cards[e] EXCEPT !.routed = t]
<1>1. cards[e] \in CardSet(Len(routes), Len(voices), Len(where))
  BY Types, Lengths DEF Typed
<1>2. /\ x \in CardSet(Len(routes), Len(voices), Len(where))
      /\ x.voice = cards[e].voice /\ x.about = cards[e].about /\ x.verdict = cards[e].verdict
      /\ x.list = cards[e].list /\ x.buttons = cards[e].buttons /\ x.routed = t
  BY <1>1, Zenon DEF CardSet
<1>3. cards' = [cards EXCEPT ![e] = x]
  BY Zenon
<1> HIDE DEF x
<1>4. /\ cards' \in Seq(CardSet(Len(routes), Len(voices), Len(where)))
      /\ Len(cards') = Len(cards) /\ DOMAIN cards' = DOMAIN cards
      /\ cards'[e] = x
      /\ \A c \in DOMAIN cards : c # e => cards'[c] = cards[c]
  BY <1>2, <1>3, CardUpdate, Zenon
<1>5. ASSUME NEW c \in DOMAIN cards
      PROVE  /\ cards'[c].voice = cards[c].voice /\ cards'[c].about = cards[c].about
             /\ cards'[c].verdict = cards[c].verdict /\ cards'[c].list = cards[c].list
             /\ cards'[c].buttons = cards[c].buttons
             /\ cards'[c].routed = IF c = e THEN t ELSE cards[c].routed
  <2>1. CASE c = e
    <3>1. /\ cards'[e].voice = cards[e].voice /\ cards'[e].about = cards[e].about
          /\ cards'[e].verdict = cards[e].verdict /\ cards'[e].list = cards[e].list
          /\ cards'[e].buttons = cards[e].buttons /\ cards'[e].routed = t
      BY <1>2, <1>4, Zenon
    <3>2. QED
      BY <2>1, <3>1
  <2>2. CASE c # e
    BY <1>4, <2>2, Zenon
  <2>3. QED
    BY <2>1, <2>2
<1>6. QED
  BY <1>4, <1>5

\* What an answer in hand is about exists.
LEMMA AnswerInHand ==
  ASSUME TypeOK
  PROVE  /\ job.answer.edit \in 0 .. Len(cards) /\ job.answer.buttons \in SUBSET (1 .. Len(routes))
         /\ job.answer.voice \in 0 .. Len(voices) /\ job.answer.verdict \in Verdicts
         /\ job.answer.about \in 0 .. Len(where) /\ job.answer.list \in BOOLEAN
         /\ job.card \in 0 .. Len(cards)
         /\ job \in JobSet(Len(sent), Len(cards), Len(routes), Len(voices), Len(where))
         /\ job.answer.voice # 0 => job.answer.voice \in DOMAIN voices
<1>1. job.answer \in AnswerSet(Len(cards), Len(routes), Len(voices), Len(where))
  BY JobFields
<1>2. job \in JobSet(Len(sent), Len(cards), Len(routes), Len(voices), Len(where))
  BY Types DEF Typed
<1>3. job.answer.voice \in 0 .. Len(voices)
  BY <1>1, AnswerFields
<1>4. job.answer.voice # 0 => job.answer.voice \in DOMAIN voices
  BY <1>3, Lengths
<1>5. QED
  BY <1>1, <1>2, <1>4, AnswerFields, JobFields

\* The card of a command that was run is routed.
LEMMA PutMessageRouteKeeps ==
  ASSUME IInv, PutMessageRoute
  PROVE  IInv'
<1>0. /\ TypeOK /\ SentFits /\ JobFits /\ VoicesFit /\ VerdictsFit
      /\ CardsFit /\ TextsFit /\ TextsRunWhereMeant /\ ListsFit
  BY Zenon DEF IInv
<1>1. PICK e : e = job.answer.edit
  OBVIOUS
<1>2. PICK t : t = job.answer.about
  OBVIOUS
<1>3. /\ job.pc = "route" /\ job.pc # "idle" /\ Ends /\ job' = Idle /\ voices' = voices
      /\ selected' = selected /\ life' = life /\ ran' = ran
      /\ cards' = [cards EXCEPT ![e].routed = t]
  BY <1>1, <1>2, Zenon DEF PutMessageRoute, Ends, bot
<1>4. OnlySends
  <2>1. faults' = faults
    BY Zenon DEF PutMessageRoute
  <2>2. QED
    BY <1>0, <2>1, Types DEF PutMessageRoute, bot, OnlySends, Scalars
<1>5. e \in DOMAIN cards /\ t \in 0 .. Len(where) /\ cards[e].about = t
  <2>1. e = Current.re /\ Current.kind \in {"press", "confirm"} /\ cards[e].about = t
    BY <1>0, <1>1, <1>2, <1>3 DEF JobFits
  <2>2. Current.re \in DOMAIN cards
    BY <1>0, <1>3, <2>1, PressFields, ConfirmFields
  <2>3. QED
    BY <1>0, <1>2, <2>1, <2>2, AnswerInHand
<1>6. /\ cards' \in Seq(CardSet(Len(routes), Len(voices), Len(where)))
      /\ Len(cards') = Len(cards) /\ DOMAIN cards' = DOMAIN cards
      /\ \A c \in DOMAIN cards :
           /\ cards'[c].voice = cards[c].voice /\ cards'[c].about = cards[c].about
           /\ cards'[c].verdict = cards[c].verdict /\ cards'[c].list = cards[c].list
           /\ cards'[c].buttons = cards[c].buttons
           /\ cards'[c].routed = IF c = e THEN t ELSE cards[c].routed
  BY <1>0, <1>3, <1>5, RoutedCard
<1>7. TypeOK' /\ Grows
  <2>1. /\ done' \subseteq 1 .. Len(sent)
        /\ job' \in JobSet(Len(sent), Len(cards), Len(routes), Len(voices), Len(where))
    BY <1>0, <1>3, EndsTyped, Lengths
  <2>2. voices \in Seq(VoiceSet(Len(where), Len(cards))) /\ Len(cards) \in Nat
    BY <1>0, Types, Lengths DEF Typed
  <2>3. Len(cards) <= Len(cards')
    BY <1>6, <2>2
  <2>4. QED
    BY <1>0, <1>3, <1>4, <1>6, <2>1, <2>2, <2>3, SendsTyped, Zenon
<1>8. /\ SentFits' /\ JobFits' /\ InOrder' /\ UpdateRunsOnce'
      /\ job'.pc \notin Before /\ job'.pc # "edit" /\ job'.answer.voice = 0
      /\ job'.answer.list = FALSE /\ \A v : RunsOf(v)' = RunsOf(v)
  BY <1>3, <1>4, <1>7, EndsKeeps
<1>9. job.answer.voice = 0
  BY <1>0, <1>3 DEF VoicesFit
<1>10. VoicesFit' /\ VerdictsFit'
  BY <1>0, <1>3, <1>6, <1>7, <1>8, <1>9, VoicesKept, VerdictsKept, Zenon
<1>11. CardsFit'
  <2>1. ASSUME NEW c \in DOMAIN cards, c # e
        PROVE  CardFits(c)'
    BY <1>0, <1>3, <1>6, <1>7, <2>1, CardKept, Zenon DEF CardsFit
  <2>2. CardFits(e)'
    BY <1>0, <1>3, <1>5, <1>6, ZenonT(30) DEF CardsFit, CardFits
  <2>3. QED
    BY <1>0, <1>3, <1>6, <1>7, <1>8, <2>1, <2>2, CardsKept, Zenon
<1>12. TextsFit' /\ TextsRunWhereMeant' /\ ListsFit'
  BY <1>0, <1>3, <1>6, <1>7, <1>8, TextsKept, RanKept, ListsKept, Zenon
<1>13. QED
  BY <1>7, <1>8, <1>10, <1>11, <1>12, Zenon DEF IInv

\* The message that was sent is routed, and a voice command learns of its card.
LEMMA RegisterKeeps ==
  ASSUME IInv, RegisterDirectDelivery
  PROVE  IInv'
<1>0. /\ TypeOK /\ SentFits /\ JobFits /\ VoicesFit /\ VerdictsFit
      /\ CardsFit /\ TextsFit /\ TextsRunWhereMeant /\ ListsFit
  BY Zenon DEF IInv
<1>1. PICK e : e = job.card
  OBVIOUS
<1>2. PICK t : t = job.answer.about
  OBVIOUS
<1>3. PICK w : w = job.answer.voice
  OBVIOUS
<1>4. /\ job.pc = "register" /\ job.pc # "idle" /\ Ends /\ job' = Idle
      /\ selected' = selected /\ life' = life /\ ran' = ran
      /\ cards' = [cards EXCEPT ![e].routed = t]
      /\ voices' = IF w = 0 THEN voices ELSE [voices EXCEPT ![w].card = e]
  BY <1>1, <1>2, <1>3, Zenon DEF RegisterDirectDelivery, Ends, bot
<1>5. OnlySends
  <2>1. faults' = faults
    BY Zenon DEF RegisterDirectDelivery
  <2>2. QED
    BY <1>0, <2>1, Types DEF RegisterDirectDelivery, bot, OnlySends, Scalars
<1>6. /\ e \in DOMAIN cards /\ e # 0 /\ t \in 0 .. Len(where)
      /\ cards[e].about = t /\ cards[e].voice = w
      /\ e \in 0 .. Len(cards) /\ (w # 0 => w \in DOMAIN voices)
  <2>1. e # 0 /\ cards[e].about = t /\ cards[e].voice = w
    BY <1>0, <1>1, <1>2, <1>3, <1>4, Zenon DEF JobFits
  <2>2. e \in 0 .. Len(cards) /\ t \in 0 .. Len(where) /\ (w # 0 => w \in DOMAIN voices)
    BY <1>0, <1>1, <1>2, <1>3, AnswerInHand
  <2>3. QED
    BY <1>0, <2>1, <2>2, Lengths
<1>7. /\ cards' \in Seq(CardSet(Len(routes), Len(voices), Len(where)))
      /\ Len(cards') = Len(cards) /\ DOMAIN cards' = DOMAIN cards
      /\ \A c \in DOMAIN cards :
           /\ cards'[c].voice = cards[c].voice /\ cards'[c].about = cards[c].about
           /\ cards'[c].verdict = cards[c].verdict /\ cards'[c].list = cards[c].list
           /\ cards'[c].buttons = cards[c].buttons
           /\ cards'[c].routed = IF c = e THEN t ELSE cards[c].routed
  BY <1>0, <1>4, <1>6, RoutedCard
<1>8. /\ voices' \in Seq(VoiceSet(Len(where), Len(cards))) /\ Len(voices') = Len(voices)
      /\ DOMAIN voices' = DOMAIN voices
      /\ \A v \in DOMAIN voices :
           /\ voices'[v].thread = voices[v].thread /\ voices'[v].status = voices[v].status
           /\ voices'[v].life = voices[v].life
           /\ voices'[v].card = IF v = w THEN e ELSE voices[v].card
  <2>1. voices \in Seq(VoiceSet(Len(where), Len(cards)))
    BY <1>0, Types DEF Typed
  <2>2. CASE w = 0
    <3>1. \A v \in DOMAIN voices : v # w
      BY <1>0, <2>2, Lengths
    <3>2. QED
      BY <1>4, <2>1, <2>2, <3>1, Zenon
  <2>3. CASE w # 0
    <3> DEFINE x == [voices[w] EXCEPT !.card = e]
    <3>1. voices[w] \in VoiceSet(Len(where), Len(cards))
      BY <1>6, <2>1, <2>3
    <3>2. /\ x \in VoiceSet(Len(where), Len(cards)) /\ x.thread = voices[w].thread
          /\ x.status = voices[w].status /\ x.life = voices[w].life /\ x.card = e
      BY <1>6, <3>1, Zenon DEF VoiceSet
    <3>3. voices' = [voices EXCEPT ![w] = x]
      BY <1>4, <2>3, Zenon
    <3> HIDE DEF x
    <3>4. /\ voices' \in Seq(VoiceSet(Len(where), Len(cards))) /\ Len(voices') = Len(voices)
          /\ DOMAIN voices' = DOMAIN voices
          /\ \A v \in DOMAIN voices : voices'[v] = IF v = w THEN x ELSE voices[v]
      BY <1>6, <2>1, <2>3, <3>2, <3>3
    <3>5. QED
      BY <3>2, <3>4, Zenon
  <2>4. QED
    BY <2>2, <2>3
<1>9. TypeOK' /\ Grows
  <2>1. /\ done' \subseteq 1 .. Len(sent)
        /\ job' \in JobSet(Len(sent), Len(cards), Len(routes), Len(voices), Len(where))
    BY <1>0, <1>4, EndsTyped, Lengths
  <2>2. Len(cards) <= Len(cards')
    BY <1>0, <1>7, Lengths
  <2>3. QED
    BY <1>0, <1>5, <1>7, <1>8, <2>1, <2>2, SendsTyped, Zenon
<1>10. /\ SentFits' /\ JobFits' /\ InOrder' /\ UpdateRunsOnce'
       /\ job'.pc \notin Before /\ job'.pc # "edit" /\ job'.answer.voice = 0
       /\ job'.answer.list = FALSE /\ \A v : RunsOf(v)' = RunsOf(v)
  BY <1>4, <1>5, <1>9, EndsKeeps
<1>11. VoicesFit'
  <2>1. ASSUME NEW v \in DOMAIN voices
        PROVE  RunsFit(v)' /\ PendingFits(v)'
    <3>1. RunsFit(v)'
      BY <1>0, <1>8, <1>10, Zenon DEF VoicesFit, RunsFit
    <3>2. CASE v = w
      <4>1. /\ voices'[w].card = e /\ voices'[w].status = voices[w].status
            /\ voices'[w].life = voices[w].life /\ cards'[e].voice = w
        BY <1>6, <1>7, <1>8, <3>2, Zenon
      <4>2. voices[w].status = "pending" => voices[w].life = life
        BY <1>0, <3>2, Zenon DEF VoicesFit, PendingFits
      <4>3. /\ voices'[v].card = e /\ voices'[v].status = voices[w].status
            /\ voices'[v].life = voices[w].life /\ cards'[e].voice = v
        BY <3>2, <4>1
      <4>4. e # 0 /\ life' = life
        BY <1>4, <1>6
      <4>5. QED
        BY <3>1, <4>2, <4>3, <4>4, Zenon DEF PendingFits
    <3>3. CASE v # w
      <4>1. voices[v].status = "pending" => voices[v].card # 0 /\ cards[voices[v].card].voice = v
        BY <1>0, <1>3, <3>3, Zenon DEF VoicesFit, PendingFits
      <4>2. voices[v].card # 0 => voices[v].card \in DOMAIN cards
        BY <1>0, VoiceFields, Lengths
      <4>3. QED
        <5>1. /\ voices'[v].card = voices[v].card /\ voices'[v].status = voices[v].status
              /\ voices'[v].life = voices[v].life
          BY <1>8, <3>3
        <5>2. voices[v].card # 0 => cards'[voices[v].card].voice = cards[voices[v].card].voice
          BY <1>7, <4>2, Zenon
        <5>3. voices[v].status = "pending" => voices[v].life = life
          BY <1>0, Zenon DEF VoicesFit, PendingFits
        <5>4. life' = life
          BY <1>4
        <5>5. voices'[v].status = "pending" =>
                /\ voices'[v].life = life'
                /\ voices'[v].card # 0 /\ cards'[voices'[v].card].voice = v
          BY <4>1, <5>1, <5>2, <5>3, <5>4
        <5>6. QED
          BY <3>1, <5>5, Zenon DEF PendingFits
    <3>4. QED
      BY <3>1, <3>2, <3>3
  <2>2. QED
    BY <1>8, <1>10, <2>1, Zenon DEF VoicesFit
<1>12. VerdictsFit'
  BY <1>0, <1>7, <1>8, <1>9, <1>10, VerdictsKept, Zenon
<1>13. CardsFit'
  <2>1. ASSUME NEW c \in DOMAIN cards, c # e
        PROVE  CardFits(c)'
    BY <1>0, <1>7, <1>8, <1>9, <2>1, CardKept, Zenon DEF CardsFit
  <2>2. CardFits(e)'
    <3>1. cards'[e].routed = t /\ cards'[e].about = t /\ cards'[e].voice = w
      BY <1>6, <1>7
    <3>2. w # 0 => voices'[w].thread = t
      BY <1>0, <1>2, <1>3, <1>6, <1>8, Zenon DEF CardsFit
    <3>3. QED
      BY <3>1, <3>2, Zenon DEF CardFits
  <2>3. QED
    BY <1>0, <1>7, <1>8, <1>9, <1>10, <2>1, <2>2, CardsKept, Zenon
<1>14. TextsFit' /\ TextsRunWhereMeant' /\ ListsFit'
  BY <1>0, <1>4, <1>7, <1>9, <1>10, TextsKept, RanKept, ListsKept, Zenon
<1>15. QED
  BY <1>9, <1>10, <1>11, <1>12, <1>13, <1>14, Zenon DEF IInv


\* The job of an answer that is still on its way.
LEMMA AnswerGoes ==
  ASSUME TypeOK, NEW p \in PCs, NEW d \in 0 .. Len(cards'),
         Len(cards') \in Nat, Len(cards) <= Len(cards'),
         job' = [job EXCEPT !.pc = p, !.card = d]
  PROVE  /\ job'.pc = p /\ job'.card = d /\ job'.u = job.u /\ job'.answer = job.answer
         /\ job' \in JobSet(Len(sent), Len(cards'), Len(routes), Len(voices), Len(where))
<1>1. job \in JobSet(Len(sent), Len(cards), Len(routes), Len(voices), Len(where))
  BY Types DEF Typed
<1>2. /\ job.u \in 0 .. Len(sent) /\ job.thread \in 0 .. Len(where)
      /\ job.project \in Projects \cup {None}
      /\ job.answer \in AnswerSet(Len(cards), Len(routes), Len(voices), Len(where))
  BY JobFields
<1>3. 0 .. Len(cards) \subseteq 0 .. Len(cards')
  BY Lengths
<1>4. job.answer \in AnswerSet(Len(cards'), Len(routes), Len(voices), Len(where))
  BY <1>2, <1>3, Zenon DEF AnswerSet
<1>5. job' = [pc |-> p, u |-> job.u, thread |-> job.thread, project |-> job.project,
              card |-> d, answer |-> job.answer]
  BY <1>1, Zenon DEF JobSet
<1>6. job' \in JobSet(Len(sent), Len(cards'), Len(routes), Len(voices), Len(where))
  BY <1>2, <1>4, <1>5, Zenon DEF JobSet
<1>7. QED
  BY <1>5, <1>6, Zenon

\* While an answer is on its way, nothing else moves.
LEMMA StaysInHand ==
  ASSUME IInv, TypeOK', Grows, OnlySends, job.pc # "idle", job'.u = job.u,
         job'.pc \in {"route", "send", "register"}
  PROVE  /\ SentFits' /\ InOrder' /\ UpdateRunsOnce' /\ Current' = Current
         /\ job'.pc \notin Before /\ job'.pc # "edit" /\ job'.u # 0
         /\ \A v : RunsOf(v)' = RunsOf(v)
<1>0. TypeOK /\ SentFits /\ JobFits /\ InOrder /\ UpdateRunsOnce
  BY Zenon DEF IInv
<1>1. /\ sent' = sent /\ ran' = ran /\ life' = life /\ offset' = offset /\ batch' = batch
  BY DEF OnlySends
<1>2. /\ job'.pc \notin Before /\ job'.pc # "edit" /\ job'.pc \notin {"handle"} \cup Before
      /\ job'.u # 0
  BY <1>0 DEF Before, JobFits
<1>3. InOrder' /\ UpdateRunsOnce'
  BY <1>0, <1>1, <1>2, InOrderKept, Zenon
<1>4. QED
  BY <1>0, <1>1, <1>2, <1>3, SentKept, CurrentStays, RunsSame

\* What a card that is edited shows.
LEMMA EditedCard ==
  ASSUME TypeOK, NEW a \in AnswerSet(Len(cards), Len(routes), Len(voices), Len(where)),
         a.edit \in DOMAIN cards, Edited(a)
  PROVE  /\ cards' \in Seq(CardSet(Len(routes), Len(voices), Len(where)))
         /\ Len(cards') = Len(cards) /\ DOMAIN cards' = DOMAIN cards
         /\ \A c \in DOMAIN cards : c # a.edit => cards'[c] = cards[c]
         /\ \A c \in DOMAIN cards : cards'[c].voice = cards[c].voice
         /\ cards'[a.edit].buttons = a.buttons /\ cards'[a.edit].verdict = a.verdict
         /\ cards'[a.edit].list = a.list /\ cards'[a.edit].routed = cards[a.edit].routed
         /\ cards'[a.edit].about = IF a.about = 0 THEN cards[a.edit].about ELSE a.about
<1>1. PICK e : e = a.edit
  OBVIOUS
<1>2. PICK t : t = IF a.about = 0 THEN cards[e].about ELSE a.about
  OBVIOUS
<1> DEFINE x == [cards[e] EXCEPT !.buttons = a.buttons, !.verdict = a.verdict,
                                 !.list = a.list, !.about = t]
<1>3. e \in DOMAIN cards /\ cards \in Seq(CardSet(Len(routes), Len(voices), Len(where)))
  BY <1>1, Types DEF Typed
<1>4. cards[e] \in CardSet(Len(routes), Len(voices), Len(where))
  BY <1>3
<1>5. t \in 0 .. Len(where)
  BY <1>2, <1>3, AnswerFields, CardFields
<1>6. /\ x \in CardSet(Len(routes), Len(voices), Len(where)) /\ x.voice = cards[e].voice
      /\ x.buttons = a.buttons /\ x.verdict = a.verdict /\ x.list = a.list
      /\ x.about = t /\ x.routed = cards[e].routed
  <2>1. a.buttons \in SUBSET (1 .. Len(routes)) /\ a.verdict \in Verdicts /\ a.list \in BOOLEAN
    BY AnswerFields
  <2>2. QED
    BY <1>4, <1>5, <2>1, Zenon DEF CardSet
<1>7. cards' = [cards EXCEPT ![e] = x]
  <2>1. cards' = [cards EXCEPT ![e].buttons = a.buttons, ![e].verdict = a.verdict,
                               ![e].list = a.list,
                               ![e].about = IF a.about = 0 THEN @ ELSE a.about]
    BY <1>1, Zenon DEF Edited
  <2>3. cards[e].about = [cards[e] EXCEPT !.buttons = a.buttons, !.verdict = a.verdict,
                                          !.list = a.list].about
    BY <1>4, Zenon DEF CardSet
  <2>4. cards' = [cards EXCEPT ![e] = [cards[e] EXCEPT !.buttons = a.buttons,
                                  !.verdict = a.verdict, !.list = a.list, !.about = t]]
    BY <1>2, <1>3, <2>1, <2>3, Zenon
  <2>5. QED
    BY <2>4, Zenon
<1>8. /\ cards' \in Seq(CardSet(Len(routes), Len(voices), Len(where)))
      /\ Len(cards') = Len(cards) /\ DOMAIN cards' = DOMAIN cards
      /\ cards'[e] = x
      /\ \A c \in DOMAIN cards : c # e => cards'[c] = cards[c]
      /\ \A c \in DOMAIN cards : cards'[c].voice = cards[c].voice
  <2> HIDE DEF x
  <2>1. QED
    BY <1>3, <1>6, <1>7, CardUpdate
<1>9. /\ cards'[e].buttons = a.buttons /\ cards'[e].verdict = a.verdict
      /\ cards'[e].list = a.list /\ cards'[e].routed = cards[e].routed /\ cards'[e].about = t
  BY <1>6, <1>8
<1> HIDE DEF x
<1>10. QED
  BY <1>1, <1>2, <1>8, <1>9, Zenon

\* A card is edited, or the answer is sent instead.
LEMMA editOrSendKeeps ==
  ASSUME IInv, editOrSend
  PROVE  IInv'
<1>0. /\ TypeOK /\ SentFits /\ JobFits /\ VoicesFit /\ VerdictsFit
      /\ CardsFit /\ TextsFit /\ TextsRunWhereMeant /\ ListsFit
  BY Zenon DEF IInv
<1>1. PICK a : a = job.answer
  OBVIOUS
<1>2. PICK e : e = a.edit
  OBVIOUS
<1>3. /\ job.pc = "edit" /\ job.pc # "idle" /\ voices' = voices /\ selected' = selected
      /\ life' = life /\ ran' = ran /\ routes' = routes /\ where' = where
  BY Zenon DEF editOrSend, bot
<1>4. /\ Edited(a) \/ cards' = cards
      /\ \/ Ends
         \/ Edited(a) /\ a.about # 0 /\ job' = [job EXCEPT !.pc = "route"] /\ done' = done
         \/ job' = [job EXCEPT !.pc = "send"] /\ done' = done
  BY <1>1, Zenon DEF editOrSend, Goes
<1>5. OnlySends
  <2>1. faults' = faults \/ Fault
    BY Zenon DEF editOrSend
  <2>2. faults' \in 0 .. MaxFaults
    BY <1>0, <2>1, FaultCounts, Types DEF Scalars
  <2>3. QED
    BY <2>2, Zenon DEF editOrSend, bot, OnlySends
<1>6. /\ e = Current.re /\ e \in DOMAIN cards /\ a.voice = 0
      /\ a \in AnswerSet(Len(cards), Len(routes), Len(voices), Len(where))
  <2>1. e = Current.re /\ Current.kind \in {"press", "confirm"}
    BY <1>0, <1>1, <1>2, <1>3 DEF JobFits
  <2>2. Current.re \in DOMAIN cards
    BY <1>0, <1>3, <2>1, PressFields, ConfirmFields
  <2>3. a.voice = 0
    BY <1>0, <1>1, <1>3 DEF VoicesFit
  <2>4. QED
    BY <1>0, <1>1, <2>1, <2>2, <2>3, JobFields
<1>7. /\ cards' \in Seq(CardSet(Len(routes), Len(voices), Len(where)))
      /\ Len(cards') = Len(cards) /\ DOMAIN cards' = DOMAIN cards
      /\ \A c \in DOMAIN cards : c # e => cards'[c] = cards[c]
      /\ \A c \in DOMAIN cards : cards'[c].voice = cards[c].voice
  BY <1>0, <1>2, <1>4, <1>6, EditedCard, Types, Zenon DEF Typed
<1>8. /\ Edited(a) => /\ cards'[e].buttons = a.buttons /\ cards'[e].verdict = a.verdict
                      /\ cards'[e].list = a.list /\ cards'[e].routed = cards[e].routed
                      /\ cards'[e].about = IF a.about = 0 THEN cards[e].about ELSE a.about
      /\ \/ Edited(a)
         \/ cards'[e] = cards[e]
  BY <1>0, <1>2, <1>4, <1>6, EditedCard, ZenonT(30)
<1>9. /\ done' \subseteq 1 .. Len(sent)
      /\ job' \in JobSet(Len(sent), Len(cards), Len(routes), Len(voices), Len(where))
      /\ \/ job' = Idle
         \/ /\ job'.pc \in {"route", "send"} /\ job'.u = job.u /\ job'.answer = a
            /\ job'.pc = "route" => Edited(a) /\ a.about # 0
  <2>1. Len(cards) \in Nat /\ Len(cards') = Len(cards) /\ Len(cards) <= Len(cards')
    BY <1>0, <1>7, Lengths
  <2>2. CASE Ends
    BY <1>0, <1>3, <2>2, EndsTyped, Lengths DEF Ends
  <2>3. ASSUME NEW p \in {"route", "send"}, job' = [job EXCEPT !.pc = p], done' = done,
               p = "route" => Edited(a) /\ a.about # 0
        PROVE  /\ done' \subseteq 1 .. Len(sent)
               /\ job' \in JobSet(Len(sent), Len(cards), Len(routes), Len(voices), Len(where))
               /\ job'.pc \in {"route", "send"} /\ job'.u = job.u /\ job'.answer = a
               /\ job'.pc = "route" => Edited(a) /\ a.about # 0
    <3>1. done' \subseteq 1 .. Len(sent) /\ p \in PCs /\ job.card \in 0 .. Len(cards')
      BY <1>0, <2>1, <2>3, Types, JobFields DEF Typed, PCs
    <3>2. job' = [job EXCEPT !.pc = p, !.card = job.card]
      <4>1. job \in JobSet(Len(sent), Len(cards), Len(routes), Len(voices), Len(where))
        BY <1>0, Types DEF Typed
      <4>2. QED
        BY <2>3, <4>1, Zenon DEF JobSet
    <3>3. /\ job'.pc = p /\ job'.u = job.u /\ job'.answer = job.answer
          /\ job' \in JobSet(Len(sent), Len(cards'), Len(routes), Len(voices), Len(where))
      BY <1>0, <2>1, <3>1, <3>2, AnswerGoes
    <3>4. QED
      BY <1>1, <2>1, <2>3, <3>1, <3>3, Zenon
  <2>4. CASE Edited(a) /\ a.about # 0 /\ job' = [job EXCEPT !.pc = "route"] /\ done' = done
    BY <2>3, <2>4
  <2>5. CASE job' = [job EXCEPT !.pc = "send"] /\ done' = done
    BY <2>3, <2>5
  <2>6. QED
    BY <1>4, <2>2, <2>4, <2>5
<1>10. TypeOK' /\ Grows
  <2>1. voices \in Seq(VoiceSet(Len(where), Len(cards'))) /\ Len(cards) <= Len(cards')
    BY <1>0, <1>7, Types, Lengths DEF Typed
  <2>2. QED
    BY <1>0, <1>3, <1>5, <1>7, <1>9, <2>1, SendsTyped, Zenon
<1>11. /\ SentFits' /\ JobFits' /\ InOrder' /\ UpdateRunsOnce'
       /\ job'.pc \notin Before /\ job'.pc # "edit" /\ job'.answer.voice = 0
       /\ job'.answer = a \/ job'.answer.list = FALSE
       /\ \A v : RunsOf(v)' = RunsOf(v)
  <2>1. CASE job' = Idle
    BY <1>5, <1>10, <2>1, EndsKeeps
  <2>2. CASE /\ job'.pc \in {"route", "send"} /\ job'.u = job.u /\ job'.answer = a
             /\ job'.pc = "route" => Edited(a) /\ a.about # 0
    <3>1. /\ SentFits' /\ InOrder' /\ UpdateRunsOnce' /\ Current' = Current
          /\ job'.pc \notin Before /\ job'.pc # "edit" /\ job'.u # 0
          /\ \A v : RunsOf(v)' = RunsOf(v)
      BY <1>3, <1>5, <1>10, <2>2, StaysInHand
    <3>2. Current.kind \in {"press", "confirm"} /\ a.edit = Current.re
      BY <1>0, <1>1, <1>3 DEF JobFits
    <3>3. job'.pc = "route" => cards'[a.edit].about = a.about
      BY <1>2, <1>8, <2>2
    <3>4. JobFits'
      BY <2>2, <3>1, <3>2, <3>3 DEF JobFits
    <3>5. QED
      BY <1>6, <2>2, <3>1, <3>4
  <2>3. QED
    BY <1>9, <2>1, <2>2
<1>12. VoicesFit'
  <2>1. job'.answer.voice = job.answer.voice
    BY <1>1, <1>6, <1>11
  <2>2. QED
    BY <1>0, <1>3, <1>10, <1>11, <2>1, VoicesKept, Zenon
<1>13. VerdictsFit'
  <2>1. \A x, v : VerdictFits(x, v) => VerdictFits(x, v)'
    BY <1>3, <1>11, Zenon DEF VerdictFits
  <2>2. \A c \in DOMAIN cards : VerdictFits(cards[c].verdict, cards[c].voice)
    BY <1>0, Zenon DEF VerdictsFit
  <2>3. VerdictFits(a.verdict, cards[e].voice)
    BY <1>0, <1>1, <1>3, <1>6, Zenon DEF VerdictsFit, VoiceOf
  <2>4. cards'[e].verdict = a.verdict \/ cards'[e].verdict = cards[e].verdict
    BY <1>8, Zenon
  <2>5. ASSUME NEW c \in DOMAIN cards
        PROVE  VerdictFits(cards[c].verdict, cards[c].voice)'
    <3>1. PICK x : x = cards'[c].verdict
      OBVIOUS
    <3>2. PICK v : v = cards'[c].voice
      OBVIOUS
    <3>3. VerdictFits(x, v)
      <4>1. CASE c = e
        BY <1>7, <2>2, <2>3, <2>4, <3>1, <3>2, <4>1, Zenon
      <4>2. CASE c # e
        BY <1>7, <2>2, <3>1, <3>2, <4>2, Zenon
      <4>3. QED
        BY <4>1, <4>2
    <3>4. QED
      BY <2>1, <3>1, <3>2, <3>3, Zenon
  <2>6. QED
    BY <1>7, <1>11, <2>5, Zenon DEF VerdictsFit
<1>14. \A c \in DOMAIN cards : cards'[c].about = cards[c].about \/ cards[c].about = 0
  <2>1. cards'[e].about = cards[e].about \/ cards[e].about = 0
    <3>1. a.about # 0 => cards[e].about \in {0, a.about}
      BY <1>0, <1>1, <1>3, <1>6, Zenon DEF CardsFit
    <3>2. QED
      BY <1>8, <3>1
  <2>2. QED
    BY <1>7, <2>1
<1>15. CardsFit'
  <2>1. ASSUME NEW c \in DOMAIN cards, c # e
        PROVE  CardFits(c)'
    BY <1>0, <1>3, <1>7, <1>10, <2>1, CardKept, Zenon DEF CardsFit
  <2>2. CardFits(e)'
    <3>1. CASE cards'[e].about = cards[e].about
      <4>1. cards'[e].routed = cards[e].routed
        BY <1>8, Zenon
      <4>2. QED
        BY <1>0, <1>3, <1>6, <1>10, <3>1, <4>1, CardKept, Zenon DEF CardsFit
    <3>2. CASE cards'[e].about # cards[e].about
      <4>1. a.about # 0 /\ cards[e].about = 0 /\ Edited(a)
        BY <1>6, <1>8, <1>14, <3>2
      <4>2. voices[cards[e].voice].status = "executed"
        BY <1>0, <1>1, <1>3, <1>6, <4>1, Zenon DEF CardsFit, VoiceOf
      <4>3. cards[e].routed = 0
        BY <1>0, <1>6, <4>1 DEF CardsFit, CardFits
      <4>4. cards'[e].routed = 0 /\ voices'[cards'[e].voice].status # "pending"
        BY <1>3, <1>6, <1>7, <1>8, <4>1, <4>2, <4>3
      <4>5. QED
        BY <4>4 DEF CardFits
    <3>3. QED
      BY <3>1, <3>2
  <2>3. QED
    BY <1>7, <1>11, <2>1, <2>2, Zenon DEF CardsFit
<1>16. TextsFit' /\ TextsRunWhereMeant'
  BY <1>0, <1>3, <1>10, <1>11, <1>14, TextsKept, RanKept, Zenon
<1>17. ListsFit'
  <2>1. \A b : HasSelect(b) => HasSelect(b)'
    BY <1>3, Zenon DEF HasSelect
  <2>2. /\ \A c \in DOMAIN cards : cards[c].list => HasSelect(cards[c].buttons)
        /\ a.list => HasSelect(a.buttons)
    BY <1>0, <1>1, Zenon DEF ListsFit
  <2>3. ASSUME NEW c \in DOMAIN cards, cards'[c].list
        PROVE  HasSelect(cards[c].buttons)'
    <3>1. PICK b : b = cards'[c].buttons
      OBVIOUS
    <3>2. HasSelect(b)
      <4>1. CASE c = e /\ cards'[e] # cards[e]
        BY <1>8, <2>2, <2>3, <3>1, <4>1, Zenon
      <4>2. CASE c # e \/ cards'[e] = cards[e]
        BY <1>7, <2>2, <2>3, <3>1, <4>2, Zenon
      <4>3. QED
        BY <4>1, <4>2
    <3>3. QED
      BY <2>1, <3>1, <3>2, Zenon
  <2>4. ASSUME job'.answer.list
        PROVE  HasSelect(job.answer.buttons)'
    <3>1. PICK b : b = a.buttons
      OBVIOUS
    <3>2. job'.answer = a /\ HasSelect(b)
      BY <1>11, <2>2, <2>4, <3>1, Zenon
    <3>3. QED
      BY <2>1, <3>1, <3>2, Zenon
  <2>5. QED
    BY <1>7, <2>3, <2>4, Zenon DEF ListsFit
<1>18. QED
  BY <1>10, <1>11, <1>12, <1>13, <1>15, <1>16, <1>17, Zenon DEF IInv

\* An answer is sent as a new card, or it is given up.
LEMMA deliverKeeps ==
  ASSUME IInv, deliverDirectResponse
  PROVE  IInv'
<1>0. /\ TypeOK /\ SentFits /\ JobFits /\ VoicesFit /\ VerdictsFit
      /\ CardsFit /\ TextsFit /\ TextsRunWhereMeant /\ ListsFit
  BY Zenon DEF IInv
<1>1. PICK a : a = job.answer
  OBVIOUS
<1>2. PICK n : n = Len(cards) + 1
  OBVIOUS
<1> DEFINE x == Card(a.buttons, a.voice, a.about, a.list)
           Going == /\ cards' = Append(cards, x) /\ voices' = voices
                    /\ job' = [job EXCEPT !.pc = "register", !.card = n] /\ done' = done
           Dropped == a.voice = 0 /\ cards' = cards /\ voices' = voices /\ Ends
           Lost == /\ cards' = Append(cards, x) \/ cards' = cards
                   /\ IF a.voice = 0 THEN voices' = voices
                      ELSE voices' = [voices EXCEPT ![a.voice].status = "failed"]
                   /\ Ends
<1>3. /\ job.pc = "send" /\ job.pc # "idle" /\ selected' = selected
      /\ life' = life /\ ran' = ran /\ routes' = routes /\ where' = where
      /\ Going \/ Dropped \/ Lost
  BY <1>1, <1>2, Zenon DEF deliverDirectResponse, bot, Goes, AbandonVoiceConfirmation, SettleVoice
<1>4. OnlySends
  <2>1. faults' = faults \/ Fault
    BY Zenon DEF deliverDirectResponse
  <2>2. faults' \in 0 .. MaxFaults
    BY <1>0, <2>1, FaultCounts, Types DEF Scalars
  <2>3. QED
    BY <2>2, Zenon DEF deliverDirectResponse, bot, OnlySends
<1>5. /\ a \in AnswerSet(Len(cards), Len(routes), Len(voices), Len(where))
      /\ a.voice # 0 => a.voice \in DOMAIN voices /\ voices[a.voice].status = "pending"
      /\ cards \in Seq(CardSet(Len(routes), Len(voices), Len(where)))
      /\ voices \in Seq(VoiceSet(Len(where), Len(cards)))
      /\ Len(cards) \in Nat /\ DOMAIN cards = 1 .. Len(cards)
      /\ Len(voices) \in Nat /\ DOMAIN voices = 1 .. Len(voices)
  <2>1. a.voice # 0 => voices[a.voice].status = "pending"
    BY <1>0, <1>1, Zenon DEF VoicesFit
  <2>2. QED
    BY <1>0, <1>1, <2>1, AnswerInHand, JobFields, Types, Lengths DEF Typed
<1>6. /\ x.buttons = a.buttons /\ x.voice = a.voice /\ x.verdict = "none" /\ x.about = a.about
      /\ x.list = a.list /\ x.routed = 0
      /\ x \in CardSet(Len(routes), Len(voices), Len(where))
  <2>1. 0 \in 0 .. Len(where) /\ "none" \in Verdicts
    BY <1>0, Lengths DEF Verdicts
  <2>2. x = [buttons |-> a.buttons, voice |-> a.voice, verdict |-> "none",
             about |-> a.about, list |-> a.list, routed |-> 0]
    BY Zenon DEF Card
  <2>3. /\ a.buttons \in SUBSET (1 .. Len(routes)) /\ a.voice \in 0 .. Len(voices)
        /\ a.about \in 0 .. Len(where) /\ a.list \in BOOLEAN
    BY <1>5, AnswerFields
  <2> HIDE DEF x
  <2>4. QED
    BY <2>1, <2>2, <2>3, Zenon DEF CardSet
<1> HIDE DEF x
<1>7. /\ cards' \in Seq(CardSet(Len(routes), Len(voices), Len(where)))
      /\ Len(cards') \in Nat /\ Len(cards) <= Len(cards') /\ DOMAIN cards' = 1 .. Len(cards')
      /\ \A c \in DOMAIN cards : c \in DOMAIN cards' /\ cards'[c] = cards[c]
      /\ \A c \in DOMAIN cards' : c \notin DOMAIN cards => cards'[c] = x
      /\ cards' # cards => n \in DOMAIN cards' /\ cards'[n] = x /\ Len(cards') = n
  <2>1. CASE cards' = Append(cards, x)
    <3>1. /\ cards' \in Seq(CardSet(Len(routes), Len(voices), Len(where)))
          /\ Len(cards') = n /\ n \in Nat /\ DOMAIN cards' = 1 .. n /\ cards'[n] = x
      BY <1>2, <1>5, <1>6, <2>1
    <3>2. \A c \in DOMAIN cards : c \in 1 .. n /\ cards'[c] = cards[c]
      BY <1>2, <1>5, <1>6, <2>1
    <3>3. \A c \in 1 .. n : c \notin DOMAIN cards => c = n
      BY <1>2, <1>5
    <3>4. n \in 1 .. n /\ Len(cards) <= n
      BY <1>2, <1>5
    <3>5. QED
      BY <3>1, <3>2, <3>3, <3>4, Zenon
  <2>2. CASE cards' = cards
    BY <1>5, <2>2
  <2>3. QED
    BY <1>3, <2>1, <2>2, Zenon
<1>8. /\ voices' \in Seq(VoiceSet(Len(where), Len(cards))) /\ Len(voices') = Len(voices)
      /\ DOMAIN voices' = DOMAIN voices
      /\ \A v \in DOMAIN voices :
           /\ voices'[v].thread = voices[v].thread /\ voices'[v].life = voices[v].life
           /\ voices'[v].card = voices[v].card
           /\ voices'[v].status # "pending" => voices[v].status \in {"pending", voices'[v].status}
           /\ voices'[v].status = "pending" => voices[v].status = "pending"
           /\ voices'[v].status = "executed" => voices[v].status = "executed"
           /\ voices[v].status # "pending" => voices'[v].status = voices[v].status
           /\ v # a.voice => voices'[v].status = voices[v].status
      /\ (Lost /\ a.voice # 0) => voices'[a.voice].status = "failed"
  <2>1. CASE voices' = voices /\ (Lost => a.voice = 0)
    BY <1>5, <2>1, Zenon
  <2>2. CASE a.voice # 0 /\ voices' = [voices EXCEPT ![a.voice].status = "failed"]
    <3> DEFINE y == [voices[a.voice] EXCEPT !.status = "failed"]
    <3>1. voices[a.voice] \in VoiceSet(Len(where), Len(cards))
      BY <1>5, <2>2
    <3>2. /\ y \in VoiceSet(Len(where), Len(cards)) /\ y.thread = voices[a.voice].thread
          /\ y.status = "failed" /\ y.life = voices[a.voice].life
          /\ y.card = voices[a.voice].card
      BY <3>1, Zenon DEF VoiceSet
    <3>3. voices' = [voices EXCEPT ![a.voice] = y]
      BY <2>2, Zenon
    <3> HIDE DEF y
    <3>4. /\ voices' \in Seq(VoiceSet(Len(where), Len(cards))) /\ Len(voices') = Len(voices)
          /\ DOMAIN voices' = DOMAIN voices /\ voices'[a.voice] = y
          /\ \A v \in DOMAIN voices : v # a.voice => voices'[v] = voices[v]
      BY <1>5, <2>2, <3>2, <3>3
    <3>5. ASSUME NEW v \in DOMAIN voices
          PROVE  /\ voices'[v].thread = voices[v].thread /\ voices'[v].life = voices[v].life
                 /\ voices'[v].card = voices[v].card
                 /\ voices'[v].status # "pending" =>
                      voices[v].status \in {"pending", voices'[v].status}
                 /\ voices'[v].status = "pending" => voices[v].status = "pending"
                 /\ voices'[v].status = "executed" => voices[v].status = "executed"
                 /\ voices[v].status # "pending" => voices'[v].status = voices[v].status
                 /\ v # a.voice => voices'[v].status = voices[v].status
      <4>1. CASE v = a.voice
        BY <1>5, <2>2, <3>2, <3>4, <4>1
      <4>2. CASE v # a.voice
        BY <3>4, <4>2
      <4>3. QED
        BY <4>1, <4>2
    <3>6. QED
      BY <3>2, <3>4, <3>5, Zenon
  <2>3. QED
    BY <1>3, <2>1, <2>2, Zenon
<1>9. /\ done' \subseteq 1 .. Len(sent)
      /\ job' \in JobSet(Len(sent), Len(cards'), Len(routes), Len(voices), Len(where))
      /\ \/ job' = Idle /\ (Dropped \/ Lost)
         \/ /\ job'.pc = "register" /\ job'.u = job.u /\ job'.answer = a /\ job'.card = n
            /\ voices' = voices /\ cards' # cards
  <2>1. CASE Dropped \/ Lost
    <3>1. Ends
      BY <2>1
    <3>2. /\ done' \subseteq 1 .. Len(sent) /\ job' = Idle
      BY <1>0, <1>3, <3>1, EndsTyped DEF Ends
    <3>3. Idle \in JobSet(Len(sent), Len(cards'), Len(routes), Len(voices), Len(where))
      BY <1>0, <1>7, IdleTyped, Lengths
    <3>4. QED
      BY <2>1, <3>2, <3>3
  <2>2. CASE Going
    <3>1. done' \subseteq 1 .. Len(sent) /\ "register" \in PCs
      BY <1>0, <2>2, Types DEF Typed, PCs
    <3>2. cards' # cards /\ n \in 0 .. Len(cards')
      <4>1. cards' = Append(cards, x)
        BY <2>2
      <4>2. n \in Nat /\ Len(cards) # n /\ n \in 0 .. n
        <5>1. Len(cards) \in Nat
          BY <1>5
        <5>2. QED
          BY <1>2, <5>1
      <4>3. Len(Append(cards, x)) = n
        BY <1>2, <1>5, <1>6
      <4>4. QED
        BY <4>1, <4>2, <4>3, Zenon
    <3>3. /\ job'.pc = "register" /\ job'.u = job.u /\ job'.answer = job.answer /\ job'.card = n
          /\ job' \in JobSet(Len(sent), Len(cards'), Len(routes), Len(voices), Len(where))
      BY <1>0, <1>7, <2>2, <3>1, <3>2, AnswerGoes
    <3>4. QED
      BY <1>1, <2>2, <3>1, <3>2, <3>3
  <2>3. QED
    BY <1>3, <2>1, <2>2
<1>10. TypeOK' /\ Grows
  <2>1. VoiceSet(Len(where), Len(cards)) \subseteq VoiceSet(Len(where), Len(cards'))
    <3>1. 0 .. Len(cards) \subseteq 0 .. Len(cards')
      BY <1>5, <1>7
    <3>2. QED
      BY <3>1, Zenon DEF VoiceSet
  <2>2. voices' \in Seq(VoiceSet(Len(where), Len(cards')))
    BY <1>8, <2>1, SeqWider, Zenon
  <2>3. \A c \in DOMAIN cards : cards'[c].voice = cards[c].voice
    BY <1>7, Zenon
  <2>4. QED
    BY <1>0, <1>4, <1>7, <1>8, <1>9, <2>2, <2>3, SendsTyped, Zenon
<1>11. /\ SentFits' /\ JobFits' /\ InOrder' /\ UpdateRunsOnce'
       /\ job'.pc \notin Before /\ job'.pc # "edit"
       /\ \/ job'.answer.voice = 0 /\ job'.answer.list = FALSE
          \/ job'.answer = a /\ voices' = voices /\ job'.pc = "register"
       /\ \A v : RunsOf(v)' = RunsOf(v)
  <2>1. CASE job' = Idle
    BY <1>4, <1>10, <2>1, EndsKeeps
  <2>2. CASE /\ job'.pc = "register" /\ job'.u = job.u /\ job'.answer = a /\ job'.card = n
             /\ voices' = voices /\ cards' # cards
    <3>1. /\ SentFits' /\ InOrder' /\ UpdateRunsOnce' /\ Current' = Current
          /\ job'.pc \notin Before /\ job'.pc # "edit" /\ job'.u # 0
          /\ \A v : RunsOf(v)' = RunsOf(v)
      BY <1>3, <1>4, <1>10, <2>2, StaysInHand
    <3>2. n # 0 /\ cards'[n].about = a.about /\ cards'[n].voice = a.voice
      BY <1>2, <1>5, <1>6, <1>7, <2>2
    <3>3. JobFits'
      BY <2>2, <3>1, <3>2 DEF JobFits
    <3>4. QED
      BY <2>2, <3>1, <3>3
  <2>3. QED
    BY <1>9, <2>1, <2>2
<1>12. VoicesFit'
  <2>1. ASSUME NEW v \in DOMAIN voices
        PROVE  RunsFit(v)' /\ PendingFits(v)'
    <3>1. RunsFit(v)'
      BY <1>0, <1>8, <1>11, <2>1, ZenonT(30) DEF VoicesFit, RunsFit
    <3>2. ASSUME voices'[v].status = "pending"
          PROVE  \/ voices[v].card # 0 /\ cards[voices[v].card].voice = v
                 \/ job'.answer.voice = v
      <4>1. voices[v].status = "pending" /\ v # 0
        BY <1>5, <1>8, <3>2
      <4>2. \/ voices[v].card # 0 /\ cards[voices[v].card].voice = v
            \/ a.voice = v
        BY <1>0, <1>1, <4>1, Zenon DEF VoicesFit, PendingFits
      <4>3. ~ Dropped \/ a.voice # v
        BY <4>1
      <4>4. ~ Lost \/ a.voice # v
        BY <1>8, <3>2, <4>1
      <4>5. QED
        BY <1>9, <4>2, <4>3, <4>4
    <3>3. voices[v].card # 0 => cards'[voices[v].card].voice = cards[voices[v].card].voice
      <4>1. voices[v].card # 0 => voices[v].card \in DOMAIN cards
        BY <1>0, VoiceFields, Lengths
      <4>2. QED
        BY <1>7, <4>1, Zenon
    <3>4. voices[v].status = "pending" => voices[v].life = life
      BY <1>0, Zenon DEF VoicesFit, PendingFits
    <3>5. voices'[v].status = "pending" =>
            /\ voices'[v].life = life'
            /\ \/ voices'[v].card # 0 /\ cards'[voices'[v].card].voice = v
               \/ job'.answer.voice = v
      BY <1>3, <1>8, <3>2, <3>3, <3>4
    <3>6. QED
      BY <3>1, <3>5, Zenon DEF PendingFits
  <2>2. job'.answer.voice # 0 =>
          job'.pc \in {"send", "register"} /\ voices'[job'.answer.voice].status = "pending"
    BY <1>5, <1>11
  <2>3. QED
    BY <1>8, <1>11, <2>1, <2>2, Zenon DEF VoicesFit
<1>13. VerdictsFit'
  <2>1. \A c \in DOMAIN cards : cards'[c].verdict = cards[c].verdict
    BY <1>7, Zenon
  <2>2. \A c \in DOMAIN cards' : c \notin DOMAIN cards => cards'[c].verdict = "none"
    BY <1>6, <1>7, Zenon
  <2>3. \A w \in DOMAIN voices : voices[w].status = "cancelled" => voices'[w].status = "cancelled"
    BY <1>8
  <2>4. QED
    BY <1>0, <1>10, <1>11, <2>1, <2>2, <2>3, VerdictsKept, Zenon
<1>14. CardsFit'
  <2>1. ASSUME NEW c \in DOMAIN cards
        PROVE  CardFits(c)'
    <3>1. cards'[c].routed = cards[c].routed /\ cards'[c].about = cards[c].about
      BY <1>7, Zenon
    <3>2. \A v \in DOMAIN voices : voices'[v].status = "pending" => voices[v].status = "pending"
      BY <1>8
    <3>3. QED
      BY <1>0, <1>10, <3>1, <3>2, CardKept, Zenon DEF CardsFit
  <2>2. a.voice # 0 => a.about = voices'[a.voice].thread
    BY <1>0, <1>1, <1>5, <1>8, Zenon DEF CardsFit
  <2>3. ASSUME NEW c \in DOMAIN cards', c \notin DOMAIN cards
        PROVE  CardFits(c)'
    <3>1. cards'[c].routed = 0 /\ cards'[c].about = a.about /\ cards'[c].voice = a.voice
      BY <1>6, <1>7, <2>3
    <3>2. QED
      BY <2>2, <3>1, Zenon DEF CardFits
  <2>4. job'.answer.voice # 0 => job'.answer.about = voices'[job'.answer.voice].thread
    BY <1>11, <2>2
  <2>5. QED
    BY <1>11, <2>1, <2>3, <2>4, Zenon DEF CardsFit
<1>15. TextsFit' /\ TextsRunWhereMeant'
  <2>1. \A c \in DOMAIN cards : cards'[c].about = cards[c].about
    BY <1>7, Zenon
  <2>2. QED
    BY <1>0, <1>3, <1>10, <1>11, <2>1, TextsKept, RanKept, Zenon
<1>16. ListsFit'
  <2>1. \A b : HasSelect(b) => HasSelect(b)'
    BY <1>3, Zenon DEF HasSelect
  <2>2. /\ \A c \in DOMAIN cards : cards[c].list => HasSelect(cards[c].buttons)
        /\ a.list => HasSelect(a.buttons)
    BY <1>0, <1>1, Zenon DEF ListsFit
  <2>3. ASSUME NEW c \in DOMAIN cards', cards'[c].list
        PROVE  HasSelect(cards[c].buttons)'
    <3>1. PICK b : b = cards'[c].buttons
      OBVIOUS
    <3>2. HasSelect(b)
      <4>1. CASE c \in DOMAIN cards
        BY <1>7, <2>2, <2>3, <3>1, <4>1, Zenon
      <4>2. CASE c \notin DOMAIN cards
        BY <1>6, <1>7, <2>2, <2>3, <3>1, <4>2, Zenon
      <4>3. QED
        BY <4>1, <4>2
    <3>3. QED
      BY <2>1, <3>1, <3>2, Zenon
  <2>4. ASSUME job'.answer.list
        PROVE  HasSelect(job.answer.buttons)'
    <3>1. PICK b : b = a.buttons
      OBVIOUS
    <3>2. job'.answer = a /\ HasSelect(b)
      BY <1>11, <2>2, <2>4, <3>1, Zenon
    <3>3. QED
      BY <2>1, <3>1, <3>2, Zenon
  <2>5. QED
    BY <2>3, <2>4, Zenon DEF ListsFit
<1>17. QED
  BY <1>10, <1>11, <1>12, <1>13, <1>14, <1>15, <1>16, Zenon DEF IInv

-----------------------------------------------------------------------------
(***************************************************************************)
(* Voice commands.                                                         *)
(***************************************************************************)

\* The owner is asked about a voice command.
LEMMA CreateKeeps ==
  ASSUME IInv, job.pc = "handle", NEW project \in Projects, NEW t \in 0 .. Len(where),
         CreateVoiceConfirmation(project, t),
         UNCHANGED <<telegram, where, bot, selected, bound, routes, faults, ran>>
  PROVE  IInv'
<1>0. /\ TypeOK /\ SentFits /\ JobFits /\ InOrder /\ UpdateRunsOnce /\ VoicesFit /\ VerdictsFit
      /\ CardsFit /\ TextsFit /\ TextsRunWhereMeant /\ ListsFit
  BY Zenon DEF IInv
<1>1. PICK m : m = Len(voices) + 1
  OBVIOUS
<1>2. PICK y : y = [project |-> project, thread |-> t, life |-> life,
                    status |-> "pending", card |-> 0]
  OBVIOUS
<1>3. PICK a : a = [NoAnswer EXCEPT !.voice = m, !.about = t]
  OBVIOUS
<1>4. /\ voices' = Append(voices, y) /\ Answers(a)
      /\ sent' = sent /\ confirmed' = confirmed /\ cards' = cards /\ where' = where
      /\ offset' = offset /\ batch' = batch /\ life' = life /\ selected' = selected
      /\ bound' = bound /\ routes' = routes /\ faults' = faults /\ ran' = ran
      /\ job.pc # "idle"
  BY <1>1, <1>2, <1>3, Zenon DEF CreateVoiceConfirmation, telegram, bot
<1>5. /\ a.edit = 0 /\ a.buttons = {} /\ a.voice = m /\ a.verdict = "none" /\ a.about = t
      /\ a.list = FALSE
      /\ a = [edit |-> 0, buttons |-> {}, voice |-> m, verdict |-> "none", about |-> t,
              list |-> FALSE]
  BY <1>3 DEF NoAnswer
<1>6. /\ voices \in Seq(VoiceSet(Len(where), Len(cards))) /\ Len(voices) \in Nat
      /\ DOMAIN voices = 1 .. Len(voices) /\ life \in Nat /\ Len(cards) \in Nat
      /\ m \in Nat /\ m # 0 /\ Len(voices) <= m /\ m \notin DOMAIN voices
      /\ \A v \in 1 .. m : v \notin DOMAIN voices => v = m
      /\ DOMAIN voices \subseteq 1 .. m
  <2>1. /\ voices \in Seq(VoiceSet(Len(where), Len(cards))) /\ Len(voices) \in Nat
        /\ DOMAIN voices = 1 .. Len(voices) /\ life \in Nat /\ Len(cards) \in Nat
    BY <1>0, Types, Lengths DEF Typed
  <2>2. QED
    BY <1>1, <2>1
<1>7. /\ y \in VoiceSet(Len(where), Len(cards)) /\ y.status = "pending"
      /\ y.thread = t /\ y.life = life
      /\ y.card = 0
  <2>1. 0 \in 0 .. Len(cards)
    BY <1>6
  <2>2. QED
    BY <1>2, <1>6, <2>1, Zenon DEF VoiceSet
<1>8. /\ voices' \in Seq(VoiceSet(Len(where), Len(cards))) /\ Len(voices') = m
      /\ DOMAIN voices' = 1 .. m /\ voices'[m] = y
      /\ \A v \in DOMAIN voices : voices'[v] = voices[v]
  BY <1>1, <1>4, <1>6, <1>7
<1>9. /\ job'.pc = "send" /\ job'.u = job.u /\ job'.answer = a /\ done' = done
  <2>1. a.edit \in Nat
    BY <1>5
  <2>2. QED
    BY <1>0, <1>4, <1>5, <2>1, AnswersEffect
<1>10. Grows
  BY <1>0, <1>1, <1>4, <1>8, Lengths DEF Grows
<1>11. job' \in JobSet(Len(sent), Len(cards), Len(routes), Len(voices'), Len(where))
  <2>1. job \in JobSet(Len(sent), Len(cards), Len(routes), Len(voices), Len(where))
    BY <1>0, Types DEF Typed
  <2>2. job' = [job EXCEPT !.pc = IF a.edit # 0 THEN "edit" ELSE "send", !.answer = a]
    BY <1>4, Zenon DEF Answers, Goes
  <2>3. {} \in SUBSET (1 .. Len(routes)) /\ 0 \in 0 .. Len(cards) /\ m \in 0 .. Len(voices')
    BY <1>0, <1>6, <1>8
  <2>4. a \in AnswerSet(Len(cards), Len(routes), Len(voices'), Len(where))
    BY <1>5, <2>3, Zenon DEF AnswerSet, Verdicts
  <2>5. QED
    BY <2>1, <2>2, <2>4, Zenon DEF JobSet, PCs
<1>12. TypeOK'
  <2>1. Typed(Len(sent'), Len(cards'), Len(routes'), Len(voices'), Len(where'), life')
    BY <1>0, <1>10, StillTyped
  <2>2. Typed(Len(sent), Len(cards), Len(routes), Len(voices), Len(where), life)'
    <3>1. /\ job' \in JobSet(Len(sent'), Len(cards'), Len(routes'), Len(voices'), Len(where'))
          /\ voices' \in Seq(VoiceSet(Len(where'), Len(cards')))
      BY <1>4, <1>8, <1>11, Zenon
    <3>2. done' = done
      BY <1>9
    <3>3. QED
      BY <1>4, <2>1, <3>1, <3>2, Zenon DEF Typed
  <2>3. Scalars'
    BY <1>0, <1>4, Types, Zenon DEF Scalars
  <2>4. QED
    BY <2>2, <2>3, Types
<1>13. \A v : RunsOf(v)' = RunsOf(v)
  BY <1>0, <1>4, <1>10, RunsSame
<1>14. /\ job.answer.voice = 0 /\ job'.pc \notin Before /\ job'.pc # "edit" /\ job'.u # 0
       /\ job'.pc \notin {"handle"} \cup Before
  BY <1>0, <1>4, <1>9, IdleFields DEF JobFits, Before
<1>15. /\ SentFits' /\ JobFits' /\ InOrder' /\ UpdateRunsOnce'
  <2>1. SentFits'
    BY <1>0, <1>4, <1>10, SentKept
  <2>2. InOrder' /\ UpdateRunsOnce'
    BY <1>0, <1>4, <1>9, <1>14, InOrderKept, Zenon
  <2>3. JobFits'
    BY <1>9, <1>14 DEF JobFits
  <2>4. QED
    BY <2>1, <2>2, <2>3
<1>16. VoicesFit'
  <2>1. ASSUME NEW v \in DOMAIN voices
        PROVE  RunsFit(v)' /\ PendingFits(v)'
    <3>1. v # 0
      BY <1>6
    <3>2. QED
      BY <1>0, <1>4, <1>8, <1>13, <1>14, <3>1, ZenonT(30) DEF VoicesFit, RunsFit, PendingFits
  <2>2. RunsOf(m) = {}
    <3>1. ASSUME NEW i \in DOMAIN ran, sent[ran[i].u].kind = "confirm"
          PROVE  cards[sent[ran[i].u].re].voice # m
      <4>1. ran[i].u \in DOMAIN sent /\ sent[ran[i].u].re \in 0 .. Len(cards)
        BY <1>0, RunFields
      <4>2. sent[ran[i].u].re \in DOMAIN cards
        BY <1>0, <3>1, <4>1, Lengths DEF SentFits
      <4>3. cards[sent[ran[i].u].re].voice \in 0 .. Len(voices)
        BY <1>0, <4>2, CardFields
      <4>4. QED
        BY <1>6, <4>3
    <3>2. QED
      BY <3>1, Zenon DEF RunsOf
  <2>3. RunsFit(m)' /\ PendingFits(m)'
    <3>1. RunsOf(m)' = {}
      BY <1>13, <2>2
    <3>2. voices'[m].life = life' /\ job'.answer.voice = m
      BY <1>4, <1>5, <1>7, <1>8, <1>9
    <3>3. QED
      BY <3>1, <3>2, Zenon DEF RunsFit, PendingFits
  <2>4. \A v \in DOMAIN voices' : RunsFit(v)' /\ PendingFits(v)'
    <3>1. ASSUME NEW v \in DOMAIN voices'
          PROVE  RunsFit(v)' /\ PendingFits(v)'
      <4>1. v \in DOMAIN voices \/ v = m
        BY <1>6, <1>8
      <4>2. QED
        BY <2>1, <2>3, <4>1, Zenon
    <3>2. QED
      BY <3>1
  <2>5. job'.answer.voice # 0 =>
          job'.pc \in {"send", "register"} /\ voices'[job'.answer.voice].status = "pending"
    BY <1>5, <1>7, <1>8, <1>9
  <2>6. QED
    BY <1>14, <2>4, <2>5, Zenon DEF VoicesFit
<1>17. VerdictsFit'
  BY <1>0, <1>4, <1>8, <1>10, <1>12, <1>13, <1>14, VerdictsKept, Zenon
<1>18. CardsFit'
  <2>1. \A c \in DOMAIN cards : CardFits(c)'
    BY <1>0, <1>4, <1>8, <1>10, CardKept, Zenon DEF CardsFit
  <2>2. job'.answer.voice # 0 => job'.answer.about = voices'[job'.answer.voice].thread
    BY <1>5, <1>7, <1>8, <1>9
  <2>3. QED
    BY <1>4, <1>14, <2>1, <2>2, Zenon DEF CardsFit
<1>19. TextsFit' /\ TextsRunWhereMeant' /\ ListsFit'
  <2>1. job'.answer.list = FALSE
    BY <1>5, <1>9
  <2>2. QED
    BY <1>0, <1>4, <1>10, <1>12, <1>14, <2>1, TextsKept, RanKept, ListsKept, Zenon
<1>20. QED
  BY <1>12, <1>15, <1>16, <1>17, <1>18, <1>19, Zenon DEF IInv

\* A voice message is refused, or the owner is asked about it.
LEMMA HandleVoiceKeeps ==
  ASSUME IInv, HandleVoice
  PROVE  IInv'
<1>0. /\ TypeOK /\ JobFits /\ job.pc = "handle" /\ job.pc # "idle" /\ where' = where
      /\ bound' = bound
  BY Zenon DEF IInv, HandleVoice, Handles
<1>1. PICK t : t = IF Current.re = 0 THEN 0 ELSE ResolveMessageRoute(Current.re)
  OBVIOUS
<1>2. PICK project : project = IF Current.re = 0 THEN selected
                               ELSE IF t = 0 THEN None ELSE where[t]
  OBVIOUS
<1>3. Current.re \in 0 .. Len(cards)
  BY <1>0, CurrentFields
<1>4. t \in 0 .. Len(where)
  <2>1. CASE Current.re = 0
    BY <1>0, <1>1, <2>1, Lengths
  <2>2. CASE Current.re # 0
    <3>1. Current.re \in DOMAIN cards
      BY <1>0, <1>3, <2>2, Lengths
    <3>2. QED
      BY <1>0, <1>1, <2>2, <3>1, CardFields DEF ResolveMessageRoute
  <2>3. QED
    BY <2>1, <2>2
<1>5. project \in Projects \cup {None}
  <2>1. selected \in Projects \cup {None} /\ where \in Seq(Projects \cup {None})
    BY <1>0, Types DEF Scalars
  <2>2. t # 0 => where[t] \in Projects \cup {None}
    BY <1>0, <1>4, <2>1, Lengths
  <2>3. QED
    BY <1>2, <2>1, <2>2
<1>6. CASE /\ IF Current.re = 0 THEN minimalProjectPicker ELSE Ends /\ routes' = routes
           /\ UNCHANGED <<voices, faults>>
  <2>1. Rests
    BY <1>0, <1>6, HandlerRests, Zenon DEF HandleVoice, telegram
  <2>2. bound' \in [thread : 0 .. Len(where'), cwd : Projects \cup {None}] /\ WhereGrows
    BY <1>0, BoundFields, WhereStays, Zenon
  <2>3. TypeOK' /\ Grows /\ SimpleStep
    <3>1. CASE Current.re = 0
      BY <1>0, <1>6, <2>1, <2>2, <3>1, PickerEffect
    <3>2. CASE Current.re # 0
      BY <1>0, <1>6, <2>1, <2>2, <3>2, SimpleEnds, RoutesStay
    <3>3. QED
      BY <3>1, <3>2
  <2>4. QED
    BY <2>3, SimpleKeeps
<1>7. CASE project # None /\ CreateVoiceConfirmation(project, t) /\ faults' = faults
           /\ routes' = routes
  <2>1. project \in Projects
    BY <1>5, <1>7
  <2>2. UNCHANGED <<telegram, where, bot, selected, bound, routes, faults, ran>>
    BY <1>7, Zenon DEF HandleVoice
  <2>3. QED
    BY <1>0, <1>4, <1>7, <2>1, <2>2, CreateKeeps
<1>8. CASE Ends /\ Fault /\ voices' = voices /\ routes' = routes
  <2>1. Rests
    BY <1>0, <1>8, HandlerRests, Zenon DEF HandleVoice, telegram
  <2>2. /\ bound' \in [thread : 0 .. Len(where'), cwd : Projects \cup {None}]
        /\ WhereGrows /\ RoutesGrow
    BY <1>0, <1>8, BoundFields, WhereStays, RoutesStay, Zenon
  <2>3. TypeOK' /\ Grows /\ SimpleStep
    BY <1>0, <1>8, <2>1, <2>2, SimpleEnds
  <2>4. QED
    BY <2>3, SimpleKeeps
<1>9. QED
  BY <1>1, <1>2, <1>6, <1>7, <1>8, Zenon DEF HandleVoice

\* What becomes of the job when the buttons of a voice command, x, are pressed.
GoesOnWith(x) ==
  /\ job'.pc = (IF x.thread = 0 THEN "new" ELSE "thread")
  /\ job'.thread = x.thread /\ job'.project = x.project /\ job'.answer = NoAnswer

SaysOf(verdict) ==
  /\ job'.pc = "edit"
  /\ job'.answer.edit = Current.re /\ job'.answer.verdict = verdict
  /\ job'.answer.voice = 0 /\ job'.answer.about = 0 /\ job'.answer.list = FALSE

\* A voice command that is settled, v: it is run, cancelled, or too old.
LEMMA SettledKeeps ==
  ASSUME IInv, TypeOK', Grows, job.pc = "handle", Current.kind = "confirm",
         NEW v, v = VoiceOf,
         UNCHANGED <<sent, cards, routes, selected, offset, batch, life, ran>>,
         DOMAIN voices' = DOMAIN voices,
         \A w \in DOMAIN voices :
           /\ voices'[w].life = voices[w].life /\ voices'[w].card = voices[w].card
           /\ voices'[w].status = "pending" => voices[w].status = "pending"
           /\ voices[w].status # "pending" => voices'[w].status = voices[w].status,
         \/ job' = Idle
         \/ /\ job'.u = job.u
            /\ \/ /\ GoesOnWith(voices[v])
                  /\ voices[v].status = "pending" /\ voices'[v].status = "executed"
               \/ SaysOf("expired")
               \/ SaysOf("cancelled") /\ voices'[v].status = "cancelled"
  PROVE  IInv'
<1>0. /\ TypeOK /\ SentFits /\ JobFits /\ InOrder /\ UpdateRunsOnce /\ VoicesFit /\ VerdictsFit
      /\ CardsFit /\ TextsFit /\ TextsRunWhereMeant /\ ListsFit
  BY Zenon DEF IInv
<1>1. /\ sent' = sent /\ cards' = cards /\ routes' = routes /\ selected' = selected
      /\ offset' = offset /\ batch' = batch /\ life' = life /\ ran' = ran /\ job.pc # "idle"
  OBVIOUS
<1>2. /\ Current.re # 0 /\ Current.re \in DOMAIN cards /\ v # 0 /\ v \in DOMAIN voices
      /\ job.u # 0 /\ job.answer.voice = 0 /\ job.answer = NoAnswer
  BY <1>0, <1>1, ConfirmFields, IdleFields DEF JobFits
<1>3. \A w : RunsOf(w)' = RunsOf(w)
  BY <1>0, <1>1, RunsSame
<1> DEFINE Going == /\ GoesOnWith(voices[v])
                    /\ voices[v].status = "pending" /\ voices'[v].status = "executed"
           Said == SaysOf("expired") \/ (SaysOf("cancelled") /\ voices'[v].status = "cancelled")
<1>4. /\ job' = Idle \/ (job'.u = job.u /\ (Going \/ Said))
      /\ job'.u = job.u => Current' = Current /\ VoiceOf' = v
  BY <1>0, <1>1, <1>2, CurrentStays
<1>5. /\ Going => job'.pc \in {"new", "thread"} /\ job'.answer = NoAnswer
      /\ Said => job'.pc = "edit" /\ job'.answer.verdict \in {"expired", "cancelled"}
  BY DEF GoesOnWith, SaysOf
<1>6. /\ job'.answer.voice = 0 /\ job'.answer.list = FALSE
      /\ job'.pc \in {"idle", "new", "thread", "edit"}
      /\ job'.pc # "idle" => job'.u = job.u
      /\ job'.pc \in {"new", "thread"} => Going
      /\ job'.pc = "edit" => Said
      /\ job'.pc = "idle" => job' = Idle
  <2>1. CASE job' = Idle
    BY <2>1, IdleFields
  <2>2. CASE job'.u = job.u /\ Going
    BY <1>5, <2>2, IdleFields
  <2>3. CASE job'.u = job.u /\ Said
    BY <2>3 DEF SaysOf
  <2>4. QED
    BY <1>4, <2>1, <2>2, <2>3
<1>7. SentFits' /\ InOrder' /\ UpdateRunsOnce'
  <2>1. job'.pc \in {"handle"} \cup Before => job.pc \in {"handle"} \cup Before
    OBVIOUS
  <2>2. SentFits'
    BY <1>0, <1>1, SentKept
  <2>3. job' = Idle \/ job'.u = job.u
    BY <1>4
  <2>4. QED
    BY <1>0, <1>1, <2>1, <2>2, <2>3, InOrderKept, Zenon
<1>8. Going => /\ voices[v].project \in Projects /\ voices[v].project # None
               /\ job'.project = voices[v].project
               /\ cards[Current.re].about = IF job'.pc = "thread" THEN job'.thread ELSE 0
               /\ job'.pc = "thread" => job'.thread # 0
               /\ job'.u = job.u /\ job'.pc # "idle"
  <2> SUFFICES ASSUME Going
               PROVE  /\ voices[v].project \in Projects /\ voices[v].project # None
                      /\ job'.project = voices[v].project
                      /\ cards[Current.re].about = IF job'.pc = "thread" THEN job'.thread ELSE 0
                      /\ job'.pc = "thread" => job'.thread # 0
                      /\ job'.u = job.u /\ job'.pc # "idle"
    OBVIOUS
  <2>1. voices[v].project \in Projects /\ voices[v].project # None
    BY <1>0, <1>2, VoiceFields, InputAssumption
  <2>2. cards[Current.re].about = voices[v].thread
    <3>1. CardFits(Current.re) /\ cards[Current.re].voice = v
      BY <1>0, <1>2, Zenon DEF CardsFit, VoiceOf
    <3>2. QED
      BY <1>2, <3>1 DEF CardFits
  <2>3. job'.pc # "idle"
    BY <1>5
  <2>4. QED
    BY <1>6, <2>1, <2>2, <2>3 DEF GoesOnWith
<1>9. JobFits'
  <2>1. CASE job' = Idle
    <3>1. job'.pc = "idle" /\ job'.answer = NoAnswer
      BY <2>1, IdleFields
    <3>2. QED
      BY <2>1, <3>1 DEF JobFits, Before
  <2>2. CASE Going
    <3>1. /\ job'.pc \in {"new", "thread"} /\ job'.u # 0 /\ job'.answer = NoAnswer
          /\ Current'.kind = "confirm" /\ job'.project # None
          /\ job'.pc = "thread" => job'.thread # 0
      BY <1>2, <1>4, <1>5, <1>8, <2>2
    <3>2. QED
      BY <3>1 DEF JobFits
  <2>3. CASE Said /\ job'.u = job.u
    <3>1. /\ job'.pc = "edit" /\ job'.u # 0 /\ Current' = Current
          /\ job'.answer.edit = Current.re
      BY <1>2, <1>4, <2>3 DEF SaysOf
    <3>2. QED
      BY <3>1 DEF JobFits, Before
  <2>4. QED
    BY <1>4, <2>1, <2>2, <2>3
<1> HIDE DEF Going, Said
<1>10. VoicesFit'
  <2>1. ASSUME NEW w \in DOMAIN voices
        PROVE  RunsFit(w)' /\ PendingFits(w)'
    <3>1. w # 0
      BY <1>0, Lengths
    <3>2. RunsFit(w)'
      <4>1. voices'[w].status # "executed" => voices[w].status # "executed"
        BY <2>1
      <4>2. QED
        BY <1>0, <1>3, <4>1, Zenon DEF VoicesFit, RunsFit
    <3>3. voices'[w].status = "pending" =>
            /\ voices'[w].life = life' /\ voices'[w].card # 0 /\ cards'[voices'[w].card].voice = w
      BY <1>0, <1>1, <1>2, <3>1, Zenon DEF VoicesFit, PendingFits
    <3>4. QED
      BY <3>2, <3>3, Zenon DEF PendingFits
  <2>2. (job'.pc \in Before /\ Current'.kind = "confirm") =>
          voices'[VoiceOf'].status = "executed" /\ RunsOf(VoiceOf)' = {}
    <3> SUFFICES ASSUME job'.pc \in Before
                 PROVE  voices'[VoiceOf'].status = "executed" /\ RunsOf(VoiceOf)' = {}
      OBVIOUS
    <3>1. Going
      BY <1>6 DEF Before
    <3>2. voices[v].status = "pending" /\ voices'[v].status = "executed" /\ VoiceOf' = v
      BY <1>4, <1>8, <3>1 DEF Going
    <3>3. RunsOf(v) = {}
      BY <1>0, <1>2, <3>2 DEF VoicesFit, RunsFit
    <3>4. RunsOf(v)' = {}
      BY <1>3, <3>3
    <3>5. QED
      BY <3>2, <3>4, Zenon
  <2>3. QED
    BY <1>6, <2>1, <2>2, Zenon DEF VoicesFit
<1>11. VerdictsFit'
  <2>1. \A w \in DOMAIN voices : voices[w].status = "cancelled" => voices'[w].status = "cancelled"
    OBVIOUS
  <2>2. ASSUME NEW c \in DOMAIN cards
        PROVE  VerdictFits(cards[c].verdict, cards[c].voice)'
    <3>1. PICK x : x = cards[c].verdict
      OBVIOUS
    <3>2. PICK w : w = cards[c].voice
      OBVIOUS
    <3>3. VerdictFits(x, w) /\ w \in 0 .. Len(voices)
      BY <1>0, <3>1, <3>2, CardFields, Zenon DEF VerdictsFit
    <3>4. VerdictFits(x, w)'
      BY <1>0, <1>3, <2>1, <3>3, VerdictKept, Zenon
    <3>5. QED
      BY <1>1, <3>1, <3>2, <3>4, Zenon
  <2>3. ASSUME job'.pc = "edit"
        PROVE  VerdictFits(job.answer.verdict, VoiceOf)'
    <3>1. Said /\ VoiceOf' = v
      BY <1>4, <1>6, <2>3
    <3>2. /\ job'.answer.verdict \in {"expired", "cancelled"}
          /\ job'.answer.verdict = "cancelled" => voices'[v].status = "cancelled"
      BY <3>1 DEF Said, SaysOf
    <3>3. QED
      BY <1>2, <3>1, <3>2 DEF VerdictFits
  <2>4. QED
    BY <1>1, <2>2, <2>3, Zenon DEF VerdictsFit
<1>12. CardsFit'
  <2>1. \A c \in DOMAIN cards : CardFits(c)'
    BY <1>0, <1>1, CardKept, Zenon DEF CardsFit
  <2>2. (job'.pc \in Before /\ Current'.kind = "confirm") =>
          cards'[Current'.re].about = IF job'.pc = "thread" THEN job'.thread ELSE 0
    <3>1. job'.pc \in Before => Going
      BY <1>6 DEF Before
    <3>2. QED
      BY <1>1, <1>4, <1>8, <3>1
  <2>3. job'.pc = "edit" => job'.answer.about = 0
    BY <1>6 DEF Said, SaysOf
  <2>4. QED
    BY <1>1, <1>6, <2>1, <2>2, <2>3, Zenon DEF CardsFit
<1>13. TextsFit'
  <2>1. job'.pc \in Before => Current'.kind = "confirm"
    BY <1>4, <1>6, <1>8 DEF Before
  <2>2. QED
    BY <2>1 DEF TextsFit
<1>14. TextsRunWhereMeant' /\ ListsFit'
  BY <1>0, <1>1, <1>6, RanKept, ListsKept, Zenon
<1>15. QED
  BY <1>7, <1>9, <1>10, <1>11, <1>12, <1>13, <1>14, Zenon DEF IInv

\* What a status makes of a voice command.
LEMMA SettleFields ==
  ASSUME TypeOK, NEW v \in DOMAIN voices, NEW s \in {"executed", "cancelled", "expired"},
         SettleVoice(v, s)
  PROVE  /\ voices' \in Seq(VoiceSet(Len(where), Len(cards))) /\ Len(voices') = Len(voices)
         /\ DOMAIN voices' = DOMAIN voices /\ voices'[v].status = s
         /\ \A w \in DOMAIN voices :
              /\ voices'[w].thread = voices[w].thread /\ voices'[w].life = voices[w].life
              /\ voices'[w].card = voices[w].card
              /\ w # v => voices'[w].status = voices[w].status
<1> DEFINE y == [voices[v] EXCEPT !.status = s]
<1>1. /\ voices \in Seq(VoiceSet(Len(where), Len(cards))) /\ Len(voices) \in Nat
      /\ DOMAIN voices = 1 .. Len(voices)
  BY Types, Lengths DEF Typed
<1>2. voices[v] \in VoiceSet(Len(where), Len(cards))
  BY <1>1
<1>3. /\ y \in VoiceSet(Len(where), Len(cards)) /\ y.thread = voices[v].thread
      /\ y.status = s /\ y.life = voices[v].life /\ y.card = voices[v].card
  BY <1>2, Zenon DEF VoiceSet
<1>4. voices' = [voices EXCEPT ![v] = y]
  BY Zenon DEF SettleVoice
<1> HIDE DEF y
<1>5. /\ voices' \in Seq(VoiceSet(Len(where), Len(cards))) /\ Len(voices') = Len(voices)
      /\ DOMAIN voices' = DOMAIN voices /\ voices'[v] = y
      /\ \A w \in DOMAIN voices : w # v => voices'[w] = voices[w]
  BY <1>1, <1>3, <1>4
<1>6. ASSUME NEW w \in DOMAIN voices
      PROVE  /\ voices'[w].thread = voices[w].thread /\ voices'[w].life = voices[w].life
             /\ voices'[w].card = voices[w].card
             /\ w # v => voices'[w].status = voices[w].status
  <2>1. CASE w = v
    BY <1>3, <1>5, <2>1
  <2>2. CASE w # v
    BY <1>5, <2>2
  <2>3. QED
    BY <2>1, <2>2
<1>7. QED
  BY <1>3, <1>5, <1>6, Zenon

\* Execute or Cancel is pressed.
LEMMA VoiceCallbackKeeps ==
  ASSUME IInv, handleMinimalVoiceCallback
  PROVE  IInv'
<1>0. /\ TypeOK /\ SentFits /\ JobFits /\ job.pc = "handle" /\ job.pc # "idle"
      /\ Current.kind = "confirm"
      /\ sent' = sent /\ confirmed' = confirmed /\ cards' = cards /\ where' = where
      /\ offset' = offset /\ batch' = batch /\ life' = life /\ selected' = selected
      /\ bound' = bound /\ routes' = routes /\ faults' = faults /\ ran' = ran
  BY Zenon DEF IInv, handleMinimalVoiceCallback, Handles, telegram, bot
<1>1. PICK v : v = VoiceOf
  OBVIOUS
<1>2. PICK x : x = voices[v]
  OBVIOUS
<1>3. v \in DOMAIN voices /\ Current.re \in 0 .. Len(cards) /\ Current.re # 0
  BY <1>0, <1>1, ConfirmFields
<1> DEFINE Runs == /\ SettleVoice(v, "executed") /\ x.status = "pending"
                   /\ Goes([job EXCEPT !.pc = IF x.thread = 0 THEN "new" ELSE "thread",
                                       !.thread = x.thread, !.project = x.project])
           Cancels == SettleVoice(v, "cancelled") /\ x.status = "pending" /\ Says("cancelled")
           Rejects == /\ \/ SettleVoice(v, "expired") /\ x.status = "pending"
                         \/ voices' = voices
                      /\ Says("expired") \/ Ends
<1>4. Runs \/ Cancels \/ Rejects
  <2> DEFINE mine == x.status = "pending" /\ x.life = life /\ x.card = Current.re
  <2>1. CASE /\ mine
             /\ ConsumeVoiceConfirmation(v)
             /\ IF Current.go
                THEN Goes([job EXCEPT !.pc = IF x.thread = 0 THEN "new" ELSE "thread",
                                      !.thread = x.thread, !.project = x.project])
                ELSE Says("cancelled")
    <3>1. CASE Current.go
      BY <2>1, <3>1, Zenon DEF ConsumeVoiceConfirmation
    <3>2. CASE ~Current.go
      BY <2>1, <3>2, Zenon DEF ConsumeVoiceConfirmation
    <3>3. QED
      BY <3>1, <3>2
  <2>2. CASE /\ IF mine THEN SettleVoice(v, "expired") ELSE UNCHANGED voices
             /\ IF x.card = Current.re THEN Says("expired") ELSE Ends
    BY <2>2, Zenon
  <2>3. QED
    BY <1>1, <1>2, <2>1, <2>2, Zenon DEF handleMinimalVoiceCallback
<1>5. /\ voices' \in Seq(VoiceSet(Len(where), Len(cards))) /\ Len(voices') = Len(voices)
      /\ DOMAIN voices' = DOMAIN voices
      /\ \A w \in DOMAIN voices :
           /\ voices'[w].thread = voices[w].thread /\ voices'[w].life = voices[w].life
           /\ voices'[w].card = voices[w].card
           /\ voices'[w].status = "pending" => voices[w].status = "pending"
           /\ voices[w].status # "pending" => voices'[w].status = voices[w].status
      /\ Runs => voices'[v].status = "executed"
      /\ Cancels => voices'[v].status = "cancelled"
  <2>1. CASE voices' = voices /\ ~Runs /\ ~Cancels
    <3>1. voices \in Seq(VoiceSet(Len(where), Len(cards)))
      BY <1>0, Types DEF Typed
    <3>2. QED
      BY <2>1, <3>1, Zenon
  <2>2. ASSUME NEW s \in {"executed", "cancelled", "expired"}, SettleVoice(v, s),
               voices[v].status = "pending"
        PROVE  /\ voices' \in Seq(VoiceSet(Len(where), Len(cards))) /\ Len(voices') = Len(voices)
               /\ DOMAIN voices' = DOMAIN voices /\ voices'[v].status = s
               /\ \A w \in DOMAIN voices :
                    /\ voices'[w].thread = voices[w].thread /\ voices'[w].life = voices[w].life
                    /\ voices'[w].card = voices[w].card
                    /\ voices'[w].status = "pending" => voices[w].status = "pending"
                    /\ voices[w].status # "pending" => voices'[w].status = voices[w].status
    <3>1. /\ voices' \in Seq(VoiceSet(Len(where), Len(cards))) /\ Len(voices') = Len(voices)
          /\ DOMAIN voices' = DOMAIN voices /\ voices'[v].status = s
          /\ \A w \in DOMAIN voices :
               /\ voices'[w].thread = voices[w].thread /\ voices'[w].life = voices[w].life
               /\ voices'[w].card = voices[w].card
               /\ w # v => voices'[w].status = voices[w].status
      BY <1>0, <1>3, <2>2, SettleFields
    <3>2. QED
      BY <2>2, <3>1
  <2>3. CASE Runs
    <3>1. voices'[v].status = "executed" /\ ~Cancels
      <4>1. voices'[v].status = "executed"
        BY <1>2, <2>2, <2>3
      <4>2. Cancels => voices'[v].status = "cancelled"
        BY <1>2, <2>2
      <4>3. QED
        BY <4>1, <4>2
    <3>2. QED
      BY <1>2, <2>2, <2>3, <3>1
  <2>4. CASE Cancels
    <3>1. voices'[v].status = "cancelled" /\ ~Runs
      <4>1. voices'[v].status = "cancelled"
        BY <1>2, <2>2, <2>4
      <4>2. Runs => voices'[v].status = "executed"
        BY <1>2, <2>2
      <4>3. QED
        BY <4>1, <4>2
    <3>2. QED
      BY <1>2, <2>2, <2>4, <3>1
  <2>5. CASE Rejects /\ ~Runs /\ ~Cancels
    <3>1. CASE SettleVoice(v, "expired") /\ x.status = "pending"
      BY <1>2, <2>2, <2>5, <3>1
    <3>2. CASE voices' = voices
      BY <2>1, <2>5, <3>2
    <3>3. QED
      BY <2>5, <3>1, <3>2
  <2>6. QED
    BY <1>4, <2>3, <2>4, <2>5
<1>6. /\ job \in JobSet(Len(sent), Len(cards), Len(routes), Len(voices), Len(where))
      /\ x.thread \in 0 .. Len(where) /\ x.project \in Projects
      /\ done \subseteq 1 .. Len(sent) /\ job.answer = NoAnswer
      /\ NoAnswer \in AnswerSet(Len(cards), Len(routes), Len(voices), Len(where))
  BY <1>0, <1>2, <1>3, VoiceFields, Types, IdleTyped, Lengths DEF Typed, JobFits
<1>7. ASSUME NEW verdict \in Verdicts, Says(verdict)
      PROVE  /\ SaysOf(verdict) /\ job'.u = job.u /\ done' = done
             /\ job' \in JobSet(Len(sent), Len(cards), Len(routes), Len(voices), Len(where))
  <2>1. PICK a : a = [NoAnswer EXCEPT !.edit = Current.re, !.verdict = verdict]
    OBVIOUS
  <2>2. /\ a \in AnswerSet(Len(cards), Len(routes), Len(voices), Len(where))
        /\ a.edit = Current.re /\ a.verdict = verdict
    BY <1>3, <1>6, <2>1, Zenon DEF AnswerSet
  <2>3. a.voice = 0 /\ a.about = 0 /\ a.list = FALSE
    BY <2>1 DEF NoAnswer
  <2>4. Answers(a) /\ a.edit \in Nat
    BY <1>0, <1>3, <1>7, <2>1, <2>2, Lengths DEF Says
  <2>5. /\ job'.pc = (IF a.edit = 0 THEN "send" ELSE "edit") /\ job'.u = job.u
        /\ job'.answer = a /\ done' = done
    BY <1>0, <2>4, AnswersEffect
  <2>6. job' \in JobSet(Len(sent), Len(cards), Len(routes), Len(voices), Len(where))
    <3>1. job' = [job EXCEPT !.pc = IF a.edit # 0 THEN "edit" ELSE "send", !.answer = a]
      BY <2>4, Zenon DEF Answers, Goes
    <3>2. QED
      BY <1>6, <2>2, <3>1, Zenon DEF JobSet, PCs
  <2>7. QED
    BY <1>3, <2>2, <2>3, <2>5, <2>6 DEF SaysOf
<1>8. /\ done' \subseteq 1 .. Len(sent)
      /\ job' \in JobSet(Len(sent), Len(cards), Len(routes), Len(voices), Len(where))
      /\ \/ job' = Idle
         \/ /\ job'.u = job.u
            /\ \/ /\ GoesOnWith(voices[v])
                  /\ voices[v].status = "pending" /\ voices'[v].status = "executed"
               \/ SaysOf("expired")
               \/ SaysOf("cancelled") /\ voices'[v].status = "cancelled"
  <2>1. CASE Runs
    <3>1. PICK p : p = IF x.thread = 0 THEN "new" ELSE "thread"
      OBVIOUS
    <3>2. job' = [job EXCEPT !.pc = p, !.thread = x.thread, !.project = x.project] /\ done' = done
      BY <2>1, <3>1, Zenon DEF Goes
    <3>3. p \in PCs /\ x.project \in Projects \cup {None}
      BY <1>6, <3>1 DEF PCs
    <3>4. /\ job' \in JobSet(Len(sent), Len(cards), Len(routes), Len(voices), Len(where))
          /\ job'.pc = p /\ job'.thread = x.thread /\ job'.project = x.project /\ job'.u = job.u
          /\ job'.answer = job.answer
      BY <1>6, <3>2, <3>3, Zenon DEF JobSet
    <3>5. GoesOnWith(voices[v])
      BY <1>2, <1>6, <3>1, <3>4, Zenon DEF GoesOnWith
    <3>6. QED
      BY <1>2, <1>5, <1>6, <2>1, <3>2, <3>4, <3>5
  <2>2. CASE Cancels
    BY <1>5, <1>6, <1>7, <2>2 DEF Verdicts
  <2>3. CASE Says("expired")
    BY <1>6, <1>7, <2>3 DEF Verdicts
  <2>4. CASE Ends
    BY <1>0, <2>4, EndsTyped, Lengths DEF Ends
  <2>5. QED
    BY <1>4, <2>1, <2>2, <2>3, <2>4
<1> HIDE DEF Runs, Cancels, Rejects
<1>9. TypeOK' /\ Grows
  <2>1. Len(voices) \in Nat /\ Len(cards) \in Nat
    BY <1>0, Lengths
  <2>2. Grows
    BY <1>0, <1>5, Lengths DEF Grows
  <2>3. Typed(Len(sent'), Len(cards'), Len(routes'), Len(voices'), Len(where'), life')
    BY <1>0, <2>2, StillTyped
  <2>4. Typed(Len(sent), Len(cards), Len(routes), Len(voices), Len(where), life)'
    <3>1. /\ job' \in JobSet(Len(sent'), Len(cards'), Len(routes'), Len(voices'), Len(where'))
          /\ voices' \in Seq(VoiceSet(Len(where'), Len(cards'))) /\ done' \subseteq 1 .. Len(sent')
      BY <1>0, <1>5, <1>8, Zenon
    <3>2. QED
      BY <1>0, <2>3, <3>1, Zenon DEF Typed
  <2>5. Scalars'
    BY <1>0, Types, Zenon DEF Scalars
  <2>6. QED
    BY <2>2, <2>4, <2>5, Types
<1>10. UNCHANGED <<sent, cards, routes, selected, offset, batch, life, ran>>
  BY <1>0
<1>11. QED
  BY <1>0, <1>1, <1>5, <1>8, <1>9, <1>10, SettledKeeps

-----------------------------------------------------------------------------
(***************************************************************************)
(* Codex is given a command.                                               *)
(***************************************************************************)

\* What the owner is told of a command that Codex was given for conversation t.
Told(t) ==
  \/ job' = Idle
  \/ /\ job'.u = job.u /\ job'.answer.voice = 0 /\ job'.answer.list = FALSE
     /\ \/ job'.pc = "send"
        \/ /\ job'.pc = "edit" /\ Current.kind = "confirm" /\ job'.answer.edit = Current.re
           /\ \/ job'.answer.verdict = "started" /\ job'.answer.about = t
              \/ job'.answer.verdict = "unsure" /\ job'.answer.about = 0

\* These are the answers to a command.
LEMMA ToldFields ==
  ASSUME TypeOK, JobFits, job.pc \in Before, NEW t \in 0 .. Len(where), Starts(t) \/ Fails
  PROVE  /\ Told(t) /\ done' \subseteq 1 .. Len(sent)
         /\ job' \in JobSet(Len(sent), Len(cards), Len(routes), Len(voices), Len(where))
<1>1. /\ job.pc # "idle" /\ Current.kind \in {"text", "confirm"}
  BY DEF JobFits, Before
<1>2. /\ job \in JobSet(Len(sent), Len(cards), Len(routes), Len(voices), Len(where))
      /\ done \subseteq 1 .. Len(sent) /\ Current.re \in 0 .. Len(cards)
      /\ NoAnswer \in AnswerSet(Len(cards), Len(routes), Len(voices), Len(where))
      /\ Len(cards) \in Nat /\ Len(where) \in Nat
  BY <1>1, CurrentFields, Types, IdleTyped, Lengths DEF Typed
<1>3. ASSUME NEW c \in 0 .. Len(cards), NEW d \in Verdicts, NEW b \in 0 .. Len(where),
             Answers([NoAnswer EXCEPT !.edit = c, !.verdict = d, !.about = b])
      PROVE  /\ job'.pc = (IF c = 0 THEN "send" ELSE "edit") /\ job'.u = job.u /\ done' = done
             /\ job'.answer.edit = c /\ job'.answer.verdict = d /\ job'.answer.about = b
             /\ job'.answer.voice = 0 /\ job'.answer.list = FALSE
             /\ job' \in JobSet(Len(sent), Len(cards), Len(routes), Len(voices), Len(where))
  <2>1. PICK a : a = [NoAnswer EXCEPT !.edit = c, !.verdict = d, !.about = b]
    OBVIOUS
  <2>2. /\ a \in AnswerSet(Len(cards), Len(routes), Len(voices), Len(where))
        /\ a.edit = c /\ a.verdict = d /\ a.about = b
    BY <1>2, <2>1, Zenon DEF AnswerSet
  <2>3. a.voice = 0 /\ a.list = FALSE
    BY <2>1 DEF NoAnswer
  <2>4. Answers(a) /\ a.edit \in Nat
    BY <1>2, <1>3, <2>1, <2>2
  <2>5. /\ job'.pc = (IF a.edit = 0 THEN "send" ELSE "edit") /\ job'.u = job.u
        /\ job'.answer = a /\ done' = done
    BY <2>4, AnswersEffect
  <2>6. job' \in JobSet(Len(sent), Len(cards), Len(routes), Len(voices), Len(where))
    <3>1. job' = [job EXCEPT !.pc = IF a.edit # 0 THEN "edit" ELSE "send", !.answer = a]
      BY <2>4, Zenon DEF Answers, Goes
    <3>2. QED
      BY <1>2, <2>2, <3>1, Zenon DEF JobSet, PCs
  <2>7. QED
    BY <2>2, <2>3, <2>5, <2>6
<1>4. /\ 0 \in 0 .. Len(cards) /\ 0 \in 0 .. Len(where)
      /\ "none" \in Verdicts /\ "started" \in Verdicts /\ "unsure" \in Verdicts
  BY <1>2 DEF Verdicts
<1>5. ASSUME NEW c, NEW d
      PROVE  /\ [NoAnswer EXCEPT !.about = c]
                   = [NoAnswer EXCEPT !.edit = 0, !.verdict = "none", !.about = c]
             /\ [NoAnswer EXCEPT !.edit = c, !.verdict = d]
                   = [NoAnswer EXCEPT !.edit = c, !.verdict = d, !.about = 0]
  <2>1. PICK w : w = [NoAnswer EXCEPT !.about = c]
    OBVIOUS
  <2>2. w = [edit |-> 0, buttons |-> {}, voice |-> 0, verdict |-> "none", about |-> c,
             list |-> FALSE]
    BY <2>1 DEF NoAnswer
  <2>3. PICK x : x = [NoAnswer EXCEPT !.edit = 0, !.verdict = "none", !.about = c]
    OBVIOUS
  <2>4. x = [edit |-> 0, buttons |-> {}, voice |-> 0, verdict |-> "none", about |-> c,
             list |-> FALSE]
    BY <2>3 DEF NoAnswer
  <2>5. PICK y : y = [NoAnswer EXCEPT !.edit = c, !.verdict = d]
    OBVIOUS
  <2>6. y = [edit |-> c, buttons |-> {}, voice |-> 0, verdict |-> d, about |-> 0, list |-> FALSE]
    BY <2>5 DEF NoAnswer
  <2>7. PICK z : z = [NoAnswer EXCEPT !.edit = c, !.verdict = d, !.about = 0]
    OBVIOUS
  <2>8. z = [edit |-> c, buttons |-> {}, voice |-> 0, verdict |-> d, about |-> 0, list |-> FALSE]
    BY <2>7 DEF NoAnswer
  <2>9. w = x /\ y = z
    BY <2>2, <2>4, <2>6, <2>8, Zenon
  <2>10. QED
    BY <2>1, <2>3, <2>5, <2>7, <2>9, Zenon
<1>6. CASE Starts(t) /\ Current.kind = "text"
  <2>1. Answers([NoAnswer EXCEPT !.about = t])
    BY <1>6, Zenon DEF Starts, Tells
  <2>2. Answers([NoAnswer EXCEPT !.edit = 0, !.verdict = "none", !.about = t])
    BY <1>5, <2>1, Zenon
  <2>3. QED
    BY <1>2, <1>3, <1>4, <2>2 DEF Told
<1>7. CASE Starts(t) /\ Current.kind = "confirm"
  <2>1. Answers([NoAnswer EXCEPT !.edit = Current.re, !.verdict = "started", !.about = t])
    BY <1>7 DEF Starts, Tells
  <2>2. QED
    BY <1>2, <1>3, <1>4, <1>7, <2>1 DEF Told
<1>8. CASE Fails /\ Current.kind = "text"
  <2>1. Ends
    BY <1>8 DEF Fails
  <2>2. QED
    BY <1>1, <2>1, EndsTyped, Lengths DEF Told, Ends
<1>9. CASE Fails /\ Current.kind = "confirm"
  <2>1. Answers([NoAnswer EXCEPT !.edit = Current.re, !.verdict = "unsure"])
    BY <1>9 DEF Fails
  <2>2. Answers([NoAnswer EXCEPT !.edit = Current.re, !.verdict = "unsure", !.about = 0])
    BY <1>5, <2>1, Zenon
  <2>3. QED
    BY <1>2, <1>3, <1>4, <1>9, <2>2 DEF Told
<1>10. QED
  BY <1>1, <1>6, <1>7, <1>8, <1>9

\* Codex is given the command in hand, to be run in conversation t and working folder cwd.
LEMMA GivenKeeps ==
  ASSUME IInv, job.pc \in {"thread", "turn"},
         NEW t \in 1 .. Len(where), NEW cwd \in Projects,
         t = job.thread,
         Current.kind = "text" =>
           IF Current.re = 0 THEN cwd = selected ELSE t = cards[Current.re].about,
         Starts(t) \/ Fails,
         ran' = Append(ran, [u |-> job.u, thread |-> t, home |-> cwd,
                             chosen |-> selected, life |-> life]),
         UNCHANGED <<telegram, where, bot, selected, bound, routes, voices>>,
         faults' \in 0 .. MaxFaults
  PROVE  IInv'
<1>0. /\ TypeOK /\ SentFits /\ JobFits /\ InOrder /\ UpdateRunsOnce /\ VoicesFit /\ VerdictsFit
      /\ CardsFit /\ TextsFit /\ TextsRunWhereMeant /\ ListsFit
  BY Zenon DEF IInv
<1>1. PICK k : k = Len(ran) + 1
  OBVIOUS
<1>2. PICK r : r = [u |-> job.u, thread |-> t, home |-> cwd, chosen |-> selected, life |-> life]
  OBVIOUS
<1>3. /\ sent' = sent /\ confirmed' = confirmed /\ cards' = cards /\ where' = where
      /\ offset' = offset /\ batch' = batch /\ life' = life /\ selected' = selected
      /\ bound' = bound /\ routes' = routes /\ voices' = voices /\ ran' = Append(ran, r)
      /\ job.pc # "idle" /\ job.pc \in Before /\ job.pc \notin {"edit", "route", "send", "register"}
  BY <1>2 DEF telegram, bot, Before
<1>4. /\ job.u \in 1 .. Len(sent) /\ job.u \in DOMAIN sent /\ Current.kind \in {"text", "confirm"}
      /\ Current.re \in 0 .. Len(cards) /\ life \in Nat /\ selected \in Projects \cup {None}
  BY <1>0, <1>3, CurrentFields, Types DEF JobFits, Scalars
<1>5. /\ ran \in Seq(RunSet(Len(sent), Len(where), life)) /\ Len(ran) \in Nat
      /\ DOMAIN ran = 1 .. Len(ran)
  BY <1>0, Types, Lengths DEF Typed
<1>6. /\ r \in RunSet(Len(sent), Len(where), life)
      /\ r.u = job.u /\ r.thread = t /\ r.home = cwd /\ r.chosen = selected /\ r.life = life
  <2>1. life \in 0 .. life
    BY <1>4
  <2>2. QED
    BY <1>2, <1>4, <2>1, Zenon DEF RunSet
<1>7. /\ ran' \in Seq(RunSet(Len(sent), Len(where), life))
      /\ \A i \in DOMAIN ran' : i \in DOMAIN ran \/ i = k
      /\ k \in DOMAIN ran' /\ k \notin DOMAIN ran /\ ran'[k] = r
      /\ \A i \in DOMAIN ran : i \in DOMAIN ran' /\ ran'[i] = ran[i]
  <2>1. /\ ran' \in Seq(RunSet(Len(sent), Len(where), life))
        /\ Len(ran') = k /\ DOMAIN ran' = 1 .. k /\ ran'[k] = r
    BY <1>1, <1>3, <1>5, <1>6
  <2>2. \A i \in 1 .. Len(ran) : ran'[i] = ran[i]
    BY <1>3, <1>5, <1>6
  <2>3. /\ \A i \in 1 .. k : i \in 1 .. Len(ran) \/ i = k
        /\ \A i \in 1 .. Len(ran) : i \in 1 .. k
        /\ k \in 1 .. k /\ k \notin 1 .. Len(ran)
    BY <1>1, <1>5
  <2>4. QED
    BY <1>5, <2>1, <2>2, <2>3, Zenon
<1>8. /\ Told(t) /\ done' \subseteq 1 .. Len(sent)
      /\ job' \in JobSet(Len(sent), Len(cards), Len(routes), Len(voices), Len(where))
  <2>1. t \in 0 .. Len(where)
    BY <1>0, Lengths
  <2>2. QED
    BY <1>0, <1>3, <2>1, ToldFields
<1>9. TypeOK' /\ Grows
  <2>1. Grows
    BY <1>0, <1>3, Lengths DEF Grows
  <2>2. Typed(Len(sent'), Len(cards'), Len(routes'), Len(voices'), Len(where'), life')
    BY <1>0, <2>1, StillTyped
  <2>3. Typed(Len(sent), Len(cards), Len(routes), Len(voices), Len(where), life)'
    <3>1. /\ job' \in JobSet(Len(sent'), Len(cards'), Len(routes'), Len(voices'), Len(where'))
          /\ ran' \in Seq(RunSet(Len(sent'), Len(where'), life')) /\ done' \subseteq 1 .. Len(sent')
      BY <1>3, <1>7, <1>8, Zenon
    <3>2. QED
      BY <1>3, <2>2, <3>1, Zenon DEF Typed
  <2>4. Scalars'
    BY <1>0, <1>3, Types, Zenon DEF Scalars
  <2>5. QED
    BY <2>1, <2>3, <2>4, Types
<1>10. /\ job'.pc \in {"idle", "send", "edit"} /\ job'.pc \notin {"handle"} \cup Before
       /\ job'.pc \notin Before
       /\ job'.answer.voice = 0 /\ job'.answer.list = FALSE
       /\ job'.pc # "idle" => /\ job'.u = job.u /\ Current' = Current
                              /\ Current.re # 0 => VoiceOf' = VoiceOf
       /\ job'.pc = "idle" => job' = Idle
       /\ job'.pc = "edit" =>
            /\ Current.kind = "confirm" /\ job'.answer.edit = Current.re
            /\ \/ job'.answer.verdict = "started" /\ job'.answer.about = t
               \/ job'.answer.verdict = "unsure" /\ job'.answer.about = 0
  <2>1. job'.u = job.u => Current' = Current /\ (Current.re # 0 => VoiceOf' = VoiceOf)
    BY <1>0, <1>3, <1>9, CurrentStays
  <2>2. CASE job' = Idle
    BY <2>2, IdleFields DEF Before
  <2>3. CASE job' # Idle
    BY <1>8, <2>1, <2>3 DEF Told, Before
  <2>4. QED
    BY <2>2, <2>3
<1>11. SentFits'
  BY <1>0, <1>3, <1>9, SentKept
<1>12. JobFits'
  <2>1. CASE job' = Idle
    <3>1. job'.pc = "idle" /\ job'.answer = NoAnswer
      BY <2>1, IdleFields
    <3>2. QED
      BY <2>1, <3>1 DEF JobFits, Before
  <2>2. CASE job' # Idle
    <3>1. /\ job'.pc \in {"send", "edit"} /\ job'.u # 0 /\ Current' = Current
          /\ job'.pc = "edit" => Current.kind = "confirm" /\ job'.answer.edit = Current.re
      BY <1>4, <1>10, <2>2
    <3>2. QED
      BY <3>1 DEF JobFits, Before
  <2>3. QED
    BY <2>1, <2>2
<1>13. \A i \in DOMAIN ran : ran[i].life = life => ran[i].u # job.u
  BY <1>0, <1>3, Zenon DEF InOrder
<1>14. InOrder' /\ UpdateRunsOnce'
  <2>1. job.u < offset
    BY <1>0, <1>3, Zenon DEF InOrder
  <2>2. \A i \in DOMAIN ran' : ran'[i].life = life' => ran'[i].u < offset'
    <3>1. ASSUME NEW i \in DOMAIN ran', ran'[i].life = life
          PROVE  ran'[i].u < offset
      <4>1. CASE i \in DOMAIN ran
        BY <1>0, <1>7, <3>1, <4>1 DEF InOrder, Behind
      <4>2. CASE i = k
        BY <1>6, <1>7, <2>1, <4>2
      <4>3. QED
        BY <1>7, <4>1, <4>2
    <3>2. QED
      BY <1>3, <3>1, Zenon
  <2>3. Behind'
    BY <1>0, <1>3, <2>2, Zenon DEF InOrder, Behind
  <2>4. job'.pc # "idle" => job'.u < offset'
    BY <1>3, <1>10, <2>1
  <2>5. InOrder'
    BY <1>10, <2>3, <2>4, Zenon DEF InOrder
  <2>6. \A m \in DOMAIN ran : ran'[m].life = ran'[k].life => ran'[m].u # ran'[k].u
    <3>1. ran'[k].life = life /\ ran'[k].u = job.u
      BY <1>6, <1>7
    <3>2. \A m \in DOMAIN ran : ran'[m] = ran[m]
      BY <1>7
    <3>3. QED
      BY <1>13, <3>1, <3>2, Zenon
  <2>7. ASSUME NEW i \in DOMAIN ran', NEW j \in DOMAIN ran',
               ran'[i].u = ran'[j].u, ran'[i].life = ran'[j].life
        PROVE  i = j
    <3>1. CASE i \in DOMAIN ran /\ j \in DOMAIN ran
      BY <1>0, <1>7, <2>7, <3>1, ZenonT(30) DEF UpdateRunsOnce
    <3>2. CASE i \in DOMAIN ran /\ j = k
      BY <2>6, <2>7, <3>2, Zenon
    <3>3. CASE i = k /\ j \in DOMAIN ran
      BY <2>6, <2>7, <3>3, Zenon
    <3>4. CASE i = k /\ j = k
      BY <3>4
    <3>5. QED
      BY <1>7, <3>1, <3>2, <3>3, <3>4
  <2>8. UpdateRunsOnce'
    BY <2>7, Zenon DEF UpdateRunsOnce
  <2>9. QED
    BY <2>5, <2>8
<1>15. ASSUME NEW v
       PROVE  /\ ~(Current.kind = "confirm" /\ VoiceOf = v) => RunsOf(v)' = RunsOf(v)
              /\ (Current.kind = "confirm" /\ VoiceOf = v) => RunsOf(v)' = RunsOf(v) \cup {k}
  <2>1. \A i \in DOMAIN ran : i \in RunsOf(v)' <=> i \in RunsOf(v)
    BY <1>3, <1>7, Zenon DEF RunsOf
  <2>2. k \in RunsOf(v)' <=> (Current.kind = "confirm" /\ VoiceOf = v)
    BY <1>3, <1>6, <1>7, Zenon DEF RunsOf, Current, VoiceOf
  <2>3. RunsOf(v) \subseteq DOMAIN ran /\ \A i \in RunsOf(v)' : i \in DOMAIN ran \/ i = k
    BY <1>7, Zenon DEF RunsOf
  <2>4. k \notin RunsOf(v)
    BY <1>7, <2>3
  <2>5. QED
    BY <1>7, <2>1, <2>2, <2>3, <2>4, Zenon
<1>16. PICK c : c = VoiceOf
  OBVIOUS
<1>17. Current.kind = "confirm" =>
         /\ c # 0 /\ c \in DOMAIN voices /\ Current.re # 0
         /\ voices[c].status = "executed" /\ RunsOf(c) = {} /\ RunsOf(c)' = {k}
  <2> SUFFICES ASSUME Current.kind = "confirm"
               PROVE  /\ c # 0 /\ c \in DOMAIN voices /\ Current.re # 0
                      /\ voices[c].status = "executed" /\ RunsOf(c) = {} /\ RunsOf(c)' = {k}
    OBVIOUS
  <2>1. c # 0 /\ c \in DOMAIN voices /\ Current.re # 0
    BY <1>0, <1>3, <1>16, ConfirmFields
  <2>2. voices[c].status = "executed" /\ RunsOf(c) = {}
    BY <1>0, <1>3, <1>16, Zenon DEF VoicesFit
  <2>3. RunsOf(c)' = {k}
    BY <1>15, <1>16, <2>2
  <2>4. QED
    BY <2>1, <2>2, <2>3
<1>18. VoicesFit'
  <2>1. ASSUME NEW v \in DOMAIN voices
        PROVE  RunsFit(v)' /\ PendingFits(v)'
    <3>1. v # 0 /\ job.answer.voice = 0
      BY <1>0, <1>3, Lengths, IdleFields DEF JobFits
    <3>2. voices'[v].status = "pending" =>
            /\ voices'[v].life = life' /\ voices'[v].card # 0 /\ cards'[voices'[v].card].voice = v
      BY <1>0, <1>3, <3>1, Zenon DEF VoicesFit, PendingFits
    <3>3. CASE ~(Current.kind = "confirm" /\ c = v)
      <4>1. RunsOf(v)' = RunsOf(v)
        BY <1>15, <1>16, <3>3
      <4>2. RunsFit(v) /\ voices'[v] = voices[v]
        BY <1>0, <1>3, Zenon DEF VoicesFit
      <4>3. RunsFit(v)'
        BY <4>1, <4>2, Zenon DEF RunsFit
      <4>4. QED
        BY <3>2, <4>3, Zenon DEF PendingFits
    <3>4. CASE Current.kind = "confirm" /\ c = v
      <4>1. /\ voices'[v].status = "executed" /\ RunsOf(v)' = {k}
        BY <1>3, <1>15, <1>16, <1>17, <3>4
      <4>2. QED
        BY <3>2, <4>1, Zenon DEF RunsFit, PendingFits
    <3>5. QED
      BY <3>3, <3>4
  <2>2. QED
    BY <1>3, <1>10, <2>1, Zenon DEF VoicesFit
<1>19. \A v : RunsOf(v) # {} => RunsOf(v)' # {}
  BY <1>15
<1>20. VerdictsFit'
  <2>1. \A w \in DOMAIN voices : voices[w].status = "cancelled" => voices'[w].status = "cancelled"
    BY <1>3
  <2>2. ASSUME NEW d \in DOMAIN cards
        PROVE  VerdictFits(cards[d].verdict, cards[d].voice)'
    <3>1. PICK x : x = cards[d].verdict
      OBVIOUS
    <3>2. PICK w : w = cards[d].voice
      OBVIOUS
    <3>3. VerdictFits(x, w) /\ w \in 0 .. Len(voices)
      BY <1>0, <3>1, <3>2, CardFields, Zenon DEF VerdictsFit
    <3>4. VerdictFits(x, w)'
      <4>1. RunsOf(w) # {} => RunsOf(w)' # {}
        BY <1>19
      <4>2. QED
        BY <1>0, <1>9, <2>1, <3>3, <4>1, VerdictKept, Zenon
    <3>5. QED
      BY <1>3, <3>1, <3>2, <3>4, Zenon
  <2>3. ASSUME job'.pc = "edit"
        PROVE  VerdictFits(job.answer.verdict, VoiceOf)'
    <3>1. /\ Current.kind = "confirm" /\ job'.answer.verdict \in {"started", "unsure"}
      BY <1>10, <2>3
    <3>2. VoiceOf' = c /\ c # 0 /\ RunsOf(c)' # {}
      BY <1>10, <1>16, <1>17, <2>3, <3>1
    <3>3. QED
      BY <3>1, <3>2 DEF VerdictFits
  <2>4. QED
    BY <1>3, <2>2, <2>3, Zenon DEF VerdictsFit
<1>21. CardsFit'
  <2>1. \A d \in DOMAIN cards : CardFits(d)'
    BY <1>0, <1>3, <1>9, CardKept, Zenon DEF CardsFit
  <2>2. (job'.pc = "edit" /\ job'.answer.about # 0) =>
          /\ Current'.kind = "confirm" /\ voices'[VoiceOf'].status = "executed"
          /\ cards'[Current'.re].about \in {0, job'.answer.about}
    <3> SUFFICES ASSUME job'.pc = "edit", job'.answer.about # 0
                 PROVE  /\ Current'.kind = "confirm" /\ voices'[VoiceOf'].status = "executed"
                        /\ cards'[Current'.re].about \in {0, job'.answer.about}
      OBVIOUS
    <3>1. Current.kind = "confirm" /\ job'.answer.about = t /\ Current' = Current
      BY <1>10
    <3>2. VoiceOf' = c /\ voices'[c].status = "executed"
      BY <1>3, <1>10, <1>16, <1>17, <3>1
    <3>3. cards[Current.re].about = IF job.pc = "thread" THEN t ELSE 0
      BY <1>0, <1>3, <3>1, Zenon DEF CardsFit
    <3>4. QED
      BY <1>3, <3>1, <3>2, <3>3
  <2>3. QED
    BY <1>3, <1>10, <2>1, <2>2, Zenon DEF CardsFit
<1>22. TextsFit'
  BY <1>10, Zenon DEF TextsFit
<1>23. TextsRunWhereMeant'
  <2>1. ASSUME NEW i \in DOMAIN ran', sent[ran'[i].u].kind = "text"
        PROVE  IF sent[ran'[i].u].re = 0 THEN ran'[i].home = ran'[i].chosen
               ELSE ran'[i].thread = cards[sent[ran'[i].u].re].about
    <3>1. CASE i \in DOMAIN ran
      BY <1>0, <1>7, <2>1, <3>1, Zenon DEF TextsRunWhereMeant
    <3>2. CASE i = k
      BY <1>6, <1>7, <2>1, <3>2 DEF Current
    <3>3. QED
      BY <1>7, <3>1, <3>2
  <2>2. QED
    BY <1>3, <2>1, Zenon DEF TextsRunWhereMeant
<1>24. ListsFit'
  BY <1>0, <1>3, <1>9, <1>10, ListsKept, Zenon
<1>25. QED
  BY <1>9, <1>11, <1>12, <1>14, <1>18, <1>20, <1>21, <1>22, <1>23, <1>24, Zenon DEF IInv

\* A conversation is given the command, unless it is gone or elsewhere.
LEMMA submitThreadKeeps ==
  ASSUME IInv, submitThread
  PROVE  IInv'
<1>0. /\ TypeOK /\ JobFits /\ SentFits /\ TextsFit /\ job.pc = "thread" /\ job.pc \in Before
      /\ UNCHANGED <<telegram, where, bot, selected, bound, routes, voices>>
  BY Zenon DEF IInv, submitThread, Before
<1>1. PICK t : t = job.thread
  OBVIOUS
<1>2. t \in 1 .. Len(where) /\ where[t] \in Projects \cup {None}
  <2>1. t \in 0 .. Len(where) /\ t # 0 /\ Len(where) \in Nat
    BY <1>0, <1>1, JobFields, Lengths DEF JobFits
  <2>2. t \in 1 .. Len(where)
    BY <2>1
  <2>3. QED
    BY <1>0, <2>2, Types DEF Scalars
<1>3. faults' = faults \/ Fault
  BY Zenon DEF submitThread, Run, Refuses
<1>4. faults' \in 0 .. MaxFaults
  BY <1>0, <1>3, FaultCounts, Types DEF Scalars
<1>5. CASE Fails /\ ran' = ran
  <2>1. Rests
    BY <1>0, <1>3, <1>5, HandlerRests, Zenon DEF telegram
  <2>2. TypeOK' /\ Grows /\ SimpleStep
    BY <1>0, <1>5, <2>1, FailsEffect
  <2>3. QED
    BY <2>2, SimpleKeeps
<1>6. CASE /\ projectForThread(t) /\ (Starts(t) \/ Fails)
           /\ ran' = Append(ran, [u |-> job.u, thread |-> t, home |-> where[t],
                                  chosen |-> selected, life |-> life])
  <2>1. where[t] # None /\ job.project \in {None, where[t]}
    BY <1>6 DEF projectForThread
  <2>2. where[t] \in Projects
    BY <1>2, <2>1
  <2>3. Current.kind = "text" =>
          IF Current.re = 0 THEN where[t] = selected ELSE t = cards[Current.re].about
    BY <1>0, <1>1, <2>1 DEF TextsFit
  <2>4. PICK cwd \in Projects : cwd = where[t]
    BY <2>2
  <2>5. Starts(t) \/ Fails
    BY <1>6
  <2>6. job.pc \in {"thread", "turn"}
    BY <1>0
  <2>7. ran' = Append(ran, [u |-> job.u, thread |-> t, home |-> cwd,
                            chosen |-> selected, life |-> life])
    BY <1>6, <2>4, Zenon
  <2>8. Current.kind = "text" =>
          IF Current.re = 0 THEN cwd = selected ELSE t = cards[Current.re].about
    BY <2>3, <2>4
  <2>9. QED
    BY <1>0, <1>1, <1>2, <1>4, <2>5, <2>6, <2>7, <2>8, GivenKeeps
<1>7. CASE Refuses(job.thread)
  <2>1. Rests
    BY <1>0, <1>3, <1>7, HandlerRests, Zenon DEF telegram, Refuses
  <2>2. TypeOK' /\ Grows /\ SimpleStep
    BY <1>0, <1>7, <2>1, RefusesEffect
  <2>3. QED
    BY <2>2, SimpleKeeps
<1>8. QED
  <2>1. CASE projectForThread(job.thread) /\ Run(job.thread, where[job.thread])
    BY <1>1, <1>5, <1>6, <2>1, Zenon DEF Run
  <2>2. CASE Fails /\ ran' = ran
    BY <1>5, <2>2
  <2>3. QED
    BY <1>7, <2>1, <2>2, Zenon DEF submitThread

\* The conversation that was made for the command is given it.
LEMMA startLoadedTurnKeeps ==
  ASSUME IInv, startLoadedTurn
  PROVE  IInv'
<1>0. /\ TypeOK /\ JobFits /\ SentFits /\ TextsFit /\ job.pc = "turn" /\ job.pc \in Before
      /\ UNCHANGED <<telegram, where, bot, selected, bound, routes, voices>>
  BY Zenon DEF IInv, startLoadedTurn, Before
<1>1. PICK t : t = job.thread
  OBVIOUS
<1>2. PICK cwd : cwd = job.project
  OBVIOUS
<1>3. t \in 1 .. Len(where)
  <2>1. t \in 0 .. Len(where) /\ t # 0 /\ Len(where) \in Nat
    BY <1>0, <1>1, JobFields, Lengths DEF JobFits
  <2>2. QED
    BY <2>1
<1>4. cwd \in Projects
  BY <1>0, <1>2, JobFields DEF JobFits
<1>5. faults' = faults \/ Fault
  BY Zenon DEF startLoadedTurn, Run
<1>6. faults' \in 0 .. MaxFaults
  BY <1>0, <1>5, FaultCounts, Types DEF Scalars
<1>7. CASE Fails /\ ran' = ran
  <2>1. Rests
    BY <1>0, <1>5, <1>7, HandlerRests, Zenon DEF telegram
  <2>2. TypeOK' /\ Grows /\ SimpleStep
    BY <1>0, <1>7, <2>1, FailsEffect
  <2>3. QED
    BY <2>2, SimpleKeeps
<1>8. CASE /\ Starts(t) \/ Fails
           /\ ran' = Append(ran, [u |-> job.u, thread |-> t, home |-> cwd,
                                  chosen |-> selected, life |-> life])
  <2>1. Current.kind = "text" =>
          IF Current.re = 0 THEN cwd = selected ELSE t = cards[Current.re].about
    BY <1>0, <1>2 DEF TextsFit
  <2>2. job.pc \in {"thread", "turn"} /\ (Starts(t) \/ Fails)
    BY <1>0, <1>8
  <2>3. ran' = Append(ran, [u |-> job.u, thread |-> t, home |-> cwd,
                            chosen |-> selected, life |-> life])
    BY <1>8
  <2>4. QED
    BY <1>0, <1>1, <1>3, <1>4, <1>6, <2>1, <2>2, <2>3, GivenKeeps
<1>9. QED
  BY <1>1, <1>2, <1>7, <1>8, Zenon DEF startLoadedTurn, Run

-----------------------------------------------------------------------------
(***************************************************************************)
(* The invariant holds.                                                    *)
(***************************************************************************)

\* At first nothing was sent and nothing was run.
Fresh ==
  /\ sent = <<>> /\ confirmed = 1 /\ where = Home
  /\ offset = 0 /\ batch = <<>> /\ job = Idle /\ life = 1
  /\ faults = 0 /\ done = {} /\ ran = <<>>

\* Then it is the tables that matter.
LEMMA FreshFits ==
  ASSUME Fresh,
         cards \in Seq(CardSet(Len(routes), Len(voices), Len(where))),
         routes \in Seq(RouteSet(Len(where))), voices \in Seq(VoiceSet(Len(where), Len(cards))),
         selected \in Projects \cup {None},
         bound \in [thread : 0 .. Len(where), cwd : Projects \cup {None}],
         \A c \in DOMAIN cards : cards[c].verdict = "none" /\ CardFits(c),
         \A v \in DOMAIN voices :
           /\ voices[v].status = "pending" /\ voices[v].life = 1
           /\ voices[v].card # 0 /\ cards[voices[v].card].voice = v,
         \A c \in DOMAIN cards : cards[c].list => HasSelect(cards[c].buttons)
  PROVE  IInv
<1>1. /\ sent = <<>> /\ confirmed = 1 /\ where = Home
      /\ offset = 0 /\ batch = <<>> /\ job = Idle /\ life = 1
      /\ faults = 0 /\ done = {} /\ ran = <<>>
  BY DEF Fresh
<1>2. /\ Len(sent) = 0 /\ DOMAIN sent = {} /\ DOMAIN batch = {} /\ DOMAIN ran = {}
  BY <1>1
<1>3. /\ job.pc = "idle" /\ job.u = 0 /\ job.answer.voice = 0 /\ job.answer.list = FALSE
      /\ job.answer = NoAnswer /\ job.pc \notin Before /\ job.pc # "edit"
      /\ job.pc \notin {"handle"} \cup Before
  BY <1>1, IdleFields DEF Before
<1>4. Len(cards) \in Nat /\ Len(routes) \in Nat /\ Len(voices) \in Nat /\ Len(where) \in Nat
  BY <1>1, InputAssumption
<1>5. TypeOK
  <2>1. job \in JobSet(Len(sent), Len(cards), Len(routes), Len(voices), Len(where))
    BY <1>1, <1>2, <1>4, IdleTyped
  <2>2. /\ sent \in Seq(UpdateSet(Len(cards), Len(routes))) /\ batch \in Seq(1 .. Len(sent))
        /\ ran \in Seq(RunSet(Len(sent), Len(where), life)) /\ done \subseteq 1 .. Len(sent)
    BY <1>1
  <2>3. Typed(Len(sent), Len(cards), Len(routes), Len(voices), Len(where), life)
    BY <2>1, <2>2, Zenon DEF Typed
  <2>4. Scalars
    <3>1. Projects \subseteq Projects \cup {None}
      OBVIOUS
    <3>2. where \in Seq(Projects \cup {None})
      BY <1>1, <3>1, SeqWider, InputAssumption
    <3>3. QED
      BY <1>1, <1>2, <3>2, InputAssumption DEF Scalars
  <2>5. QED
    BY <2>3, <2>4, Types
<1>6. SentFits /\ UpdateRunsOnce /\ TextsRunWhereMeant
  BY <1>2, Zenon DEF SentFits, UpdateRunsOnce, TextsRunWhereMeant
<1>7. JobFits
  BY <1>1, <1>3 DEF JobFits
<1>8. InOrder
  BY <1>2, <1>3, Zenon DEF InOrder, Behind
<1>9. \A v : RunsOf(v) = {}
  BY <1>2, Zenon DEF RunsOf
<1>10. VoicesFit
  <2>1. \A v \in DOMAIN voices : RunsFit(v) /\ PendingFits(v)
    BY <1>1, <1>9, Zenon DEF RunsFit, PendingFits
  <2>2. QED
    BY <1>3, <2>1, Zenon DEF VoicesFit
<1>11. VerdictsFit
  BY <1>3 DEF VerdictsFit, VerdictFits
<1>12. CardsFit /\ TextsFit /\ ListsFit
  BY <1>3, Zenon DEF CardsFit, TextsFit, ListsFit
<1>13. QED
  BY <1>5, <1>6, <1>7, <1>8, <1>10, <1>11, <1>12, Zenon DEF IInv

\* The tables of a daemon that has been in use.
LEMMA InUseFits ==
  ASSUME Fresh, InUse
  PROVE  IInv
<1>1. PICK p : p = Home[1]
  OBVIOUS
<1>2. PICK n : n = Cardinality(Projects)
  OBVIOUS
<1>3. PICK first : first = [i \in 1 .. n |-> Route("pick", SetToSeq(Projects)[i], 0, 0)]
  OBVIOUS
<1>4. PICK second : second = <<Route("new", p, 0, 0), Route("open", p, 0, 0)>>
  OBVIOUS
<1>5. PICK third : third = <<Route("select", p, 1, 0), Route("open", p, 0, 1),
                             Route("back", p, 0, 0)>>
  OBVIOUS
<1>6. /\ routes = first \o second \o third
      /\ cards = << Card(1 .. n, 0, 0, FALSE), Card({n + 1, n + 2}, 0, 0, FALSE),
                    Card({n + 3, n + 4, n + 5}, 0, 0, TRUE),
                    [Card({}, 0, 1, FALSE) EXCEPT !.routed = 1],
                    Card({}, 1, 0, FALSE) >>
      /\ voices = <<[project |-> p, thread |-> 0, life |-> 1, status |-> "pending", card |-> 5]>>
      /\ selected \in Projects
      /\ bound = Unbound \/ (selected = p /\ bound = [thread |-> 1, cwd |-> p])
  BY <1>1, <1>2, <1>3, <1>4, <1>5 DEF InUse
<1>7. /\ where = Home /\ Len(where) \in Nat /\ 1 \in 0 .. Len(where) /\ 0 \in 0 .. Len(where)
      /\ p \in Projects /\ n \in Nat
      /\ \A i \in 1 .. n : SetToSeq(Projects)[i] \in Projects
  BY <1>1, <1>2, SetToSeqFields, InputAssumption DEF Fresh
<1>8. /\ first \in Seq(RouteSet(Len(where))) /\ Len(first) = n
  <2>1. \A i \in 1 .. n : Route("pick", SetToSeq(Projects)[i], 0, 0) \in RouteSet(Len(where))
    BY <1>7, RouteTyped
  <2>2. QED
    BY <1>3, <1>7, <2>1
<1>9. /\ second \in Seq(RouteSet(Len(where))) /\ Len(second) = 2
      /\ third \in Seq(RouteSet(Len(where))) /\ Len(third) = 3 /\ third[1].action = "select"
  <2>1. /\ Route("new", p, 0, 0) \in RouteSet(Len(where))
        /\ Route("open", p, 0, 0) \in RouteSet(Len(where))
        /\ Route("select", p, 1, 0) \in RouteSet(Len(where))
        /\ Route("select", p, 1, 0).action = "select"
        /\ Route("open", p, 0, 1) \in RouteSet(Len(where))
        /\ Route("back", p, 0, 0) \in RouteSet(Len(where))
    BY <1>7, RouteTyped
  <2>2. QED
    BY <1>4, <1>5, <2>1
<1>10. /\ routes \in Seq(RouteSet(Len(where))) /\ Len(routes) = n + 5
       /\ routes[n + 3].action = "select"
  <2>1. PICK S : S = RouteSet(Len(where))
    OBVIOUS
  <2>2. first \in Seq(S) /\ second \in Seq(S) /\ third \in Seq(S)
    BY <1>8, <1>9, <2>1, Zenon
  <2>3. PICK s : s = first \o second
    OBVIOUS
  <2>4. s \in Seq(S) /\ Len(s) = n + 2
    <3>1. s \in Seq(S)
      BY <2>2, <2>3
    <3>2. Len(s) = Len(first) + Len(second)
      BY <2>2, <2>3
    <3>3. QED
      BY <1>8, <1>9, <3>1, <3>2
  <2>5. routes = s \o third
    BY <1>6, <2>2, <2>3
  <2>6. /\ s \o third \in Seq(S) /\ Len(s \o third) = Len(s) + Len(third)
        /\ \A i \in 1 .. Len(third) : (s \o third)[Len(s) + i] = third[i]
    <3>1. s \in Seq(S) /\ third \in Seq(S)
      BY <2>2, <2>4
    <3>2. QED
      BY <3>1, ConcatFields
  <2>7. Len(routes) = n + 5
    BY <1>7, <1>9, <2>4, <2>5, <2>6
  <2>8. routes[Len(s) + 1] = third[1]
    <3>1. 1 \in 1 .. Len(third)
      BY <1>9
    <3>2. QED
      BY <2>5, <2>6, <3>1, Zenon
  <2>9. Len(s) + 1 = n + 3
    BY <1>7, <2>4
  <2>10. QED
    BY <1>9, <2>1, <2>5, <2>6, <2>7, <2>8, <2>9, Zenon
<1>11. PICK m : m = Len(routes)
  OBVIOUS
<1>12. /\ m = n + 5 /\ m \in Nat
  BY <1>7, <1>10, <1>11
<1>13. /\ 1 .. n \in SUBSET (1 .. m) /\ {n + 1, n + 2} \in SUBSET (1 .. m)
       /\ {n + 3, n + 4, n + 5} \in SUBSET (1 .. m) /\ {} \in SUBSET (1 .. m)
  BY <1>7, <1>12
<1>14. PICK x : x = [Card({}, 0, 1, FALSE) EXCEPT !.routed = 1]
  OBVIOUS
<1>15. /\ 0 \in 0 .. 1 /\ 1 \in 0 .. 1 /\ TRUE \in BOOLEAN /\ FALSE \in BOOLEAN
       /\ "none" \in Verdicts
  BY DEF Verdicts
<1>16. /\ x \in CardSet(m, 1, Len(where)) /\ x.voice = 0 /\ x.verdict = "none" /\ x.about = 1
       /\ x.list = FALSE /\ x.routed = 1
  <2>1. x = [buttons |-> {}, voice |-> 0, verdict |-> "none", about |-> 1, list |-> FALSE,
             routed |-> 1]
    BY <1>14 DEF Card
  <2>2. QED
    BY <1>7, <1>13, <1>15, <2>1, Zenon DEF CardSet
<1>17. PICK c1 : c1 = Card(1 .. n, 0, 0, FALSE)
  OBVIOUS
<1>18. PICK c2 : c2 = Card({n + 1, n + 2}, 0, 0, FALSE)
  OBVIOUS
<1>19. PICK c3 : c3 = Card({n + 3, n + 4, n + 5}, 0, 0, TRUE)
  OBVIOUS
<1>20. PICK c5 : c5 = Card({}, 1, 0, FALSE)
  OBVIOUS
<1>21. /\ c1 \in CardSet(m, 1, Len(where)) /\ c1.voice = 0 /\ c1.verdict = "none" /\ c1.about = 0
       /\ c1.list = FALSE /\ c1.routed = 0
  BY <1>7, <1>13, <1>15, <1>17, Zenon DEF Card, CardSet
<1>22. /\ c2 \in CardSet(m, 1, Len(where)) /\ c2.voice = 0 /\ c2.verdict = "none" /\ c2.about = 0
       /\ c2.list = FALSE /\ c2.routed = 0
  BY <1>7, <1>13, <1>15, <1>18, Zenon DEF Card, CardSet
<1>23. /\ c3 \in CardSet(m, 1, Len(where)) /\ c3.voice = 0 /\ c3.verdict = "none" /\ c3.about = 0
       /\ c3.routed = 0 /\ c3.buttons = {n + 3, n + 4, n + 5}
  BY <1>7, <1>13, <1>15, <1>19, Zenon DEF Card, CardSet
<1>24. /\ c5 \in CardSet(m, 1, Len(where)) /\ c5.voice = 1 /\ c5.verdict = "none" /\ c5.about = 0
       /\ c5.list = FALSE /\ c5.routed = 0
  BY <1>7, <1>13, <1>15, <1>20, Zenon DEF Card, CardSet
<1>25. PICK y : y = [project |-> p, thread |-> 0, life |-> 1, status |-> "pending", card |-> 5]
  OBVIOUS
<1>26. cards = <<c1, c2, c3, x, c5>> /\ voices = <<y>>
  BY <1>6, <1>14, <1>17, <1>18, <1>19, <1>20, <1>25, Zenon
<1>27. /\ cards \in Seq(CardSet(m, 1, Len(where))) /\ Len(cards) = 5 /\ DOMAIN cards = 1 .. 5
       /\ cards[1] = c1 /\ cards[2] = c2 /\ cards[3] = c3 /\ cards[4] = x /\ cards[5] = c5
  BY <1>16, <1>21, <1>22, <1>23, <1>24, <1>26
<1>28. /\ y \in VoiceSet(Len(where), 5) /\ y.status = "pending" /\ y.life = 1 /\ y.card = 5
       /\ y.thread = 0
  BY <1>7, <1>25 DEF VoiceSet
<1>29. /\ voices \in Seq(VoiceSet(Len(where), 5)) /\ Len(voices) = 1 /\ DOMAIN voices = {1}
       /\ voices[1] = y
  BY <1>26, <1>28
<1>30. /\ cards \in Seq(CardSet(Len(routes), Len(voices), Len(where)))
       /\ voices \in Seq(VoiceSet(Len(where), Len(cards)))
  BY <1>11, <1>27, <1>29
<1>31. bound \in [thread : 0 .. Len(where), cwd : Projects \cup {None}]
       /\ selected \in Projects \cup {None}
  <2>1. /\ Unbound \in [thread : 0 .. Len(where), cwd : Projects \cup {None}]
        /\ [thread |-> 1, cwd |-> p] \in [thread : 0 .. Len(where), cwd : Projects \cup {None}]
    BY <1>7 DEF Unbound
  <2>2. QED
    BY <1>6, <2>1
<1>32. ASSUME NEW c \in DOMAIN cards
       PROVE  /\ cards[c].verdict = "none" /\ CardFits(c)
              /\ cards[c].list => HasSelect(cards[c].buttons)
  <2>1. c \in {1, 2, 3, 4, 5}
    BY <1>27
  <2>2. CASE c \in {1, 2}
    BY <1>21, <1>22, <1>27, <2>2 DEF CardFits
  <2>3. CASE c = 3
    BY <1>10, <1>23, <1>27, <2>3 DEF CardFits, HasSelect
  <2>4. CASE c = 4
    BY <1>16, <1>27, <2>4 DEF CardFits
  <2>5. CASE c = 5
    BY <1>24, <1>27, <1>28, <1>29, <2>5 DEF CardFits
  <2>6. QED
    BY <2>1, <2>2, <2>3, <2>4, <2>5
<1>33. \A v \in DOMAIN voices :
         /\ voices[v].status = "pending" /\ voices[v].life = 1
         /\ voices[v].card # 0 /\ cards[voices[v].card].voice = v
  BY <1>24, <1>27, <1>28, <1>29
<1>34. QED
  BY <1>10, <1>30, <1>31, <1>32, <1>33, FreshFits

\* The daemon starts with the tables of its earlier life, or with none.
LEMMA InitIInv == Init => IInv
<1> SUFFICES ASSUME Init
             PROVE  IInv
  OBVIOUS
<1>1. Fresh /\ (Empty \/ InUse)
  BY DEF Init, Fresh
<1>2. CASE Empty
  <2>1. /\ cards = <<>> /\ routes = <<>> /\ voices = <<>> /\ selected = None /\ bound = Unbound
    BY <1>2 DEF Empty
  <2>2. /\ DOMAIN cards = {} /\ DOMAIN voices = {}
        /\ cards \in Seq(CardSet(Len(routes), Len(voices), Len(where)))
        /\ routes \in Seq(RouteSet(Len(where))) /\ voices \in Seq(VoiceSet(Len(where), Len(cards)))
    BY <2>1
  <2>3. Len(where) \in Nat
    BY <1>1, InputAssumption DEF Fresh
  <2>4. bound \in [thread : 0 .. Len(where), cwd : Projects \cup {None}]
        /\ selected \in Projects \cup {None}
    BY <2>1, <2>3 DEF Unbound
  <2>5. QED
    BY <1>1, <2>2, <2>4, FreshFits
<1>3. CASE InUse
  BY <1>1, <1>3, InUseFits
<1>4. QED
  BY <1>1, <1>2, <1>3

\* Nothing happens.
LEMMA StutterKeeps ==
  ASSUME IInv, UNCHANGED vars
  PROVE  IInv'
<1>1. /\ sent' = sent /\ confirmed' = confirmed /\ cards' = cards /\ where' = where
      /\ offset' = offset /\ batch' = batch /\ life' = life /\ job' = job
      /\ selected' = selected /\ bound' = bound /\ routes' = routes /\ voices' = voices
      /\ faults' = faults /\ done' = done /\ ran' = ran
  BY DEF vars, telegram, bot, history
<1>2. Grows
  BY <1>1, Lengths DEF Grows, IInv
<1>3. TypeOK'
  BY <1>1, Zenon DEF IInv, TypeOK, ChatOK, BotOK, StoreOK, RestOK
<1>4. SentFits' /\ InOrder'
  BY <1>1, Zenon DEF IInv, SentFits, InOrder, Behind
<1>5. Untouched
  BY <1>1 DEF Untouched
<1>6. QED
  BY <1>2, <1>3, <1>4, <1>5, UntouchedKeeps

\* No step of the bot breaks the invariant.
LEMMA BotKeeps ==
  ASSUME IInv, Bot
  PROVE  IInv'
<1>1. CASE GetUpdates
  BY <1>1, GetUpdatesKeeps
<1>2. CASE handleUpdate
  BY <1>2, handleUpdateKeeps
<1>3. CASE RefuseExpired
  BY <1>3, RefuseExpiredEffect, SimpleKeeps
<1>4. CASE HandleStart
  BY <1>4, HandleStartEffect, SimpleKeeps
<1>5. CASE submitReply
  BY <1>5, submitReplyEffect, SimpleKeeps
<1>6. CASE submitNew
  BY <1>6, submitNewEffect, SimpleKeeps
<1>7. CASE submitThread
  BY <1>7, submitThreadKeeps
<1>8. CASE submitNewProject
  BY <1>8, submitNewProjectEffect, SimpleKeeps
<1>9. CASE startLoadedTurn
  BY <1>9, startLoadedTurnKeeps
<1>10. CASE handleMinimalCallback
  BY <1>10, handleMinimalCallbackEffect, SimpleKeeps
<1>11. CASE ShowActions
  BY <1>11, ShowActionsEffect, SimpleKeeps
<1>12. CASE ConsumeMinimalPickerRoute
  BY <1>12, ConsumeEffect, SimpleKeeps
<1>13. CASE PickNew
  BY <1>13, PickNewEffect, SimpleKeeps
<1>14. CASE PickBack
  BY <1>14, PickBackEffect, SimpleKeeps
<1>15. CASE PickPage
  BY <1>15, PickPageEffect, SimpleKeeps
<1>16. CASE selectMinimalExistingThread
  BY <1>16, SelectEffect, SimpleKeeps
<1>17. CASE HandleVoice
  BY <1>17, HandleVoiceKeeps
<1>18. CASE handleMinimalVoiceCallback
  BY <1>18, VoiceCallbackKeeps
<1>19. CASE editOrSend
  BY <1>19, editOrSendKeeps
<1>20. CASE PutMessageRoute
  BY <1>20, PutMessageRouteKeeps
<1>21. CASE deliverDirectResponse
  BY <1>21, deliverKeeps
<1>22. CASE RegisterDirectDelivery
  BY <1>22, RegisterKeeps
<1>23. QED
  BY <1>1, <1>2, <1>3, <1>4, <1>5, <1>6, <1>7, <1>8, <1>9, <1>10, <1>11, <1>12, <1>13, <1>14,
     <1>15, <1>16, <1>17, <1>18, <1>19, <1>20, <1>21, <1>22, Zenon DEF Bot

\* The invariant is inductive.
THEOREM Invariance == Spec => []IInv
<1>1. Init => IInv
  BY InitIInv
<1>2. IInv /\ [Next]_vars => IInv'
  <2> SUFFICES ASSUME IInv, [Next]_vars
               PROVE  IInv'
    OBVIOUS
  <2>1. CASE Owner
    BY <2>1, OwnerKeeps
  <2>2. CASE Moves \/ TenMinutes
    BY <2>2, OutsideKeeps
  <2>3. CASE Bot
    BY <2>3, BotKeeps
  <2>4. CASE Restart
    BY <2>4, RestartKeeps
  <2>5. CASE UNCHANGED vars
    BY <2>5, StutterKeeps
  <2>6. QED
    BY <2>1, <2>2, <2>3, <2>4, <2>5, Zenon DEF Next
<1>3. QED
  BY <1>1, <1>2, PTL DEF Spec

-----------------------------------------------------------------------------
(***************************************************************************)
(* The commands that were refused.  A card that says so is that of a        *)
(* command that is spent, was never given to Codex, and is not on its way   *)
(* to Codex: nothing will give it to Codex later.                          *)
(***************************************************************************)

OnItsWay(v) == job.pc \in Before /\ Current.kind = "confirm" /\ VoiceOf = v

Refused(v) ==
  /\ v \in DOMAIN voices /\ voices[v].status = "executed"
  /\ RunsOf(v) = {} /\ ~OnItsWay(v)

RefusalsFit ==
  /\ \A c \in DOMAIN cards : cards[c].verdict = "refused" => Refused(cards[c].voice)
  /\ (job.pc = "edit" /\ job.answer.verdict = "refused") => Refused(VoiceOf)

\* What the cards of the owner's presses say of their voice commands stays.
CardsStand ==
  /\ \A u \in DOMAIN sent : sent'[u] = sent[u]
  /\ \A c \in DOMAIN cards : cards'[c].voice = cards[c].voice
  /\ \A c \in DOMAIN cards' :
       cards'[c].verdict = "refused" => c \in DOMAIN cards /\ cards[c].verdict = "refused"

\* A spent command stays spent.
SpentStand ==
  \A v \in DOMAIN voices :
    voices[v].status = "executed" => v \in DOMAIN voices' /\ voices'[v].status = "executed"

\* What was refused stays refused while nothing is given to Codex.
LEMMA RefusedStays ==
  ASSUME IInv, CardsStand, SpentStand, ran' = ran, NEW v, Refused(v), ~OnItsWay(v)'
  PROVE  Refused(v)'
<1>1. RunsOf(v)' = RunsOf(v)
  BY RunsStay DEF IInv, CardsStand
<1>2. QED
  BY <1>1, Zenon DEF Refused, SpentStand

\* Then the cards that say so still tell the truth.
LEMMA RefusalsKept ==
  ASSUME RefusalsFit, CardsStand, \A v : Refused(v) => Refused(v)',
         (job'.pc = "edit" /\ job'.answer.verdict = "refused") => Refused(VoiceOf)'
  PROVE  RefusalsFit'
<1>1. ASSUME NEW c \in DOMAIN cards', cards'[c].verdict = "refused"
      PROVE  Refused(cards[c].voice)'
  <2>1. PICK v : v = cards[c].voice
    OBVIOUS
  <2>2. c \in DOMAIN cards /\ Refused(v) /\ cards'[c].voice = v
    BY <1>1, <2>1, Zenon DEF CardsStand, RefusalsFit
  <2>3. QED
    BY <2>2, Zenon
<1>2. QED
  BY <1>1, Zenon DEF RefusalsFit

\* A step after which no command is on its way and no verdict is.
LEMMA QuietKeeps ==
  ASSUME IInv, RefusalsFit, CardsStand, SpentStand, ran' = ran,
         job'.pc \notin Before, job'.pc # "edit"
  PROVE  RefusalsFit'
<1>1. \A v : Refused(v) => Refused(v)'
  BY RefusedStays, Zenon DEF OnItsWay
<1>2. QED
  BY <1>1, RefusalsKept

\* Nothing but what was sent changes.
LEMMA StandStill ==
  ASSUME UNCHANGED <<cards, voices>>, \A u \in DOMAIN sent : sent'[u] = sent[u]
  PROVE  CardsStand /\ SpentStand
BY DEF CardsStand, SpentStand

\* The owner, Codex, the clock and getUpdates leave the bot's work alone.
LEMMA UntouchedRefusals ==
  ASSUME IInv, RefusalsFit, UNCHANGED <<cards, job, voices, ran>>,
         \A u \in DOMAIN sent : sent'[u] = sent[u]
  PROVE  RefusalsFit'
<1>1. cards' = cards /\ job' = job /\ voices' = voices /\ ran' = ran /\ CardsStand /\ SpentStand
  BY StandStill
<1>2. ASSUME job.pc # "idle"
      PROVE  Current' = Current /\ VoiceOf' = VoiceOf
  <2>1. job.u \in DOMAIN sent
    BY <1>2, CurrentFields DEF IInv
  <2>2. Current' = Current
    BY <1>1, <2>1, Zenon DEF Current
  <2>3. QED
    BY <1>1, <2>2, Zenon DEF VoiceOf
<1>3. ASSUME NEW v, Refused(v)
      PROVE  Refused(v)'
  <2>1. ~OnItsWay(v)'
    <3>1. SUFFICES ASSUME OnItsWay(v)'
                   PROVE  FALSE
      OBVIOUS
    <3>2. job.pc \in Before /\ job.pc # "idle"
      BY <1>1, <3>1 DEF OnItsWay, Before
    <3>3. OnItsWay(v)
      BY <1>1, <1>2, <3>1, <3>2, Zenon DEF OnItsWay
    <3>4. QED
      BY <1>3, <3>3 DEF Refused
  <2>2. QED
    BY <1>1, <1>3, <2>1, RefusedStays
<1>4. ASSUME job'.pc = "edit", job'.answer.verdict = "refused"
      PROVE  Refused(VoiceOf)'
  <2>1. PICK v : v = VoiceOf
    OBVIOUS
  <2>2. Refused(v) /\ VoiceOf' = v
    BY <1>1, <1>2, <1>4, <2>1 DEF RefusalsFit
  <2>3. Refused(v)'
    BY <1>3, <2>2
  <2>4. QED
    BY <2>2, <2>3, Zenon
<1>5. QED
  BY <1>1, <1>3, <1>4, RefusalsKept

\* A simple step goes on with the command in hand, or refuses it.
LEMMA SimpleRefusals ==
  ASSUME IInv, RefusalsFit, TypeOK', Grows, SimpleStep
  PROVE  RefusalsFit'
<1>0. TypeOK /\ SentFits /\ JobFits /\ VoicesFit
  BY Zenon DEF IInv
<1>1. /\ sent' = sent /\ cards' = cards /\ voices' = voices /\ ran' = ran
      /\ job.pc \in {"handle", "picked", "consumed", "clear"} \cup Before
      /\ job.pc # "idle"
      /\ job' = Idle \/ Passes
  BY DEF SimpleStep, Before
<1>2. CardsStand /\ SpentStand
  BY <1>1, StandStill
<1>3. CASE job' = Idle
  <2>1. job'.pc \notin Before /\ job'.pc # "edit"
    BY <1>3, IdleFields DEF Before
  <2>2. QED
    BY <1>1, <1>2, <2>1, QuietKeeps
<1>4. CASE Passes /\ job.pc # "idle"
  <2>1. Current' = Current /\ (Current.re # 0 => VoiceOf' = VoiceOf) /\ job'.u = job.u
    BY <1>0, <1>4, CurrentStays DEF Passes
  <2>2. Current.kind = "confirm" => Current.re # 0
    BY <1>0, <1>4, ConfirmFields
  <2>3. ASSUME NEW v, Refused(v)
        PROVE  Refused(v)'
    <3>1. ~OnItsWay(v)'
      <4>1. SUFFICES ASSUME OnItsWay(v)'
                     PROVE  FALSE
        OBVIOUS
      <4>2. job'.pc \in Before /\ Current.kind = "confirm" /\ VoiceOf = v
        BY <2>1, <2>2, <4>1 DEF OnItsWay
      <4>3. job.pc = "new"
        BY <1>4, <4>2 DEF Passes
      <4>4. OnItsWay(v)
        BY <4>2, <4>3 DEF OnItsWay, Before
      <4>5. QED
        BY <2>3, <4>4 DEF Refused
    <3>2. QED
      BY <1>1, <1>2, <2>3, <3>1, RefusedStays
  <2>4. ASSUME job'.pc = "edit", job'.answer.verdict = "refused"
        PROVE  Refused(VoiceOf)'
    <3>1. job.pc \in Before /\ Current.kind = "confirm"
      BY <1>4, <2>4 DEF Passes, Before
    <3>2. PICK v : v = VoiceOf
      OBVIOUS
    <3>3. v \in DOMAIN voices /\ VoiceOf' = v
      BY <1>0, <1>4, <2>1, <3>1, <3>2, ConfirmFields
    <3>4. voices[v].status = "executed" /\ RunsOf(v) = {}
      BY <1>0, <3>1, <3>2, Zenon DEF VoicesFit
    <3>5. RunsOf(v)' = RunsOf(v)
      BY <1>0, <1>1, RunsSame
    <3>6. ~OnItsWay(v)'
      BY <2>4 DEF OnItsWay, Before
    <3>7. Refused(v)'
      BY <1>1, <3>3, <3>4, <3>5, <3>6, Zenon DEF Refused
    <3>8. QED
      BY <3>3, <3>7, Zenon
  <2>5. QED
    BY <1>2, <2>3, <2>4, RefusalsKept
<1>5. QED
  BY <1>1, <1>3, <1>4

\* A command that Codex is given was not refused, and is not any more.
LEMMA GivenRefusals ==
  ASSUME IInv, RefusalsFit, job.pc \in Before, NEW t \in 0 .. Len(where), NEW r,
         r.u = job.u, ran' = Append(ran, r), UNCHANGED <<sent, cards, voices>>,
         Starts(t) \/ Fails
  PROVE  RefusalsFit'
<1>0. /\ TypeOK /\ JobFits /\ sent' = sent /\ cards' = cards /\ voices' = voices
      /\ ran' = Append(ran, r) /\ CardsStand
  BY StandStill DEF IInv
<1>1. /\ job'.pc \notin Before
      /\ job'.pc = "edit" => job'.answer.verdict # "refused"
  <2>1. Told(t)
    BY <1>0, ToldFields
  <2>2. CASE job' = Idle
    BY <2>2, IdleFields DEF Before
  <2>3. CASE job' # Idle
    BY <2>1, <2>3 DEF Told, Before
  <2>4. QED
    BY <2>2, <2>3
<1>2. ran \in Seq(RunSet(Len(sent), Len(where), life)) /\ Len(ran) \in Nat
  BY <1>0, Types, Lengths DEF Typed
<1>3. /\ \A i \in DOMAIN ran' : i \in DOMAIN ran \/ ran'[i] = r
      /\ \A i \in DOMAIN ran : i \in DOMAIN ran' /\ ran'[i] = ran[i]
  BY <1>0, <1>2
<1>4. ASSUME NEW v, Refused(v)
      PROVE  Refused(v)'
  <2>1. ~(Current.kind = "confirm" /\ VoiceOf = v)
    BY <1>4, Zenon DEF Refused, OnItsWay
  <2>2. ASSUME NEW i \in RunsOf(v)'
        PROVE  FALSE
    <3>1. i \in DOMAIN ran' /\ sent[ran'[i].u].kind = "confirm"
          /\ cards[sent[ran'[i].u].re].voice = v
      BY <1>0, <2>2, Zenon DEF RunsOf
    <3>2. CASE i \in DOMAIN ran
      <4>1. i \in RunsOf(v)
        BY <1>3, <3>1, <3>2, Zenon DEF RunsOf
      <4>2. QED
        BY <1>4, <4>1 DEF Refused
    <3>3. CASE ran'[i] = r
      BY <2>1, <3>1, <3>3, Zenon DEF Current, VoiceOf
    <3>4. QED
      BY <1>3, <3>1, <3>2, <3>3
  <2>3. RunsOf(v)' = {}
    BY <2>2
  <2>4. ~OnItsWay(v)'
    BY <1>1 DEF OnItsWay
  <2>5. QED
    BY <1>0, <1>4, <2>3, <2>4, Zenon DEF Refused
<1>5. QED
  BY <1>0, <1>1, <1>4, RefusalsKept

\* Codex gets the command, or the command is refused or fails.
LEMMA submitThreadRefusals ==
  ASSUME IInv, IInv', RefusalsFit, submitThread
  PROVE  RefusalsFit'
<1>0. /\ TypeOK /\ TypeOK' /\ JobFits /\ job.pc = "thread" /\ job.pc \in Before
      /\ UNCHANGED <<telegram, where, bot, selected, bound, routes, voices>>
      /\ sent' = sent /\ cards' = cards
  BY Zenon DEF IInv, submitThread, Before, telegram
<1>1. faults' = faults \/ Fault
  BY Zenon DEF submitThread, Run, Refuses
<1>2. job.thread \in 0 .. Len(where)
  BY <1>0, JobFields
<1>3. CASE (Fails \/ Refuses(job.thread)) /\ ran' = ran
  <2>1. Rests
    BY <1>0, <1>1, <1>3, HandlerRests, Zenon DEF telegram
  <2>2. TypeOK' /\ Grows /\ SimpleStep
    BY <1>0, <1>3, <2>1, FailsEffect, RefusesEffect
  <2>3. QED
    BY <2>2, SimpleRefusals
<1>4. ASSUME NEW r, r.u = job.u, ran' = Append(ran, r), Starts(job.thread) \/ Fails
      PROVE  RefusalsFit'
  BY <1>0, <1>2, <1>4, GivenRefusals
<1>5. CASE Run(job.thread, where[job.thread])
  <2>1. CASE Fails /\ ran' = ran
    BY <1>3, <2>1
  <2>2. CASE /\ Starts(job.thread) \/ Fails
             /\ ran' = Append(ran, [u |-> job.u, thread |-> job.thread, home |-> where[job.thread],
                                    chosen |-> selected, life |-> life])
    BY <1>4, <2>2
  <2>3. QED
    BY <1>5, <2>1, <2>2, Zenon DEF Run
<1>6. QED
  BY <1>3, <1>5, Zenon DEF submitThread, Refuses

LEMMA startLoadedTurnRefusals ==
  ASSUME IInv, IInv', RefusalsFit, startLoadedTurn
  PROVE  RefusalsFit'
<1>0. /\ TypeOK /\ TypeOK' /\ JobFits /\ job.pc = "turn" /\ job.pc \in Before
      /\ UNCHANGED <<telegram, where, bot, selected, bound, routes, voices>>
      /\ sent' = sent /\ cards' = cards
  BY Zenon DEF IInv, startLoadedTurn, Before, telegram
<1>1. faults' = faults \/ Fault
  BY Zenon DEF startLoadedTurn, Run
<1>2. job.thread \in 0 .. Len(where)
  BY <1>0, JobFields
<1>3. CASE Fails /\ ran' = ran
  <2>1. Rests
    BY <1>0, <1>1, <1>3, HandlerRests, Zenon DEF telegram
  <2>2. TypeOK' /\ Grows /\ SimpleStep
    BY <1>0, <1>3, <2>1, FailsEffect
  <2>3. QED
    BY <2>2, SimpleRefusals
<1>4. CASE /\ Starts(job.thread) \/ Fails
           /\ ran' = Append(ran, [u |-> job.u, thread |-> job.thread, home |-> job.project,
                                  chosen |-> selected, life |-> life])
  BY <1>0, <1>2, <1>4, GivenRefusals
<1>5. QED
  BY <1>3, <1>4, Zenon DEF startLoadedTurn, Run

\* A command is spent, and given to the router only when it was pending.
LEMMA VoiceCallbackRefusals ==
  ASSUME IInv, IInv', RefusalsFit, handleMinimalVoiceCallback
  PROVE  RefusalsFit'
<1> DEFINE w == VoiceOf
           mine == /\ voices[w].status = "pending" /\ voices[w].life = life
                   /\ voices[w].card = Current.re
           Executes == /\ mine /\ SettleVoice(w, "executed")
                       /\ job' = [job EXCEPT !.pc = IF voices[w].thread = 0 THEN "new" ELSE "thread",
                                             !.thread = voices[w].thread,
                                             !.project = voices[w].project]
           Spends == /\ \/ voices' = voices
                        \/ mine /\ \E s \in {"cancelled", "expired"} : SettleVoice(w, s)
                     /\ Says("cancelled") \/ Says("expired") \/ Ends
<1>0. /\ TypeOK /\ SentFits /\ JobFits /\ job.pc = "handle" /\ job.pc # "idle"
      /\ Current.kind = "confirm" /\ sent' = sent /\ cards' = cards /\ ran' = ran
  BY Zenon DEF IInv, handleMinimalVoiceCallback, Handles, telegram
<1>1. w \in DOMAIN voices /\ Current.re \in Nat /\ Current.re # 0
  BY <1>0, ConfirmFields, Lengths
<1>2. Executes \/ Spends
  BY Zenon DEF handleMinimalVoiceCallback, ConsumeVoiceConfirmation, Goes
<1>3. CardsStand
  BY <1>0, Zenon DEF CardsStand
<1>4. /\ \A v \in DOMAIN voices : voices[v].status = "executed" => voices'[v] = voices[v]
      /\ DOMAIN voices' = DOMAIN voices
  <2>1. voices' = voices \/ (mine /\ \E s : SettleVoice(w, s))
    BY <1>2, Zenon
  <2>2. ASSUME mine, NEW s, SettleVoice(w, s)
        PROVE  /\ \A v \in DOMAIN voices : voices[v].status = "executed" => voices'[v] = voices[v]
               /\ DOMAIN voices' = DOMAIN voices
    BY <2>2 DEF SettleVoice
  <2>3. QED
    BY <2>1, <2>2
<1>5. SpentStand
  BY <1>4 DEF SpentStand
<1>6. CASE Executes
  <2>1. /\ job'.pc \in {"new", "thread"} /\ job'.u = job.u
    <3>1. job \in JobSet(Len(sent), Len(cards), Len(routes), Len(voices), Len(where))
      BY <1>0, Types DEF Typed
    <3>2. QED
      BY <1>6, <3>1 DEF JobSet
  <2>2. Current' = Current /\ VoiceOf' = w
    BY <1>0, <2>1, Zenon DEF Current, VoiceOf
  <2>3. ASSUME NEW v, Refused(v)
        PROVE  Refused(v)'
    <3>1. v # w
      BY <1>6, <2>3 DEF Refused
    <3>2. ~OnItsWay(v)'
      BY <2>2, <3>1, Zenon DEF OnItsWay
    <3>3. QED
      BY <1>0, <1>3, <1>5, <2>3, <3>2, RefusedStays
  <2>4. job'.pc # "edit"
    BY <2>1
  <2>5. QED
    BY <1>3, <2>3, <2>4, RefusalsKept
<1>7. CASE Spends
  <2>1. job'.pc \notin Before /\ (job'.pc = "edit" => job'.answer.verdict # "refused")
    <3>1. CASE Ends
      BY <3>1, IdleFields DEF Ends, Before
    <3>2. ASSUME NEW d \in {"cancelled", "expired"}, Says(d)
          PROVE  job'.pc \notin Before /\ job'.answer.verdict # "refused"
      <4>1. PICK a : a = [NoAnswer EXCEPT !.edit = Current.re, !.verdict = d]
        OBVIOUS
      <4>2. a.edit = Current.re /\ a.verdict = d
        BY <4>1, Zenon DEF NoAnswer
      <4>3. job'.pc \in {"send", "edit"} /\ job'.answer = a
        <5>1. Answers(a) /\ a.edit \in Nat
          BY <1>1, <3>2, <4>1, <4>2 DEF Says
        <5>2. QED
          BY <1>0, <5>1, AnswersEffect
      <4>4. QED
        BY <4>2, <4>3 DEF Before
    <3>3. QED
      BY <1>7, <3>1, <3>2
  <2>2. \A v : Refused(v) => Refused(v)'
    BY <1>0, <1>3, <1>5, <2>1, RefusedStays, Zenon DEF OnItsWay
  <2>3. QED
    BY <1>3, <2>1, <2>2, RefusalsKept
<1>8. QED
  BY <1>2, <1>6, <1>7

\* The card that is edited is that of the command that was refused.
LEMMA editOrSendRefusals ==
  ASSUME IInv, IInv', RefusalsFit, editOrSend
  PROVE  RefusalsFit'
<1>1. PICK a : a = job.answer
  OBVIOUS
<1>0. /\ TypeOK /\ SentFits /\ JobFits /\ job.pc = "edit" /\ job.pc # "idle"
      /\ sent' = sent /\ voices' = voices /\ ran' = ran
      /\ Edited(a) \/ cards' = cards
      /\ \/ Ends
         \/ job' = [job EXCEPT !.pc = "route"]
         \/ job' = [job EXCEPT !.pc = "send"]
  BY <1>1, Zenon DEF IInv, editOrSend, Goes
<1>2. job'.pc \notin Before /\ job'.pc # "edit"
  <2>1. job \in JobSet(Len(sent), Len(cards), Len(routes), Len(voices), Len(where))
    BY <1>0, Types DEF Typed
  <2>2. CASE Ends
    BY <2>2, IdleFields DEF Ends, Before
  <2>3. CASE job' = [job EXCEPT !.pc = "route"] \/ job' = [job EXCEPT !.pc = "send"]
    BY <2>1, <2>3 DEF JobSet, Before
  <2>4. QED
    BY <1>0, <2>2, <2>3
<1>3. /\ a.edit = Current.re /\ a.edit \in DOMAIN cards
      /\ a \in AnswerSet(Len(cards), Len(routes), Len(voices), Len(where))
  <2>1. a.edit = Current.re /\ Current.kind \in {"press", "confirm"}
    BY <1>0, <1>1 DEF JobFits
  <2>2. QED
    BY <1>0, <1>1, <2>1, PressFields, ConfirmFields, JobFields
<1>4. /\ DOMAIN cards' = DOMAIN cards
      /\ \A c \in DOMAIN cards : cards'[c].voice = cards[c].voice
      /\ \A c \in DOMAIN cards :
           cards'[c] = cards[c] \/ (c = a.edit /\ cards'[c].verdict = a.verdict)
  <2>1. CASE Edited(a)
    BY <1>0, <1>3, <2>1, EditedCard
  <2>2. CASE cards' = cards
    BY <2>2
  <2>3. QED
    BY <1>0, <2>1, <2>2
<1>5. ASSUME NEW v, Refused(v)
      PROVE  Refused(v)'
  <2>1. RunsOf(v)' = RunsOf(v)
    BY <1>0, <1>4, RunsStay
  <2>2. QED
    BY <1>0, <1>2, <1>5, <2>1, Zenon DEF Refused, OnItsWay
<1>6. ASSUME NEW c \in DOMAIN cards', cards'[c].verdict = "refused"
      PROVE  Refused(cards[c].voice)'
  <2>1. PICK v : v = cards[c].voice
    OBVIOUS
  <2>2. Refused(v)
    <3>1. CASE cards'[c] = cards[c]
      BY <1>4, <1>6, <2>1, <3>1, Zenon DEF RefusalsFit
    <3>2. CASE c = a.edit /\ cards'[c].verdict = a.verdict
      BY <1>0, <1>1, <1>3, <1>6, <2>1, <3>2, Zenon DEF RefusalsFit, VoiceOf
    <3>3. QED
      BY <1>4, <1>6, <3>1, <3>2
  <2>3. Refused(v)' /\ cards'[c].voice = v
    BY <1>4, <1>5, <1>6, <2>1, <2>2
  <2>4. QED
    BY <2>3, Zenon
<1>7. QED
  BY <1>2, <1>6, Zenon DEF RefusalsFit

\* A message of a handler's answer is sent, or is given up.
LEMMA deliverRefusals ==
  ASSUME IInv, IInv', RefusalsFit, deliverDirectResponse
  PROVE  RefusalsFit'
<1>1. PICK a : a = job.answer
  OBVIOUS
<1>0. /\ TypeOK /\ VoicesFit /\ job.pc = "send" /\ sent' = sent /\ ran' = ran
      /\ cards' = cards \/ cards' = Append(cards, Card(a.buttons, a.voice, a.about, a.list))
      /\ job' = [job EXCEPT !.pc = "register", !.card = Len(cards) + 1] \/ Ends
      /\ voices' = voices \/ (a.voice # 0 /\ SettleVoice(a.voice, "failed"))
  BY <1>1, Zenon DEF IInv, deliverDirectResponse, Goes, AbandonVoiceConfirmation
<1>2. job'.pc \notin Before /\ job'.pc # "edit"
  <2>1. job \in JobSet(Len(sent), Len(cards), Len(routes), Len(voices), Len(where))
    BY <1>0, Types DEF Typed
  <2>2. CASE Ends
    BY <2>2, IdleFields DEF Ends, Before
  <2>3. CASE job' = [job EXCEPT !.pc = "register", !.card = Len(cards) + 1]
    BY <2>1, <2>3 DEF JobSet, Before
  <2>4. QED
    BY <1>0, <2>2, <2>3
<1>3. CardsStand
  <2>1. CASE cards' = cards
    BY <1>0, <2>1 DEF CardsStand
  <2>2. CASE cards' = Append(cards, Card(a.buttons, a.voice, a.about, a.list))
    <3>1. cards \in Seq(CardSet(Len(routes), Len(voices), Len(where))) /\ Len(cards) \in Nat
      BY <1>0, Types, Lengths DEF Typed
    <3>2. PICK x : x = Card(a.buttons, a.voice, a.about, a.list)
      OBVIOUS
    <3>3. x.verdict = "none"
      BY <3>2 DEF Card
    <3>4. /\ \A c \in DOMAIN cards : cards'[c] = cards[c]
          /\ \A c \in DOMAIN cards' : c \in DOMAIN cards \/ cards'[c] = x
      BY <2>2, <3>1, <3>2
    <3>5. QED
      BY <1>0, <3>3, <3>4 DEF CardsStand
  <2>3. QED
    BY <1>0, <2>1, <2>2
<1>4. SpentStand
  <2>1. CASE voices' = voices
    BY <2>1 DEF SpentStand
  <2>2. CASE a.voice # 0 /\ SettleVoice(a.voice, "failed")
    <3>1. voices[a.voice].status = "pending"
      BY <1>0, <1>1, <2>2, Zenon DEF VoicesFit
    <3>2. QED
      BY <2>2, <3>1 DEF SpentStand, SettleVoice
  <2>3. QED
    BY <1>0, <2>1, <2>2
<1>5. QED
  BY <1>0, <1>2, <1>3, <1>4, QuietKeeps

\* A message is registered, a card is routed.
LEMMA RoutedRefusals ==
  ASSUME IInv, RefusalsFit, PutMessageRoute \/ RegisterDirectDelivery
  PROVE  RefusalsFit'
<1>1. PICK e : e = IF job.pc = "route" THEN job.answer.edit ELSE job.card
  OBVIOUS
<1>0. /\ TypeOK /\ JobFits /\ SentFits /\ job.pc \in {"route", "register"} /\ job.pc # "idle"
      /\ sent' = sent /\ ran' = ran /\ job' = Idle
      /\ cards' = [cards EXCEPT ![e].routed = job.answer.about]
      /\ \/ voices' = voices
         \/ voices' = [voices EXCEPT ![job.answer.voice].card = job.card]
  BY <1>1 DEF IInv, PutMessageRoute, RegisterDirectDelivery, Ends
<1>2. job'.pc \notin Before /\ job'.pc # "edit"
  BY <1>0, IdleFields DEF Before
<1>3. CardsStand
  <2>1. /\ cards \in Seq(CardSet(Len(routes), Len(voices), Len(where)))
        /\ DOMAIN cards' = DOMAIN cards
    BY <1>0, Types DEF Typed
  <2>2. \A c \in DOMAIN cards :
          cards'[c].voice = cards[c].voice /\ cards'[c].verdict = cards[c].verdict
    BY <1>0, <2>1 DEF CardSet
  <2>3. QED
    BY <1>0, <2>1, <2>2, Zenon DEF CardsStand
<1>4. SpentStand
  <2>1. CASE voices' = voices
    BY <2>1 DEF SpentStand
  <2>2. CASE voices' = [voices EXCEPT ![job.answer.voice].card = job.card]
    <3>1. voices \in Seq(VoiceSet(Len(where), Len(cards)))
      BY <1>0, Types DEF Typed
    <3>2. DOMAIN voices' = DOMAIN voices /\ \A v \in DOMAIN voices : voices'[v].status = voices[v].status
      BY <2>2, <3>1 DEF VoiceSet
    <3>3. QED
      BY <3>2, Zenon DEF SpentStand
  <2>3. QED
    BY <1>0, <2>1, <2>2
<1>5. QED
  BY <1>0, <1>2, <1>3, <1>4, QuietKeeps

\* The owner is asked about a transcript.
LEMMA HandleVoiceRefusals ==
  ASSUME IInv, RefusalsFit, HandleVoice
  PROVE  RefusalsFit'
<1>0. /\ TypeOK /\ sent' = sent /\ cards' = cards /\ ran' = ran
  BY DEF IInv, HandleVoice, telegram
<1>1. \/ /\ voices' = voices /\ (Ends \/ minimalProjectPicker)
      \/ \E project, t : CreateVoiceConfirmation(project, t)
  BY Zenon DEF HandleVoice
<1>2. CardsStand
  BY <1>0, Zenon DEF CardsStand
<1>3. /\ SpentStand
      /\ job' = Idle \/ \E a : job' = [job EXCEPT !.pc = "send", !.answer = a]
  <2>1. ASSUME NEW project, NEW t, CreateVoiceConfirmation(project, t)
        PROVE  SpentStand /\ \E a : job' = [job EXCEPT !.pc = "send", !.answer = a]
    <3>1. voices \in Seq(VoiceSet(Len(where), Len(cards)))
      BY <1>0, Types DEF Typed
    <3>2. \A v \in DOMAIN voices : v \in DOMAIN voices' /\ voices'[v] = voices[v]
      BY <2>1, <3>1 DEF CreateVoiceConfirmation
    <3>3. PICK a : a = [NoAnswer EXCEPT !.voice = Len(voices) + 1, !.about = t]
      OBVIOUS
    <3>4. a.edit = 0
      BY <3>3, Zenon DEF NoAnswer
    <3>5. job' = [job EXCEPT !.pc = "send", !.answer = a]
      BY <2>1, <3>3, <3>4, Zenon DEF CreateVoiceConfirmation, Answers, Goes
    <3>6. QED
      BY <3>2, <3>5, Zenon DEF SpentStand
  <2>2. CASE voices' = voices /\ Ends
    BY <2>2 DEF SpentStand, Ends
  <2>3. CASE voices' = voices /\ minimalProjectPicker
    <3>1. PICK b : Answers([NoAnswer EXCEPT !.buttons = b])
      BY <2>3, Zenon DEF minimalProjectPicker, Offers
    <3>2. PICK a : a = [NoAnswer EXCEPT !.buttons = b]
      OBVIOUS
    <3>3. a.edit = 0
      BY <3>2, Zenon DEF NoAnswer
    <3>4. job' = [job EXCEPT !.pc = "send", !.answer = a]
      BY <3>1, <3>2, <3>3, Zenon DEF Answers, Goes
    <3>5. QED
      BY <2>3, <3>4, Zenon DEF SpentStand
  <2>4. QED
    BY <1>1, <2>1, <2>2, <2>3
<1>4. job'.pc \notin Before /\ job'.pc # "edit"
  <2>1. job \in JobSet(Len(sent), Len(cards), Len(routes), Len(voices), Len(where))
    BY <1>0, Types DEF Typed
  <2>2. CASE job' = Idle
    BY <2>2, IdleFields DEF Before
  <2>3. CASE \E a : job' = [job EXCEPT !.pc = "send", !.answer = a]
    BY <2>1, <2>3 DEF JobSet, Before
  <2>4. QED
    BY <1>3, <2>2, <2>3
<1>5. QED
  BY <1>0, <1>2, <1>3, <1>4, QuietKeeps

\* An update is taken in hand, and the daemon dies.
LEMMA FreshRefusals ==
  ASSUME IInv, RefusalsFit, handleUpdate \/ Restart
  PROVE  RefusalsFit'
<1>0. /\ TypeOK /\ sent' = sent /\ cards' = cards /\ ran' = ran
  BY DEF IInv, handleUpdate, Restart, telegram, history
<1>1. CardsStand
  BY <1>0, Zenon DEF CardsStand
<1>2. job'.pc \notin Before /\ job'.pc # "edit"
  <2>1. CASE handleUpdate
    BY <2>1 DEF handleUpdate, Idle, Before
  <2>2. CASE Restart
    BY <2>2, IdleFields DEF Restart, Before
  <2>3. QED
    BY <2>1, <2>2
<1>3. SpentStand
  <2>1. voices' = voices \/ voices' = RecoverVoiceConfirmations
    BY Zenon DEF handleUpdate, Restart
  <2>2. QED
    BY <2>1 DEF SpentStand, RecoverVoiceConfirmations
<1>4. QED
  BY <1>0, <1>1, <1>2, <1>3, QuietKeeps

\* No step of the bot makes a refusal a lie.
LEMMA BotRefusals ==
  ASSUME IInv, IInv', RefusalsFit, Bot
  PROVE  RefusalsFit'
<1>1. CASE GetUpdates
  <2>1. UNCHANGED <<sent, cards, job, voices, ran>>
    BY <1>1, Zenon DEF GetUpdates, history
  <2>2. QED
    BY <2>1, UntouchedRefusals, Zenon
<1>2. CASE handleUpdate
  BY <1>2, FreshRefusals
<1>3. CASE RefuseExpired
  BY <1>3, RefuseExpiredEffect, SimpleRefusals
<1>4. CASE HandleStart
  BY <1>4, HandleStartEffect, SimpleRefusals
<1>5. CASE submitReply
  BY <1>5, submitReplyEffect, SimpleRefusals
<1>6. CASE submitNew
  BY <1>6, submitNewEffect, SimpleRefusals
<1>7. CASE submitThread
  BY <1>7, submitThreadRefusals
<1>8. CASE submitNewProject
  BY <1>8, submitNewProjectEffect, SimpleRefusals
<1>9. CASE startLoadedTurn
  BY <1>9, startLoadedTurnRefusals
<1>10. CASE handleMinimalCallback
  BY <1>10, handleMinimalCallbackEffect, SimpleRefusals
<1>11. CASE ShowActions
  BY <1>11, ShowActionsEffect, SimpleRefusals
<1>12. CASE ConsumeMinimalPickerRoute
  BY <1>12, ConsumeEffect, SimpleRefusals
<1>13. CASE PickNew
  BY <1>13, PickNewEffect, SimpleRefusals
<1>14. CASE PickBack
  BY <1>14, PickBackEffect, SimpleRefusals
<1>15. CASE PickPage
  BY <1>15, PickPageEffect, SimpleRefusals
<1>16. CASE selectMinimalExistingThread
  BY <1>16, SelectEffect, SimpleRefusals
<1>17. CASE HandleVoice
  BY <1>17, HandleVoiceRefusals
<1>18. CASE handleMinimalVoiceCallback
  BY <1>18, VoiceCallbackRefusals
<1>19. CASE editOrSend
  BY <1>19, editOrSendRefusals
<1>20. CASE PutMessageRoute \/ RegisterDirectDelivery
  BY <1>20, RoutedRefusals
<1>21. CASE deliverDirectResponse
  BY <1>21, deliverRefusals
<1>22. QED
  BY <1>1, <1>2, <1>3, <1>4, <1>5, <1>6, <1>7, <1>8, <1>9, <1>10, <1>11, <1>12, <1>13, <1>14,
     <1>15, <1>16, <1>17, <1>18, <1>19, <1>20, <1>21, Zenon DEF Bot

\* At first nothing was refused.
LEMMA InitRefusals == Init => RefusalsFit
<1> SUFFICES ASSUME Init
             PROVE  RefusalsFit
  OBVIOUS
<1>1. job.pc # "edit"
  BY IdleFields DEF Init
<1>2. ASSUME NEW c \in DOMAIN cards
      PROVE  cards[c].verdict = "none"
  <2>1. CASE Empty
    BY <1>2, <2>1 DEF Empty
  <2>2. CASE InUse
    <3>1. PICK n : n = Cardinality(Projects)
      OBVIOUS
    <3>2. PICK x : x = [Card({}, 0, 1, FALSE) EXCEPT !.routed = 1]
      OBVIOUS
    <3>3. \A b, v, a, l : Card(b, v, a, l).verdict = "none"
      BY DEF Card
    <3>4. x.verdict = "none"
      BY <3>2 DEF Card
    <3>5. PICK c1 : c1 = Card(1 .. n, 0, 0, FALSE)
      OBVIOUS
    <3>6. PICK c2 : c2 = Card({n + 1, n + 2}, 0, 0, FALSE)
      OBVIOUS
    <3>7. PICK c3 : c3 = Card({n + 3, n + 4, n + 5}, 0, 0, TRUE)
      OBVIOUS
    <3>8. PICK c5 : c5 = Card({}, 1, 0, FALSE)
      OBVIOUS
    <3>9. cards = <<c1, c2, c3, x, c5>>
      BY <2>2, <3>1, <3>2, <3>5, <3>6, <3>7, <3>8 DEF InUse
    <3>10. cards[c] \in {c1, c2, c3, x, c5}
      BY <1>2, <3>9
    <3>11. /\ c1.verdict = "none" /\ c2.verdict = "none" /\ c3.verdict = "none"
           /\ c5.verdict = "none"
      BY <3>3, <3>5, <3>6, <3>7, <3>8, Zenon
    <3>12. QED
      BY <3>4, <3>10, <3>11
  <2>3. QED
    BY <2>1, <2>2 DEF Init
<1>3. QED
  BY <1>1, <1>2 DEF RefusalsFit

\* The cards that say that a command was refused tell the truth.
THEOREM Refusals == Spec => []RefusalsFit
<1>1. Init => RefusalsFit
  BY InitRefusals
<1>2. IInv /\ IInv' /\ RefusalsFit /\ [Next]_vars => RefusalsFit'
  <2> SUFFICES ASSUME IInv, IInv', RefusalsFit, [Next]_vars
               PROVE  RefusalsFit'
    OBVIOUS
  <2>1. CASE Owner
    <3>1. PICK x : Sends(x)
      BY <2>1, Zenon DEF Owner, Writes
    <3>2. /\ sent' = Append(sent, x) /\ UNCHANGED <<cards, job, voices, ran>>
      BY <3>1, Zenon DEF Sends, history
    <3>3. sent \in Seq(UpdateSet(Len(cards), Len(routes)))
      BY Types DEF IInv, Typed
    <3>4. \A u \in DOMAIN sent : sent'[u] = sent[u]
      BY <3>2, <3>3
    <3>5. QED
      BY <3>2, <3>4, UntouchedRefusals
  <2>2. CASE Moves \/ TenMinutes \/ UNCHANGED vars
    <3>1. UNCHANGED <<sent, cards, job, voices, ran>>
      BY <2>2 DEF Moves, TenMinutes, telegram, history, vars
    <3>2. QED
      BY <3>1, UntouchedRefusals, Zenon
  <2>3. CASE Bot
    BY <2>3, BotRefusals
  <2>4. CASE Restart
    BY <2>4, FreshRefusals
  <2>5. QED
    BY <2>1, <2>2, <2>3, <2>4, Zenon DEF Next
<1>3. QED
  BY <1>1, <1>2, Invariance, PTL DEF Spec

-----------------------------------------------------------------------------
(***************************************************************************)
(* What follows.                                                           *)
(***************************************************************************)

\* Between two updates, a pending voice command has a card of this life that asks for it.
LEMMA IdleFits ==
  ASSUME IInv
  PROVE  PendingVoiceHasCard
<1> SUFFICES ASSUME job = Idle, NEW v \in DOMAIN voices, voices[v].status = "pending"
             PROVE  /\ voices[v].card # 0 /\ cards[voices[v].card].voice = v
                    /\ voices[v].life = life
  BY Zenon DEF PendingVoiceHasCard
<1>1. job.answer.voice = 0
  BY IdleFields
<1>2. v # 0
  BY Lengths DEF IInv
<1>3. PendingFits(v)
  BY Zenon DEF IInv, VoicesFit
<1>4. QED
  BY <1>1, <1>2, <1>3 DEF PendingFits

\* A voice command was run once or not at all.
LEMMA RunsCount ==
  ASSUME NEW v, \A i, j \in RunsOf(v) : i = j
  PROVE  /\ Cardinality(RunsOf(v)) <= 1
         /\ RunsOf(v) # {} => Cardinality(RunsOf(v)) = 1
<1>1. CASE RunsOf(v) = {}
  BY <1>1, FS_EmptySet
<1>2. CASE RunsOf(v) # {}
  <2>1. PICK i \in RunsOf(v) : TRUE
    BY <1>2
  <2>2. RunsOf(v) = {i}
    BY <2>1
  <2>3. Cardinality(RunsOf(v)) = 1
    BY <2>2, FS_Singleton
  <2>4. QED
    BY <2>3
<1>3. QED
  BY <1>1, <1>2

\* So it is once when its card says that it was run, and not at all when it was cancelled.
LEMMA RunsOnce ==
  ASSUME IInv, RefusalsFit
  PROVE  VoiceRunsOnce
<1>1. ASSUME NEW v \in DOMAIN voices
      PROVE  /\ Cardinality(RunsOf(v)) <= 1
             /\ RunsOf(v) # {} => Cardinality(RunsOf(v)) = 1
             /\ voices[v].status = "cancelled" => RunsOf(v) = {}
  <2>1. RunsFit(v)
    BY Zenon DEF IInv, VoicesFit
  <2>2. QED
    BY <2>1, RunsCount DEF RunsFit
<1>2. ASSUME NEW c \in DOMAIN cards
      PROVE  /\ cards[c].verdict = "started" => Cardinality(RunsOf(cards[c].voice)) = 1
             /\ cards[c].verdict \in {"refused", "cancelled"} => RunsOf(cards[c].voice) = {}
  <2>1. VerdictFits(cards[c].verdict, cards[c].voice)
    BY Zenon DEF IInv, VerdictsFit
  <2>2. ASSUME cards[c].verdict \in {"started", "cancelled"}
        PROVE  cards[c].voice \in DOMAIN voices
    BY <2>1, <2>2, CardFields, Lengths DEF IInv, VerdictFits
  <2>3. cards[c].verdict = "refused" => RunsOf(cards[c].voice) = {}
    BY Zenon DEF RefusalsFit, Refused
  <2>4. QED
    BY <1>1, <2>1, <2>2, <2>3 DEF VerdictFits
<1>3. QED
  BY <1>1, <1>2, Zenon DEF VoiceRunsOnce, RunsOf

\* The tables are well typed, and between two updates every pending transcript can be
\* confirmed on a card, whatever has failed or died before.
THEOREM TypeCorrect == Spec => []VoiceInv
<1>1. IInv => VoiceInv
  BY IdleFits DEF IInv, VoiceInv
<1>2. QED
  BY <1>1, Invariance, PTL

\* Texts run in the conversation they reply to, or in the selected working folder.
THEOREM Meant == Spec => []TextsRunWhereMeant
<1>1. IInv => TextsRunWhereMeant
  BY DEF IInv
<1>2. QED
  BY <1>1, Invariance, PTL

\* One life of the daemon runs an update once.
THEOREM OncePerLife == Spec => []UpdateRunsOnce
<1>1. IInv => UpdateRunsOnce
  BY DEF IInv
<1>2. QED
  BY <1>1, Invariance, PTL

\* All lives together run a voice command once, and its card tells the truth: it says that a
\* turn was started only when Codex was given the command, and that the command was cancelled,
\* refused or queued only when Codex was not.
THEOREM VoiceOnce == Spec => []VoiceRunsOnce
<1>1. IInv /\ RefusalsFit => VoiceRunsOnce
  BY RunsOnce
<1>2. QED
  BY <1>1, Invariance, Refusals, PTL

\* A list of conversations is never empty.
THEOREM PagesShow == Spec => []PageShowsThreads
<1>1. IInv => PageShowsThreads
  BY Zenon DEF IInv, ListsFit, PageShowsThreads, HasSelect
<1>2. QED
  BY <1>1, Invariance, PTL
=============================================================================
