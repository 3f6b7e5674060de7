------------------------ MODULE LinkedHandoffProofs ------------------------
(***************************************************************************)
(* Safety of a linked thread and the refinement of Handoff, for every       *)
(* number of workers, turns, replies, failures and restarts.               *)
(***************************************************************************)
EXTENDS LinkedHandoff, FiniteSetTheorems, WellFoundedInduction, SequenceTheorems, TLAPS

-----------------------------------------------------------------------------
(***************************************************************************)
(* The inductive invariant.                                                *)
(***************************************************************************)

\* Workers are numbered one after the other, also those of earlier lives of the daemon;
\* an unused one is blank.
Blank(p) == p.gen = 0 => ~p.open /\ ~p.alive /\ ~p.worked

ManagerInv ==
  /\ lastGen <= Cardinality(Workers \ Unused)
  /\ \A w \in Workers : Blank(procs[w])

\* What a goroutine does at its pc.
Sees == {"touch", "lock", "settle", "claim", "enqueue", "release", "finish"}
Forks == {"worker", "fork", "activate"}
Opens == {"acquire", "resume", "take"}
Starts == {"turn", "persist", "mark"}
UnderLock == {"settle", "claim", "enqueue", "release", "closeany", "finish", "drain",
              "next", "queued", "giveback", "acquire", "resume", "take"}

At(a, pcs) == act[a].pc \in pcs

\* An observer has seen a turn of the fork.
SeesTurn(a) == At(a, Sees) => act[a].turn \in DOMAIN turns

\* A goroutine that carries a claimed command through a start.
Carrying == {"queued", "acquire", "resume", "take", "turn", "persist", "mark",
             "complete", "abort", "giveback"}
Carries(a) == At(a, Carrying) /\ act[a].cmd # 0

\* The queue is drained and its commands are started under the lock; a fork and the
\* first turn of the link are not.
HoldsLock(a) == At(a, UnderLock) \/ Carries(a) => lock = a

\* Only the bot forks, and only while there is no link; a turn is opened only while the
\* link is ready, and started only while the link is taken for it.
LinkFits(a) ==
  /\ At(a, Forks) => a = Bot /\ link.state = "none"
  /\ At(a, {"worker", "fork"}) => turns = <<>>
  /\ At(a, {"activate"}) => turns # <<>>
  /\ At(a, Opens) => link.state = "ready"
  /\ At(a, Starts) => /\ link.state = "running" /\ link.turn = 0
                      /\ act[a].worker \in Workers
                      /\ link.gen = procs[act[a].worker].gen
  /\ At(a, {"turn"}) => ~procs[act[a].worker].worked
  /\ At(a, {"abort"}) => /\ link.state \in {"none", "ready", "failed"}
                         /\ link.state = "ready" => lock = a
                         /\ link.state = "none" => a = Bot

\* The worker of a goroutine that opens or starts a turn: without a turn so far, and
\* registered unless an observer of the fork has closed it already.
WorkerFits(a) ==
  /\ At(a, {"resume", "take", "fork", "activate"}) =>
       /\ act[a].worker \in Workers
       /\ procs[act[a].worker].gen # 0 /\ ~procs[act[a].worker].worked
  /\ At(a, {"resume", "take", "activate"} \cup Starts) =>
       confirmed = 0 /\ registry \in {act[a].worker, None}

\* A process that ran a turn and lives.
Lives(w) == procs[w].worked /\ procs[w].alive

\* Whoever may hand the thread back knows that nothing runs it any more.
FinisherIsSafe(a) ==
  At(a, {"finish"}) /\ Finishable(act[a].turn) => \A w \in Workers : ~Lives(w)

\* An orphaned link is neither opened nor handed back.
KeepsOffOrphan(a) ==
  orphaned => ~At(a, Forks \cup Opens \cup Starts \cup {"finish"})

Fits(a) ==
  /\ SeesTurn(a) /\ HoldsLock(a) /\ LinkFits(a) /\ WorkerFits(a)
  /\ FinisherIsSafe(a) /\ KeepsOffOrphan(a)

\* The turn a link was taken for is being started by one goroutine.
OneStarter == \A a, b \in Actors : At(a, Starts) /\ At(b, Starts) => a = b

\* A process that ran a turn and lives belongs to the link, and nobody has confirmed its
\* end.  (Unless the link has failed, or was orphaned by a restart.)
WorkedBelongsToLink ==
  \A w \in Workers :
    Lives(w) =>
      \/ link.state = "failed" \/ orphaned
      \/ /\ link.state \in {"running", "pending"} /\ procs[w].gen = link.gen
         /\ registry \in {w, None} /\ confirmed # link.gen

\* After a restart that orphaned the link nobody can confirm the end of its worker.
OrphanIsLost ==
  orphaned => link.state \in {"pending", "failed"} /\ registry = None /\ confirmed = 0

\* A release is pending for the worker that the link was taken by, after its event was
\* stored.
LinkIsNumbered == link.state \in {"running", "pending"} => link.gen # 0
PendingIsStored == link.state = "pending" /\ ~orphaned => link.turn \in outbox

\* Nobody has the fork loaded before it exists.
ForkExists == writer # None \/ link.state # "none" => turns # <<>>

ControlInv ==
  /\ \A a \in Actors : Fits(a)
  /\ ForkExists /\ OneStarter /\ WorkedBelongsToLink /\ OrphanIsLost /\ LinkIsNumbered /\ PendingIsStored

\* Only the last turn can be unfinished, and then its process is there.
LastTurnRuns ==
  /\ writer \in Workers => procs[writer].alive
  /\ \A t \in DOMAIN turns :
       turns[t] # "over" => /\ t = Len(turns) /\ writer # None
                            /\ writer \in Workers => procs[writer].worked

\* A turn that a worker started is over or still belongs to a worker.
RunsOrOver(t) == t \in DOMAIN turns /\ (turns[t] = "over" \/ writer \in Workers)

WorkerTurns ==
  /\ link.turn # 0 => RunsOrOver(link.turn)
  /\ \A a \in Actors : At(a, {"persist", "mark"}) => RunsOrOver(act[a].turn)

NoticesAreOver ==
  \A t \in notices : t \in outbox /\ t \in DOMAIN turns /\ turns[t] = "over"

TurnsInv == LastTurnRuns /\ WorkerTurns /\ NoticesAreOver

\* Codex was given prompt p.
Ran(p) == \E k \in DOMAIN started : started[k] = p

\* Replies are numbered; a command waits for one of them.
PromptsDistinct ==
  /\ \A i \in DOMAIN cmds : cmds[i].prompt <= replies
  /\ \A k \in DOMAIN started : started[k] <= replies
  /\ \A i, j \in DOMAIN cmds : cmds[i].prompt = cmds[j].prompt => i = j

\* The bot has not used the reply it is about yet.
ReplyIsFresh ==
  ~At(Bot, {"idle"}) /\ ~(act[Bot].cmd = 0 /\ At(Bot, {"persist", "mark", "complete", "abort"}))
    => replies # 0 /\ ~Ran(replies) /\ \A i \in DOMAIN cmds : cmds[i].prompt # replies

\* Only the bot starts a turn for a reply itself; a claimed command was given to Codex
\* exactly when the goroutine that carries it thinks so.
CommandFits(a) ==
  /\ At(a, {"idle", "read", "enter"} \cup Forks) => act[a].cmd = 0
  /\ At(a, {"queued", "giveback"}) \/ (a # Bot /\ At(a, Carrying)) => act[a].cmd # 0
  /\ Carries(a) =>
       /\ act[a].cmd \in DOMAIN cmds /\ cmds[act[a].cmd].status = "claimed"
       /\ (At(a, {"queued", "turn"} \cup Opens) \/ (At(a, {"abort", "giveback"}) /\ ~act[a].failed))
            => ~Ran(cmds[act[a].cmd].prompt)
       /\ At(a, {"persist", "mark", "complete"}) => Ran(cmds[act[a].cmd].prompt)

CommandsInv ==
  /\ PromptsDistinct /\ ReplyIsFresh /\ QueueIsHonest /\ StartedOnce
  /\ \A a \in Actors : CommandFits(a)

IInv == TypeOK /\ ManagerInv /\ ControlInv /\ TurnsInv /\ CommandsInv

-----------------------------------------------------------------------------
(***************************************************************************)
(* Types and generations.                                                  *)
(***************************************************************************)
\* What a goroutine carries has its type.
LEMMA ActFields ==
  ASSUME ActsOK, NEW a \in Actors
  PROVE  /\ act[a] \in Acts /\ act[a].pc \in Pcs
         /\ act[a].turn \in 0 .. MaxTurns /\ act[a].cmd \in Nat
         /\ act[a].worker \in Workers \cup {None} /\ act[a].failed \in BOOLEAN
BY DEF ActsOK, Acts

\* An idle goroutine is well typed.
LEMMA IdleTyped ==
  ASSUME NEW pc \in Pcs
  PROVE  [Idle EXCEPT !.pc = pc] \in Acts /\ Idle \in Acts
<1>1. Idle \in Acts
  BY BoundsAssumption DEF Idle, Acts, Pcs
<1>2. QED
  BY <1>1 DEF Acts

\* Going on at another pc keeps the types.
LEMMA GotoTyped ==
  ASSUME ActsOK, NEW a \in Actors, NEW pc \in Pcs, Goto(a, pc)
  PROVE  ActsOK'
BY DEF ActsOK, Goto, Acts

\* Leaving the observation keeps the types.
LEMMA LeaveTyped ==
  ASSUME ActsOK, NEW a \in Actors, Leave(a)
  PROVE  ActsOK'
<1>1. [Idle EXCEPT !.pc = IF a = Bot THEN "enter" ELSE "idle"] \in Acts
  BY IdleTyped DEF Pcs
<1>2. QED
  BY <1>1 DEF ActsOK, Leave

\* Answering the owner keeps the types.
LEMMA AnsweredTyped ==
  ASSUME ActsOK, Answered
  PROVE  ActsOK'
<1>1. Idle \in Acts
  BY IdleTyped DEF Pcs
<1>2. QED
  BY <1>1 DEF ActsOK, Answered, Actors

\* Going to the release of what was acquired keeps the types.
LEMMA NotStartedTyped ==
  ASSUME ActsOK, NEW a \in Actors, NotStarted(a)
  PROVE  ActsOK'
BY DEF ActsOK, NotStarted, Acts, Pcs

\* A fault is counted.
LEMMA FaultTyped ==
  ASSUME HistoryOK, Fault, UNCHANGED history
  PROVE  HistoryOK'
BY BoundsAssumption DEF HistoryOK, Fault, history

\* The end of a process changes no turn but the last, and that one only to "over".
LEMMA StoppedTurns ==
  ASSUME CodexOK, NEW w
  PROVE  /\ Stopped(w) \in Seq({"running", "answered", "over"})
         /\ Len(Stopped(w)) = Len(turns) /\ DOMAIN Stopped(w) = DOMAIN turns
         /\ \A t \in DOMAIN turns : Stopped(w)[t] \in {turns[t], "over"}
         /\ \A t \in DOMAIN turns : turns[t] = "over" => Stopped(w)[t] = "over"
         /\ writer = w => \A t \in DOMAIN turns : t = Len(turns) => Stopped(w)[t] = "over"
BY DEF CodexOK, Stopped

\* The manager stays sound while no process is started.
LEMMA SameGenerations ==
  ASSUME ManagerOK, ManagerInv, lastGen' = lastGen,
         \A w \in Workers : procs'[w].gen = procs[w].gen /\ Blank(procs'[w])
  PROVE  ManagerInv'
<1>1. Unused' = Unused
  BY DEF Unused
<1>2. QED
  BY <1>1 DEF ManagerInv

\* Nothing about the processes changes.
LEMMA ManagerUnchanged ==
  ASSUME ManagerOK, ManagerInv, UNCHANGED <<procs, registry, confirmed, lastGen>>
  PROVE  ManagerOK' /\ ManagerInv'
BY DEF ManagerOK, Processes, ManagerInv, Unused, Blank

\* Starting a process numbers it above all others.
LEMMA AcquiredTyped ==
  ASSUME TypeOK, ManagerInv, NEW a \in Actors, NEW pc \in Pcs, NEW bound \in BOOLEAN,
         Acquired(a, NewWorker, bound, pc)
  PROVE  /\ CodexOK' /\ ManagerOK' /\ ManagerInv' /\ ActsOK'
         /\ NewWorker \in Unused
<1> DEFINE w == NewWorker
<1>1. w \in Unused /\ w \in Workers
  BY DEF Acquired, NewWorker, Unused
<1>2. IsFiniteSet(Workers) /\ IsFiniteSet(Workers \ Unused)
  BY WorkersAssumption, FS_Subset, Workers \ Unused \subseteq Workers
<1>3. procs' = [procs EXCEPT ![w] = [gen |-> lastGen + 1, open |-> TRUE,
                                    alive |-> TRUE, worked |-> FALSE]]
  BY DEF Acquired
<1>4. Workers \ Unused' = (Workers \ Unused) \cup {w}
  BY <1>1, <1>3 DEF Unused, TypeOK, ManagerOK, Processes
<1>5. /\ Cardinality(Workers \ Unused) \in Nat
      /\ Cardinality((Workers \ Unused) \cup {w}) = Cardinality(Workers \ Unused) + 1
  BY <1>1, <1>2, FS_AddElement, FS_CardinalityType
<1>6. Cardinality(Workers) \in Nat
  BY <1>2, FS_CardinalityType
<1>7. Cardinality(Workers \ Unused') <= Cardinality(Workers)
  <2>1. Workers \ Unused' \subseteq Workers
    OBVIOUS
  <2>2. QED
    BY <1>2, <2>1, FS_Subset
<1>8. lastGen + 1 \in 1 .. Cardinality(Workers) /\ lastGen + 1 <= Cardinality(Workers \ Unused')
  <2>1. Cardinality(Workers \ Unused') = Cardinality(Workers \ Unused) + 1
    BY <1>4, <1>5
  <2>2. lastGen \in Nat /\ lastGen <= Cardinality(Workers \ Unused)
    BY <1>6 DEF TypeOK, ManagerOK, Processes, ManagerInv
  <2>3. QED
    BY <1>5, <1>6, <1>7, <2>1, <2>2
<1>9. ManagerOK'
  BY <1>1, <1>3, <1>6, <1>8 DEF TypeOK, ManagerOK, Processes, Acquired
<1>10. ManagerInv'
  BY <1>1, <1>3, <1>8 DEF TypeOK, ManagerOK, Processes, ManagerInv, Blank, Acquired
<1>11. ActsOK'
  BY <1>1 DEF TypeOK, ActsOK, Acts, Acquired
<1>12. CodexOK'
  BY DEF TypeOK, CodexOK, Acquired, codex
<1>13. QED
  BY <1>1, <1>9, <1>10, <1>11, <1>12

\* Closing a worker keeps the types, whether its end is confirmed or not.
LEMMA CloseTyped ==
  ASSUME TypeOK, ManagerInv, NEW w \in Workers, NEW receipt \in 0 .. Cardinality(Workers),
         Close(w, receipt), UNCHANGED history
  PROVE  CodexOK' /\ ManagerOK' /\ ManagerInv' /\ HistoryOK'
<1> USE DEF TypeOK
<1>1. ManagerOK'
  BY DEF ManagerOK, Processes, Close
<1>2. \A v \in Workers : procs'[v].gen = procs[v].gen /\ Blank(procs'[v])
  BY DEF ManagerOK, Processes, ManagerInv, Close, Blank
<1>3. ManagerInv'
  BY <1>2, SameGenerations DEF Close
<1>4. CodexOK'
  BY StoppedTurns DEF CodexOK, Close, codex
<1>5. HistoryOK'
  BY FaultTyped DEF Close, HistoryOK, history, budget
<1>6. QED
  BY <1>1, <1>3, <1>4, <1>5


\* The parts of the state that a step leaves alone keep their types.
LEMMA PartsUnchanged ==
  /\ CodexOK /\ UNCHANGED codex => CodexOK'
  /\ StoreOK /\ UNCHANGED store => StoreOK'
  /\ HistoryOK /\ UNCHANGED <<history, budget>> => HistoryOK'
BY DEF CodexOK, StoreOK, HistoryOK, codex, store, history, budget

\* A goroutine that goes on with another outcome keeps its type.
LEMMA OutcomeTyped ==
  ASSUME ActsOK, NEW a \in Actors, NEW pc \in Pcs, NEW failed \in BOOLEAN,
         act' = [act EXCEPT ![a].pc = pc, ![a].failed = failed]
  PROVE  act' \in [Actors -> Acts]
BY DEF ActsOK, Acts

\* So does one that claims a command.
LEMMA ClaimingTyped ==
  ASSUME ActsOK, NEW a \in Actors, NEW pc \in Pcs, NEW i \in Nat, NEW failed \in BOOLEAN,
         act' = [act EXCEPT ![a].cmd = i, ![a].pc = pc, ![a].failed = failed]
  PROVE  act' \in [Actors -> Acts]
BY DEF ActsOK, Acts

\* The stored forms of a link.
LEMMA LinkForms ==
  /\ \A l \in Links : /\ l.state \in LinkStates /\ l.gen \in 0 .. Cardinality(Workers)
                      /\ l.turn \in 0 .. MaxTurns
  /\ \A s \in LinkStates, g \in 0 .. Cardinality(Workers), t \in 0 .. MaxTurns :
       [state |-> s, gen |-> g, turn |-> t] \in Links
  /\ \A l \in Links, s \in LinkStates : [l EXCEPT !.state = s] \in Links
  /\ \A l \in Links, t \in 0 .. MaxTurns : [l EXCEPT !.turn = t] \in Links
  /\ \A l \in Links, s \in LinkStates, t \in 0 .. MaxTurns :
       [l EXCEPT !.state = s, !.turn = t] \in Links
BY DEF Links

\* Zero is a turn number and a generation: none.
LEMMA ZeroTyped ==
  0 \in 0 .. MaxTurns /\ 0 \in 0 .. Cardinality(Workers)
BY BoundsAssumption, WorkersAssumption, FS_CardinalityType

\* A link that fails is still a link.
LEMMA FailLinkTyped ==
  ASSUME link \in Links, NEW gen, FailLink(gen)
  PROVE  link' \in Links
<1>1. [link EXCEPT !.state = "failed", !.turn = 0] \in Links
  BY LinkForms, ZeroTyped DEF LinkStates
<1>2. QED
  BY <1>1 DEF FailLink

\* What an observer stores is an observation.
LEMMA ObservationForms ==
  /\ \A t \in 0 .. MaxTurns, o \in BOOLEAN : [turn |-> t, over |-> o] \in Observations
  /\ \A x \in Observations, o \in BOOLEAN : [x EXCEPT !.over = o] \in Observations
BY DEF Observations

\* What Observed stores is an observation.
LEMMA ObservedTyped ==
  ASSUME obs \in Observations, NEW t \in 0 .. MaxTurns, Observed(t)
  PROVE  obs' \in Observations
<1>1. CASE obs' = [turn |-> t, over |-> FALSE]
  BY <1>1, ObservationForms
<1>2. CASE UNCHANGED obs
  BY <1>2
<1>3. QED
  BY <1>1, <1>2 DEF Observed

\* A command whose status changes is still one, and no other command changes.
LEMMA CommandTyped ==
  ASSUME NEW c \in Commands, NEW s \in Statuses
  PROVE  [c EXCEPT !.status = s] \in Commands
BY DEF Commands

\* A command with another status is a command.
LEMMA StatusTyped ==
  ASSUME cmds \in Seq(Commands), NEW i, NEW s \in Statuses
  PROVE  [cmds EXCEPT ![i].status = s] \in Seq(Commands)
<1>1. CASE i \in DOMAIN cmds
  <2>1. [cmds[i] EXCEPT !.status = s] \in Commands
    BY <1>1, CommandTyped
  <2>2. QED
    BY <1>1, <2>1
<1>2. CASE i \notin DOMAIN cmds
  <2>1. [cmds EXCEPT ![i].status = s] = cmds
    BY <1>2
  <2>2. QED
    BY <2>1
<1>3. QED
  BY <1>1, <1>2

\* A nonempty set of numbers has a least one.
LEMMA LeastNumber ==
  ASSUME NEW S, S \subseteq Nat, S # {}
  PROVE  \E m \in S : \A j \in S : m <= j
<1> DEFINE R == OpToRel(<, Nat)
<1>1. IsWellFoundedOn(R, Nat)
  BY NatLessThanWellFounded
<1> HIDE DEF R
<1>2. PICK m \in S : \A j \in S : ~(<<j, m>> \in R)
  BY <1>1, WFMin
<1>3. \A j \in S : ~(j < m)
  BY <1>2 DEF R, OpToRel
<1>4. QED
  BY <1>3

\* The oldest waiting command, if one waits.
LEMMA OldestWaits ==
  ASSUME StoreOK, Waiting # {}
  PROVE  LET i == CHOOSE i \in Waiting : \A j \in Waiting : i <= j
         IN  i \in Waiting /\ i \in DOMAIN cmds /\ i \in Nat \ {0}
<1>1. Waiting \subseteq Nat \ {0} /\ Waiting \subseteq DOMAIN cmds
  BY DEF Waiting, StoreOK
<1>2. \E i \in Waiting : \A j \in Waiting : i <= j
  BY <1>1, LeastNumber
<1>3. QED
  BY <1>1, <1>2

\* The worker and the prompt of a turn that is started.
LEMMA StarterTyped ==
  ASSUME IInv, NEW a \in Actors, act[a].pc = "turn"
  PROVE  act[a].worker \in Workers /\ Prompt(a) \in 1 .. MaxReplies
<1> USE DEF IInv, ControlInv, At
<1>1. act[a].worker \in Workers
  BY DEF Fits, LinkFits, Starts
<1>2. CASE act[a].cmd = 0
  <2>1. a = Bot /\ replies # 0
    BY <1>2 DEF CommandsInv, CommandFits, ReplyIsFresh, Carrying
  <2>2. QED
    BY <1>1, <1>2, <2>1 DEF Prompt, TypeOK, HistoryOK
<1>3. CASE act[a].cmd # 0
  <2>1. act[a].cmd \in DOMAIN cmds
    BY <1>3 DEF CommandsInv, CommandFits, Carries, Carrying
  <2>2. cmds[act[a].cmd] \in Commands
    BY <2>1 DEF TypeOK, StoreOK
  <2>3. QED
    BY <1>1, <1>3, <2>2 DEF Prompt, Commands
<1>4. QED
  BY <1>2, <1>3

\* A turn that Codex starts is one more turn and one more prompt.
LEMMA TurnStartedTyped ==
  ASSUME TypeOK, ManagerInv, NEW a \in Actors, act[a].worker \in Workers,
         Prompt(a) \in 1 .. MaxReplies, TurnStarted(a),
         UNCHANGED <<writer, registry, confirmed, lastGen, replies, orphaned, restarts>>,
         faults' \in 0 .. MaxFaults
  PROVE  CodexOK' /\ ManagerOK' /\ ManagerInv' /\ HistoryOK'
<1> USE DEF TypeOK, TurnStarted
<1>1. CodexOK'
  <2>1. turns' = Append(turns, "running") /\ Len(turns) < MaxTurns /\ writer' = writer
    OBVIOUS
  <2>2. QED
    BY <2>1, BoundsAssumption DEF CodexOK
<1>2. ManagerOK'
  BY DEF ManagerOK, Processes
<1>3. \A w \in Workers : procs'[w].gen = procs[w].gen /\ Blank(procs'[w])
  BY DEF ManagerOK, Processes, ManagerInv, Blank
<1>4. ManagerInv'
  BY <1>3, SameGenerations
<1>5. HistoryOK'
  BY DEF HistoryOK
<1>6. QED
  BY <1>1, <1>2, <1>4, <1>5

\* Observing the thread keeps the types.
LEMMA ObserveTyped ==
  ASSUME IInv, NEW a \in Actors, Observe(a)
  PROVE  TypeOK' /\ ManagerInv'
<1> USE BoundsAssumption, NamesAssumption DEF IInv, TypeOK
<1>1. CASE Touch(a)
  <2>1. ActsOK'
    BY <1>1, LeaveTyped DEF Touch
  <2>2. StoreOK'
    BY <1>1, ActFields, ObservedTyped DEF Touch, StoreOK
  <2>3. QED
    BY <1>1, <2>1, <2>2, PartsUnchanged, ManagerUnchanged
    DEF Touch, codex, manager, store, history, budget
<1>2. CASE LockTerminal(a)
  <2>1. ActsOK'
    BY <1>2, LeaveTyped DEF LockTerminal, ActsOK, Acts, Pcs
  <2>2. QED
    BY <1>2, <2>1, PartsUnchanged, ManagerUnchanged
    DEF LockTerminal, codex, manager, store, history, budget
<1>3. CASE SettleRow(a)
  <2>1. ActsOK'
    BY <1>3, LeaveTyped, GotoTyped DEF SettleRow, Pcs
  <2>2. StoreOK'
    BY <1>3, ObservedTyped, ZeroTyped DEF SettleRow, StoreOK
  <2>3. QED
    BY <1>3, <2>1, <2>2, PartsUnchanged, ManagerUnchanged
    DEF SettleRow, codex, manager, store, history, budget
<1>4. CASE ClaimTerminal(a)
  <2>1. ActsOK'
    BY <1>4, LeaveTyped, GotoTyped DEF ClaimTerminal, Pcs
  <2>2. StoreOK'
    BY <1>4, ActFields, ObservationForms DEF ClaimTerminal, StoreOK
  <2>3. QED
    BY <1>4, <2>1, <2>2, PartsUnchanged, ManagerUnchanged
    DEF ClaimTerminal, codex, manager, store, history, budget
<1>5. CASE EnqueueTerminal(a)
  <2>0. act[a].turn \in TurnIds
    BY <1>5 DEF EnqueueTerminal, ControlInv, Fits, SeesTurn, At, Sees, TurnIds, CodexOK
  <2>1. ActsOK'
    BY <1>5, GotoTyped DEF EnqueueTerminal, Pcs
  <2>2. StoreOK'
    BY <1>5, <2>0, LinkForms DEF EnqueueTerminal, Enqueued, LinkStates, StoreOK
  <2>3. QED
    BY <1>5, <2>1, <2>2, PartsUnchanged, ManagerUnchanged
    DEF EnqueueTerminal, codex, manager, store, history, budget
<1>6. CASE EnqueueFails(a)
  <2>1. ActsOK'
    BY <1>6, LeaveTyped DEF EnqueueFails
  <2>2. StoreOK'
    BY <1>6, ObservationForms DEF EnqueueFails, StoreOK
  <2>3. QED
    BY <1>6, <2>1, <2>2, PartsUnchanged, ManagerUnchanged, FaultTyped
    DEF EnqueueFails, codex, manager, store, history, budget
<1>7. CASE NothingToRelease(a)
  <2>1. ActsOK'
    BY <1>7, GotoTyped DEF NothingToRelease, Pcs
  <2>2. QED
    BY <1>7, <2>1, PartsUnchanged, ManagerUnchanged
    DEF NothingToRelease, codex, manager, store, history, budget
<1>8. CASE ReleaseLinked(a)
  <2>1. ActsOK'
    BY <1>8, LeaveTyped, GotoTyped DEF ReleaseLinked, Pcs
  <2>2. StoreOK'
    BY <1>8, FailLinkTyped DEF ReleaseLinked, StoreOK
  <2>3. QED
    BY <1>8, <2>1, <2>2, PartsUnchanged, ManagerUnchanged, CloseTyped, LinkForms
    DEF ReleaseLinked, Registered, StoreOK, codex, manager, store, history, budget
<1>9. CASE CloseRegistered(a)
  <2>1. ActsOK'
    BY <1>9, LeaveTyped, GotoTyped DEF CloseRegistered, Pcs
  <2>2. QED
    BY <1>9, <2>1, PartsUnchanged, ManagerUnchanged, CloseTyped, ZeroTyped
    DEF CloseRegistered, ManagerOK, Processes, codex, manager, store, history, budget
<1>10. CASE FinishRelease(a)
  <2>1. ActsOK'
    BY <1>10, LeaveTyped, GotoTyped DEF FinishRelease, Pcs
  <2>2. StoreOK'
    <3>1. [state |-> "ready", gen |-> 0, turn |-> 0] \in Links
      BY LinkForms, ZeroTyped DEF LinkStates
    <3>2. Finishable(act[a].turn) => act[a].turn \in TurnIds
      BY ActFields DEF Finishable, TurnIds
    <3>3. QED
      BY <1>10, <3>1, <3>2 DEF FinishRelease, HandBack, StoreOK
  <2>3. ManagerOK'
    BY <1>10, ZeroTyped DEF FinishRelease, HandBack, ManagerOK, Processes, manager
  <2>4. ManagerInv'
    BY <1>10 DEF FinishRelease, HandBack, ManagerInv, Unused, Blank, manager
  <2>5. QED
    BY <1>10, <2>1, <2>2, <2>3, <2>4, PartsUnchanged DEF FinishRelease
<1>11. CASE FinishFails(a)
  <2>1. ActsOK'
    BY <1>11, LeaveTyped DEF FinishFails
  <2>2. QED
    BY <1>11, <2>1, PartsUnchanged, ManagerUnchanged, FaultTyped
    DEF FinishFails, codex, manager, store, history, budget
<1>12. QED
  BY <1>1, <1>2, <1>3, <1>4, <1>5, <1>6, <1>7, <1>8, <1>9, <1>10, <1>11 DEF Observe

\* Draining the queue keeps the types.
LEMMA QueueTyped ==
  ASSUME IInv, NEW a \in Actors, Queue(a)
  PROVE  TypeOK' /\ ManagerInv'
<1> USE BoundsAssumption, NamesAssumption DEF IInv, TypeOK
<1>1. CASE Drain(a)
  <2>1. ActsOK'
    BY <1>1, LeaveTyped, GotoTyped DEF Drain, Pcs
  <2>2. QED
    BY <1>1, <2>1, PartsUnchanged, ManagerUnchanged
    DEF Drain, codex, manager, store, history, budget
<1>2. CASE NextCommand(a)
  <2>1. ActsOK'
    <3>1. CASE Waiting = {} \/ Blocked
      BY <1>2, <3>1, LeaveTyped DEF NextCommand
    <3>2. CASE ~(Waiting = {} \/ Blocked)
      <4> DEFINE i == CHOOSE i \in Waiting : \A j \in Waiting : i <= j
      <4>1. i \in Nat
        BY <3>2, OldestWaits
      <4>2. act' = [act EXCEPT ![a].cmd = i, ![a].pc = "queued", ![a].failed = FALSE] /\ UNCHANGED lock
        BY <1>2, <3>2 DEF NextCommand
      <4> HIDE DEF i
      <4>3. QED
        BY <4>1, <4>2, ClaimingTyped DEF ActsOK, Pcs
    <3>3. QED
      BY <3>1, <3>2
  <2>2. StoreOK'
    <3>1. cmds' = cmds \/ \E i : cmds' = [cmds EXCEPT ![i].status = "claimed"]
      BY <1>2 DEF NextCommand
    <3>2. cmds' \in Seq(Commands)
      BY <3>1, StatusTyped DEF StoreOK, Statuses
    <3>3. QED
      BY <1>2, <3>2 DEF NextCommand, StoreOK
  <2>3. QED
    BY <1>2, <2>1, <2>2, PartsUnchanged, ManagerUnchanged
    DEF NextCommand, codex, manager, store, history, budget
<1>3. CASE StartQueued(a)
  <2>1. ActsOK'
    <3>1. (IF link.state = "ready" THEN "acquire" ELSE "giveback") \in Pcs
      BY DEF Pcs
    <3>2. (link.state = "failed") \in BOOLEAN
      OBVIOUS
    <3>3. QED
      BY <1>3, <3>1, <3>2, OutcomeTyped DEF StartQueued, ActsOK
  <2>2. QED
    BY <1>3, <2>1, PartsUnchanged, ManagerUnchanged
    DEF StartQueued, codex, manager, store, history, budget
<1>4. CASE GiveBack(a)
  <2>1. ActsOK'
    BY <1>4, LeaveTyped, GotoTyped DEF GiveBack, Pcs
  <2>2. StoreOK'
    BY <1>4, StatusTyped DEF GiveBack, Statuses, StoreOK
  <2>3. QED
    BY <1>4, <2>1, <2>2, PartsUnchanged, ManagerUnchanged, FaultTyped
    DEF GiveBack, codex, manager, store, history, budget
<1>5. QED
  BY <1>1, <1>2, <1>3, <1>4 DEF Queue

\* Starting a turn keeps the types.
LEMMA StartTyped ==
  ASSUME IInv, NEW a \in Actors, Start(a)
  PROVE  TypeOK' /\ ManagerInv'
<1> USE BoundsAssumption, NamesAssumption DEF IInv, TypeOK
<1>1. CASE Acquire(a)
  <2>1. ActsOK'
    BY <1>1, AcquiredTyped DEF Acquire, Pcs
  <2>2. QED
    BY <1>1, <2>1, PartsUnchanged, ManagerUnchanged, AcquiredTyped
    DEF Acquire, Pcs, codex, manager, store, history, budget
<1>2. CASE AcquireFails(a)
  <2>1. ActsOK'
    BY <1>2, NotStartedTyped DEF AcquireFails
  <2>2. QED
    BY <1>2, <2>1, PartsUnchanged, ManagerUnchanged, FaultTyped
    DEF AcquireFails, codex, manager, store, history, budget
<1>3. CASE Resume(a)
  <2>1. ActsOK'
    BY <1>3, GotoTyped DEF Resume, Pcs
  <2>2. QED
    BY <1>3, <2>1, PartsUnchanged, ManagerUnchanged, ActFields
    DEF Resume, CodexOK, codex, manager, store, history, budget
<1>4. CASE ResumeFails(a)
  <2>1. ActsOK'
    BY <1>4, NotStartedTyped DEF ResumeFails
  <2>2. QED
    BY <1>4, <2>1, PartsUnchanged, ManagerUnchanged, FaultTyped
    DEF ResumeFails, codex, manager, store, history, budget
<1>5. CASE TakeLink(a)
  <2>0. procs[act[a].worker].gen \in 0 .. Cardinality(Workers)
    BY <1>5, ActFields DEF TakeLink, ControlInv, Fits, WorkerFits, At, ManagerOK, Processes
  <2>1. ActsOK'
    BY <1>5, NotStartedTyped, GotoTyped DEF TakeLink, Pcs
  <2>2. StoreOK'
    <3>1. link' = link \/ link' = [state |-> "running", gen |-> procs[act[a].worker].gen, turn |-> 0]
      BY <1>5 DEF TakeLink
    <3>2. [state |-> "running", gen |-> procs[act[a].worker].gen, turn |-> 0] \in Links
      BY <2>0, LinkForms, ZeroTyped DEF LinkStates
    <3>3. QED
      BY <1>5, <3>1, <3>2 DEF TakeLink, StoreOK
  <2>3. QED
    BY <1>5, <2>1, <2>2, PartsUnchanged, ManagerUnchanged
    DEF TakeLink, codex, manager, store, history, budget
<1>6. CASE TakeFails(a)
  <2>1. ActsOK'
    BY <1>6, NotStartedTyped DEF TakeFails
  <2>2. QED
    BY <1>6, <2>1, PartsUnchanged, ManagerUnchanged, FaultTyped
    DEF TakeFails, codex, manager, store, history, budget
<1>7. CASE StartTurn(a)
  <2>1. ActsOK'
    <3>1. Len(turns) + 1 \in 0 .. MaxTurns
      BY <1>7 DEF StartTurn, TurnStarted, CodexOK
    <3>2. QED
      BY <1>7, <3>1 DEF StartTurn, ActsOK, Acts, Pcs
  <2>2. CodexOK' /\ ManagerOK' /\ ManagerInv' /\ HistoryOK'
    BY <1>7, TurnStartedTyped, StarterTyped DEF StartTurn, HistoryOK, manager, budget
  <2>3. QED
    BY <1>7, <2>1, <2>2, PartsUnchanged DEF StartTurn
<1>8. CASE StartTurnFails(a)
  <2>1. ActsOK'
    BY <1>8, OutcomeTyped DEF StartTurnFails, ActsOK, Pcs
  <2>2. StoreOK'
    BY <1>8, FailLinkTyped DEF StartTurnFails, StoreOK
  <2>3. CodexOK' /\ ManagerOK' /\ ManagerInv' /\ HistoryOK'
    <3>1. CASE Fault /\ TurnStarted(a)
      BY <1>8, <3>1, TurnStartedTyped, StarterTyped DEF StartTurnFails, HistoryOK, Fault, manager
    <3>2. CASE UNCHANGED <<turns, procs, started>>
      BY <1>8, <3>2, PartsUnchanged, ManagerUnchanged, FaultTyped DEF StartTurnFails, manager, codex, history
    <3>3. QED
      BY <1>8, <3>1, <3>2 DEF StartTurnFails
  <2>4. QED
    BY <1>8, <2>1, <2>2, <2>3
<1>9. CASE PersistStart(a)
  <2>1. ActsOK'
    BY <1>9, GotoTyped, OutcomeTyped DEF PersistStart, ActsOK, Pcs
  <2>2. StoreOK'
    BY <1>9, ActFields, ObservationForms DEF PersistStart, StoreOK
  <2>3. QED
    BY <1>9, <2>1, <2>2, PartsUnchanged, ManagerUnchanged, FaultTyped
    DEF PersistStart, codex, manager, store, history, budget
<1>10. CASE Mark(a)
  <2>1. ActsOK'
    <3>1. PICK failed \in BOOLEAN : act' = [act EXCEPT ![a].pc = "complete", ![a].failed = failed]
      BY <1>10, ActFields DEF Mark
    <3>2. QED
      BY <1>10, <3>1, OutcomeTyped DEF Mark, ActsOK, Pcs
  <2>2. StoreOK'
    BY <1>10, ActFields, LinkForms DEF Mark, StoreOK
  <2>3. QED
    BY <1>10, <2>1, <2>2, PartsUnchanged, ManagerUnchanged, FaultTyped
    DEF Mark, codex, manager, store, history, budget
<1>11. CASE Complete(a)
  <2>1. ActsOK'
    BY <1>11, LeaveTyped, AnsweredTyped DEF Complete
  <2>2. StoreOK'
    BY <1>11, StatusTyped DEF Complete, Statuses, StoreOK
  <2>3. QED
    BY <1>11, <2>1, <2>2, PartsUnchanged, ManagerUnchanged, FaultTyped
    DEF Complete, codex, manager, store, history, budget
<1>12. CASE Abort(a)
  <2>1. ActsOK'
    BY <1>12, AnsweredTyped, GotoTyped DEF Abort, Pcs
  <2>2. QED
    BY <1>12, <2>1, PartsUnchanged, ManagerUnchanged, ActFields, CloseTyped
    DEF Abort, ReleaseWorker, ManagerOK, Processes, codex, manager, store, history, budget
<1>13. QED
  BY <1>1, <1>2, <1>3, <1>4, <1>5, <1>6, <1>7, <1>8, <1>9, <1>10, <1>11, <1>12 DEF Start

\* The bot and the poll loop are goroutines, and so is the event loop of each worker.
LEMMA ActorNames ==
  Bot \in Actors /\ Poll \in Actors /\ Workers \subseteq Actors
BY DEF Actors

\* Codex and the processes keep the types whatever they do.
LEMMA CodexTyped ==
  ASSUME IInv, Codex
  PROVE  TypeOK' /\ ManagerInv'
<1> USE DEF IInv, TypeOK
<1>1. CASE Progress
  <2>1. CodexOK'
    BY <1>1 DEF Progress, CodexOK
  <2>2. QED
    BY <1>1, <2>1, PartsUnchanged, ManagerUnchanged DEF Progress, manager, ActsOK
<1>2. CASE OpenDesktop
  <2>1. CodexOK'
    BY <1>2 DEF OpenDesktop, CodexOK
  <2>2. QED
    BY <1>2, <2>1, PartsUnchanged, ManagerUnchanged DEF OpenDesktop, manager, ActsOK
<1>3. CASE CloseDesktop
  <2>1. CodexOK'
    BY <1>3, StoppedTurns DEF CloseDesktop, CodexOK
  <2>2. QED
    BY <1>3, <2>1, PartsUnchanged, ManagerUnchanged DEF CloseDesktop, manager, ActsOK
<1>4. CASE DesktopTurn
  <2>1. CodexOK'
    BY <1>4, BoundsAssumption DEF DesktopTurn, CodexOK
  <2>2. QED
    BY <1>4, <2>1, PartsUnchanged, ManagerUnchanged DEF DesktopTurn, manager, ActsOK
<1>5. CASE \E w \in Workers : ProcessDies(w)
  <2> PICK w \in Workers : ProcessDies(w)
    BY <1>5
  <2>1. CodexOK'
    BY StoppedTurns DEF ProcessDies, CodexOK
  <2>2. ManagerOK'
    BY DEF ProcessDies, ManagerOK, Processes, manager
  <2>3. \A v \in Workers : procs'[v].gen = procs[v].gen /\ Blank(procs'[v])
    BY DEF ProcessDies, ManagerOK, Processes, ManagerInv, Blank
  <2>4. ManagerInv'
    BY <2>3, SameGenerations DEF ProcessDies, manager
  <2>5. QED
    BY <2>1, <2>2, <2>4, PartsUnchanged, FaultTyped DEF ProcessDies, ActsOK
<1>6. QED
  BY <1>1, <1>2, <1>3, <1>4, <1>5 DEF Codex

\* Reading the thread keeps the types.
LEMMA ReadTyped ==
  ASSUME IInv, NEW a \in Actors, Read(a)
  PROVE  TypeOK' /\ ManagerInv'
<1> USE DEF IInv, TypeOK
<1>1. Len(turns) \in 0 .. MaxTurns
  BY DEF CodexOK
<1>2. [Idle EXCEPT !.turn = Len(turns),
                   !.pc = IF turns[Len(turns)] = "running" THEN "touch" ELSE "lock"] \in Acts
  BY <1>1, IdleTyped DEF Acts, Pcs
<1>3. ActsOK'
  BY <1>2 DEF Read, ActsOK
<1>4. QED
  BY <1>3, PartsUnchanged, ManagerUnchanged DEF Read, manager

\* The owner's message keeps the types.
LEMMA ReplyTyped ==
  ASSUME IInv, Reply \/ BotReadFails \/ EnterReply
  PROVE  TypeOK' /\ ManagerInv'
<1> USE ActorNames DEF IInv, TypeOK
<1>1. CASE Reply
  <2>1. ActsOK'
    BY <1>1, GotoTyped DEF Reply, Pcs, ActsOK
  <2>2. StoreOK'
    BY <1>1 DEF Reply, StoreOK
  <2>3. HistoryOK'
    BY <1>1, BoundsAssumption DEF Reply, HistoryOK, budget
  <2>4. QED
    BY <1>1, <2>1, <2>2, <2>3, PartsUnchanged, ManagerUnchanged DEF Reply, manager
<1>2. CASE BotReadFails
  BY <1>2, AnsweredTyped, FaultTyped, PartsUnchanged, ManagerUnchanged DEF BotReadFails, manager
<1>3. CASE EnterReply
  <2>1. ActsOK'
    BY <1>3, AnsweredTyped DEF EnterReply, ActsOK, Acts, Pcs
  <2>2. [prompt |-> replies, status |-> "pending"] \in Commands
    BY <1>3 DEF EnterReply, CommandsInv, ReplyIsFresh, At, HistoryOK, Commands, Statuses
  <2>3. StoreOK'
    BY <1>3, <2>2 DEF EnterReply, StoreOK
  <2>4. QED
    BY <1>3, <2>1, <2>3, PartsUnchanged, ManagerUnchanged DEF EnterReply, manager
<1>4. QED
  BY <1>1, <1>2, <1>3

\* Making the fork keeps the types.
LEMMA CreateTyped ==
  ASSUME IInv, Create
  PROVE  TypeOK' /\ ManagerInv'
<1> USE ActorNames DEF IInv, TypeOK
<1>1. CASE AcquireForFork
  <2>1. StoreOK'
    BY <1>1 DEF AcquireForFork, StoreOK
  <2>2. CASE Acquired(Bot, NewWorker, FALSE, "fork") /\ UNCHANGED <<cont, budget>>
    BY <1>1, <2>1, <2>2, AcquiredTyped, PartsUnchanged DEF AcquireForFork, Pcs
  <2>3. CASE Fault /\ Answered /\ UNCHANGED <<codex, procs, manager>>
    BY <1>1, <2>1, <2>3, AnsweredTyped, FaultTyped, PartsUnchanged, ManagerUnchanged
    DEF AcquireForFork, manager
  <2>4. QED
    BY <1>1, <2>2, <2>3 DEF AcquireForFork
<1>2. CASE Fork
  <2>1. ActsOK'
    BY <1>2, GotoTyped DEF Fork, Pcs
  <2>2. act[Bot].worker \in Workers /\ 1 <= MaxTurns
    BY <1>2, BoundsAssumption DEF Fork, ControlInv, Fits, WorkerFits, At
  <2>3. CodexOK'
    BY <1>2, <2>2, BoundsAssumption DEF Fork, CodexOK
  <2>4. ManagerOK' /\ ManagerInv'
    BY <1>2, <2>2, ZeroTyped DEF Fork, ManagerOK, Processes, ManagerInv, Unused, Blank
  <2>5. QED
    BY <1>2, <2>1, <2>3, <2>4, PartsUnchanged DEF Fork
<1>3. CASE ForkFails
  <2>1. StoreOK'
    BY <1>3 DEF ForkFails, StoreOK
  <2>2. QED
    BY <1>3, <2>1, NotStartedTyped, FaultTyped, PartsUnchanged, ManagerUnchanged
    DEF ForkFails, manager
<1>4. CASE Activate
  <2>1. ActsOK'
    BY <1>4, GotoTyped, NotStartedTyped DEF Activate, Pcs
  <2>2. procs[act[Bot].worker].gen \in 0 .. Cardinality(Workers)
    BY <1>4 DEF Activate, ControlInv, Fits, WorkerFits, At, ManagerOK, Processes
  <2>3. [state |-> "running", gen |-> procs[act[Bot].worker].gen, turn |-> 0] \in Links
    BY <2>2, LinkForms, ZeroTyped DEF LinkStates
  <2>4. StoreOK'
    BY <1>4, <2>3, ZeroTyped DEF Activate, StoreOK
  <2>5. QED
    BY <1>4, <2>1, <2>4, FaultTyped, PartsUnchanged, ManagerUnchanged DEF Activate, manager
<1>5. QED
  BY <1>1, <1>2, <1>3, <1>4 DEF Create

\* So do a repair and a restart.
LEMMA RecoveryTyped ==
  ASSUME IInv, Repair \/ Restart
  PROVE  TypeOK' /\ ManagerInv'
<1> USE DEF IInv, TypeOK
<1>1. CASE Repair
  <2>1. [state |-> "ready", gen |-> 0, turn |-> 0] \in Links
    BY LinkForms, ZeroTyped DEF LinkStates
  <2>2. CanRepair => link.turn \in TurnIds
    <3>1. link.turn \in 0 .. MaxTurns
      BY LinkForms DEF StoreOK
    <3>2. QED
      BY <3>1, BoundsAssumption DEF CanRepair, Finishable, TurnIds
  <2>3. StoreOK'
    BY <1>1, <2>1, <2>2 DEF Repair, HandBack, StoreOK
  <2>4. ManagerOK' /\ ManagerInv'
    BY <1>1, ZeroTyped DEF Repair, HandBack, ManagerOK, Processes, ManagerInv, Unused, Blank, manager
  <2>5. QED
    BY <1>1, <2>3, <2>4, PartsUnchanged DEF Repair, ActsOK
<1>2. CASE Restart
  <2>0. PICK survivors \in SUBSET Workers :
         /\ \A w \in survivors : procs[w].alive
         /\ procs' = [w \in Workers |->
              [procs[w] EXCEPT !.open = FALSE, !.alive = w \in survivors]]
         /\ writer' = IF writer \in Workers \ survivors THEN None ELSE writer
         /\ turns' = IF writer \in Workers \ survivors THEN Stopped(writer) ELSE turns
    BY <1>2, Zenon DEF Restart
  <2>1. CodexOK'
    BY <2>0, StoppedTurns DEF CodexOK
  <2>3. ManagerOK'
    <3>1. registry' = None /\ confirmed' = 0 /\ lastGen' = 0
      BY <1>2 DEF Restart
    <3>2. ASSUME NEW p \in Processes, NEW b \in BOOLEAN
          PROVE  [p EXCEPT !.open = FALSE, !.alive = b] \in Processes
      BY DEF Processes
    <3>3. \A w \in Workers : procs[w] \in Processes /\ (w \in survivors) \in BOOLEAN
      BY DEF ManagerOK
    <3>4. procs' \in [Workers -> Processes]
      <4>1. \A w \in Workers : [procs[w] EXCEPT !.open = FALSE, !.alive = w \in survivors] \in Processes
        BY <3>2, <3>3, Zenon
      <4>2. QED
        BY <2>0, <4>1, Zenon
    <3>5. QED
      BY <3>1, <3>4, ZeroTyped DEF ManagerOK
  <2>4. ManagerInv'
    <3>1. \A w \in Workers : procs'[w].gen = procs[w].gen /\ Blank(procs'[w])
      BY <2>0 DEF ManagerOK, Processes, ManagerInv, Blank
    <3>2. Cardinality(Workers \ Unused') \in Nat
      BY WorkersAssumption, FS_Subset, FS_CardinalityType, Workers \ Unused' \subseteq Workers
    <3>3. lastGen' = 0
      BY <1>2 DEF Restart
    <3>4. QED
      BY <3>1, <3>2, <3>3 DEF ManagerInv
  <2>5. StoreOK'
    <3>1. RecoveredCommands \in Seq(Commands)
      <4>1. \A i \in DOMAIN cmds : cmds[i] \in Commands
        BY DEF StoreOK
      <4>2. \A i \in DOMAIN cmds : [cmds[i] EXCEPT !.status = "failed"] \in Commands
        BY <4>1, CommandTyped DEF Statuses
      <4>3. Len(cmds) \in Nat /\ DOMAIN cmds = 1 .. Len(cmds)
        BY DEF StoreOK
      <4>4. RecoveredCommands \in [1 .. Len(cmds) -> Commands]
        BY <4>1, <4>2, <4>3 DEF RecoveredCommands
      <4>5. QED
        BY <4>3, <4>4, SeqDef
    <3>2. [link EXCEPT !.state = "pending"] \in Links
      BY LinkForms DEF LinkStates, StoreOK
    <3>3. QED
      BY <1>2, <3>1, <3>2 DEF Restart, StoreOK
  <2>6. ActsOK'
    BY <1>2, IdleTyped DEF Restart, ActsOK, Pcs
  <2>7. HistoryOK'
    <3>1. (orphaned \/ link.state \in {"running", "pending"}) \in BOOLEAN
      OBVIOUS
    <3>2. orphaned' \in BOOLEAN
      BY <1>2, <3>1 DEF Restart
    <3>3. restarts < MaxRestarts /\ restarts' = restarts + 1 /\ UNCHANGED <<faults, replies, started>>
      BY <1>2 DEF Restart
    <3>4. QED
      BY <3>2, <3>3, BoundsAssumption DEF HistoryOK
  <2>8. QED
    BY <2>1, <2>3, <2>4, <2>5, <2>6, <2>7
<1>3. QED
  BY <1>1, <1>2

\* Every step keeps the types.
LEMMA NextTyped ==
  ASSUME IInv, [Next]_vars
  PROVE  TypeOK' /\ ManagerInv'
<1>1. CASE Codex
  BY <1>1, CodexTyped
<1>2. CASE Reply \/ BotReadFails \/ EnterReply
  BY <1>2, ReplyTyped
<1>3. CASE BotRead \/ PollRead \/ \E w \in Workers : WorkerEvent(w)
  BY <1>3, ReadTyped, ActorNames DEF BotRead, PollRead, WorkerEvent
<1>4. CASE Create
  BY <1>4, CreateTyped
<1>5. CASE Repair \/ Restart
  BY <1>5, RecoveryTyped
<1>6. CASE \E a \in Busy : Steps(a)
  BY <1>6, ObserveTyped, QueueTyped, StartTyped DEF Steps, Busy
<1>7. CASE UNCHANGED vars
  BY <1>7, PartsUnchanged, ManagerUnchanged DEF IInv, TypeOK, ActsOK, vars, manager
<1>8. QED
  BY <1>1, <1>2, <1>3, <1>4, <1>5, <1>6, <1>7 DEF Next

-----------------------------------------------------------------------------
(***************************************************************************)
(* Who may do what: most steps only move one goroutine.                    *)
(***************************************************************************)
\* A step of one goroutine that leaves Codex, the processes, the link and the outbox alone
\* keeps the invariant if the goroutine fits its new pc.
LEMMA QuietStep ==
  ASSUME ControlInv, NEW a \in Actors,
         UNCHANGED <<turns, procs, registry, confirmed, link, outbox, orphaned>>,
         writer' # None => turns # <<>>,
         \A b \in Actors : b # a => act'[b] = act[b],
         lock' = lock \/ lock \in {a, None},
         Fits(a)', At(a, Starts)' => At(a, Starts)
  PROVE  ControlInv'
<1>1. ASSUME NEW b \in Actors, b # a
      PROVE  Fits(b)'
  <2>1. Fits(b) /\ act'[b] = act[b] /\ (lock = b => lock' = b)
    BY <1>1, NamesAssumption DEF ControlInv, Actors
  <2>2. QED
    BY <2>1 DEF Fits, SeesTurn, HoldsLock, LinkFits, WorkerFits, FinisherIsSafe, KeepsOffOrphan,
                Carries, At, Lives, Finishable
<1>2. OneStarter'
  BY DEF ControlInv, OneStarter, At
<1>3. (ForkExists /\ WorkedBelongsToLink /\ OrphanIsLost /\ LinkIsNumbered /\ PendingIsStored)'
  BY DEF ControlInv, ForkExists, WorkedBelongsToLink, OrphanIsLost, LinkIsNumbered,
         PendingIsStored, Lives
<1>4. QED
  BY <1>1, <1>2, <1>3 DEF ControlInv

\* What a step that leaves the observation does to the goroutines.
LEMMA LeaveEffect ==
  ASSUME ActsOK, NEW a \in Actors, Leave(a)
  PROVE  /\ act'[a].pc \in {"idle", "enter"} /\ act'[a].cmd = 0
         /\ a # Bot => act'[a].pc = "idle"
         /\ \A b \in Actors : b # a => act'[b] = act[b]
         /\ lock' = lock \/ lock \in {a, None}
         /\ lock # a => lock' = lock
BY DEF ActsOK, Leave, Idle

\* A goroutine that leaves the thread keeps the invariant.
LEMMA LeaveQuiet ==
  ASSUME ActsOK, ControlInv, NEW a \in Actors, Leave(a),
         UNCHANGED <<turns, writer, procs, registry, confirmed, link, outbox, orphaned>>
  PROVE  ControlInv'
<1>1. Fits(a)' /\ ~At(a, Starts)'
  BY LeaveEffect DEF Fits, SeesTurn, HoldsLock, LinkFits, WorkerFits, FinisherIsSafe,
     KeepsOffOrphan, Carries, At, Sees, Forks, Opens, Starts, UnderLock, Carrying
<1>2. QED
  BY <1>1, LeaveEffect, QuietStep DEF ControlInv, ForkExists

\* The bot answers the owner.
LEMMA AnsweredEffect ==
  ASSUME ActsOK, Answered
  PROVE  /\ act'[Bot].pc = "idle" /\ act'[Bot].cmd = 0
         /\ \A b \in Actors : b # Bot => act'[b] = act[b]
         /\ lock' = lock \/ lock \in {Bot, None}
         /\ lock # Bot => lock' = lock
BY ActorNames DEF ActsOK, Answered, Idle

\* So does the bot when it has answered.
LEMMA AnsweredQuiet ==
  ASSUME ActsOK, ControlInv, Answered,
         UNCHANGED <<turns, writer, procs, registry, confirmed, link, outbox, orphaned>>
  PROVE  ControlInv'
<1>1. Fits(Bot)' /\ ~At(Bot, Starts)'
  BY AnsweredEffect DEF Fits, SeesTurn, HoldsLock, LinkFits, WorkerFits, FinisherIsSafe,
     KeepsOffOrphan, Carries, At, Sees, Forks, Opens, Starts, UnderLock, Carrying
<1>2. QED
  BY <1>1, AnsweredEffect, ActorNames, QuietStep DEF ControlInv, ForkExists

\* A goroutine goes on at another pc with what it carries.
LEMMA GotoEffect ==
  ASSUME ActsOK, NEW a \in Actors, NEW pc, Goto(a, pc)
  PROVE  /\ act'[a].pc = pc /\ lock' = lock
         /\ act'[a].turn = act[a].turn /\ act'[a].cmd = act[a].cmd
         /\ act'[a].worker = act[a].worker /\ act'[a].failed = act[a].failed
         /\ \A b \in Actors : b # a => act'[b] = act[b]
BY DEF ActsOK, Acts, Goto

\* A start that is given up goes on at "abort".
LEMMA NotStartedEffect ==
  ASSUME ActsOK, NEW a \in Actors, NotStarted(a)
  PROVE  Goto(a, "abort")
BY DEF NotStarted, Goto

\* A goroutine goes on at a pc where only the turn it has seen and the lock matter.
LEMMA GotoQuiet ==
  ASSUME ActsOK, ControlInv, NEW a \in Actors, NEW pc, Goto(a, pc),
         pc \notin Forks \cup Opens \cup Starts \cup {"abort", "finish"},
         pc \in Sees => At(a, Sees),
         pc \in UnderLock \/ (pc \in Carrying /\ act[a].cmd # 0) => lock = a,
         UNCHANGED <<turns, writer, procs, registry, confirmed, link, outbox, orphaned>>
  PROVE  ControlInv'
<1>1. SeesTurn(a)' /\ HoldsLock(a)'
  BY GotoEffect DEF ControlInv, Fits, SeesTurn, HoldsLock, Carries, At
<1>2. Fits(a)' /\ ~At(a, Starts)'
  BY <1>1, GotoEffect DEF Fits, LinkFits, WorkerFits, FinisherIsSafe, KeepsOffOrphan, At, Forks,
     Opens, Starts
<1>3. QED
  BY <1>2, GotoEffect, QuietStep DEF ControlInv, ForkExists

\* What closing a worker does to the processes.
LEMMA CloseEffect ==
  ASSUME TypeOK, NEW w \in Workers, NEW receipt, Close(w, receipt)
  PROVE  /\ \A v \in Workers : /\ procs'[v].gen = procs[v].gen /\ procs'[v].worked = procs[v].worked
                               /\ procs'[v].alive => procs[v].alive
         /\ procs' \in [Workers -> Processes]
         /\ registry' = IF registry = w THEN None ELSE registry
         /\ confirmed' = IF registry = w /\ ~procs'[w].alive THEN receipt ELSE confirmed
         /\ DOMAIN turns' = DOMAIN turns /\ (turns' = <<>> <=> turns = <<>>)
         /\ writer' \in {writer, None}
<1> USE DEF TypeOK
<1>1. CASE /\ procs' = [procs EXCEPT ![w].open = FALSE, ![w].alive = FALSE]
           /\ writer' = (IF writer = w THEN None ELSE writer)
           /\ turns' = Stopped(w)
           /\ confirmed' = (IF registry = w THEN receipt ELSE confirmed)
  <2>1. DOMAIN turns' = DOMAIN turns /\ (turns' = <<>> <=> turns = <<>>)
    BY <1>1, StoppedTurns DEF CodexOK
  <2>2. QED
    BY <1>1, <2>1 DEF Close, ManagerOK, Processes
<1>2. CASE /\ procs[w].alive /\ procs' = [procs EXCEPT ![w].open = FALSE]
           /\ UNCHANGED <<codex, confirmed>>
  BY <1>2 DEF Close, ManagerOK, Processes, codex
<1>3. QED
  BY <1>1, <1>2 DEF Close

\* The observation of the thread keeps the invariant: the quiet steps.
LEMMA ObserveQuietControl ==
  ASSUME IInv, NEW a \in Actors,
         \/ Touch(a) \/ LockTerminal(a) \/ SettleRow(a) \/ ClaimTerminal(a)
         \/ EnqueueFails(a) \/ NothingToRelease(a) \/ FinishFails(a)
  PROVE  ControlInv'
<1> USE DEF IInv, TypeOK, codex, manager, store, history
<1>0. HoldsLock(a) /\ SeesTurn(a)
  BY DEF ControlInv, Fits
<1>1. CASE Touch(a)
  BY <1>1, LeaveQuiet DEF Touch
<1>2. CASE LockTerminal(a)
  <2>1. CASE Leave(a)
    BY <1>2, <2>1, LeaveQuiet DEF LockTerminal
  <2>2. CASE act' = [act EXCEPT ![a].pc = "settle"] /\ lock' = a
    <3>1. /\ act'[a].pc = "settle" /\ act'[a].turn = act[a].turn
          /\ \A b \in Actors : b # a => act'[b] = act[b]
      BY <2>2 DEF ActsOK, Acts
    <3>2. Fits(a)' /\ ~At(a, Starts)'
      BY <1>0, <1>2, <2>2, <3>1 DEF LockTerminal, Fits, SeesTurn, HoldsLock, LinkFits, WorkerFits,
         FinisherIsSafe, KeepsOffOrphan, At, Sees, Forks, Opens, Starts
    <3>3. QED
      BY <1>2, <2>2, <3>1, <3>2, QuietStep DEF LockTerminal, ControlInv, ForkExists
  <2>3. QED
    BY <1>2, <2>1, <2>2 DEF LockTerminal
<1>3. CASE SettleRow(a)
  BY <1>0, <1>3, LeaveQuiet, GotoQuiet DEF SettleRow, HoldsLock, At, Sees, Forks, Opens, Starts,
     UnderLock, Carrying
<1>4. CASE ClaimTerminal(a)
  BY <1>0, <1>4, LeaveQuiet, GotoQuiet DEF ClaimTerminal, HoldsLock, At, Sees, Forks, Opens, Starts,
     UnderLock, Carrying
<1>5. CASE EnqueueFails(a)
  BY <1>5, LeaveQuiet DEF EnqueueFails
<1>6. CASE NothingToRelease(a)
  BY <1>0, <1>6, GotoQuiet DEF NothingToRelease, HoldsLock, At, Sees, Forks, Opens, Starts,
     UnderLock, Carrying
<1>7. CASE FinishFails(a)
  BY <1>7, LeaveQuiet DEF FinishFails
<1>8. QED
  BY <1>1, <1>2, <1>3, <1>4, <1>5, <1>6, <1>7

\* Storing the event of the turn and ending the ownership keeps the invariant.
LEMMA EnqueueTerminalControl ==
  ASSUME IInv, NEW a \in Actors, EnqueueTerminal(a)
  PROVE  ControlInv'
<1> USE DEF IInv, TypeOK
<1>1. /\ act[a].pc = "enqueue" /\ lock = a
      /\ act[a].turn \in DOMAIN turns /\ act[a].turn # 0
  BY DEF EnqueueTerminal, ControlInv, Fits, HoldsLock, SeesTurn, At, Sees, UnderLock, CodexOK
<1>2. /\ act'[a].pc = "release" /\ lock' = a /\ act'[a].turn = act[a].turn
      /\ act'[a].cmd = act[a].cmd
      /\ \A b \in Actors : b # a => act'[b] = act[b]
  BY <1>1, GotoEffect DEF EnqueueTerminal
<1>3. UNCHANGED <<turns, writer, procs, registry, confirmed, orphaned>>
  BY DEF EnqueueTerminal, codex, manager, history
<1>4. /\ outbox \subseteq outbox'
      /\ link'.gen = link.gen /\ link'.turn = link.turn
      /\ \/ link' = link
         \/ /\ link.state = "running" /\ link'.state = "pending"
            /\ link.turn = act[a].turn /\ link.turn \in outbox'
  BY DEF EnqueueTerminal, Enqueued, StoreOK, Links
<1>5. Fits(a)' /\ ~At(a, Starts)'
  BY <1>1, <1>2, <1>3 DEF Fits, SeesTurn, HoldsLock, LinkFits, WorkerFits, FinisherIsSafe,
     KeepsOffOrphan, At, Sees, Forks, Opens, Starts
<1>6. ASSUME NEW b \in Actors, b # a
      PROVE  Fits(b)'
  <2>1. Fits(b) /\ act'[b] = act[b] /\ lock' = lock /\ act[b].pc # "finish"
    BY <1>1, <1>2, <1>6 DEF ControlInv, Fits, HoldsLock, At, UnderLock
  <2>2. link' # link => ~At(b, Starts) /\ act[b].pc # "abort"
    BY <1>1, <1>4, <2>1 DEF Fits, LinkFits, At
  <2>3. (SeesTurn(b) /\ HoldsLock(b) /\ WorkerFits(b) /\ FinisherIsSafe(b) /\ KeepsOffOrphan(b))'
    BY <1>3, <2>1 DEF Fits, SeesTurn, HoldsLock, WorkerFits, FinisherIsSafe, KeepsOffOrphan,
       Carries, At
  <2>4. LinkFits(b)'
    BY <1>3, <1>4, <2>1, <2>2 DEF Fits, LinkFits, At, Forks, Opens, Starts
  <2>5. QED
    BY <2>3, <2>4 DEF Fits
<1>7. OneStarter'
  BY <1>2, <1>5 DEF ControlInv, OneStarter, At
<1>8. (ForkExists /\ WorkedBelongsToLink /\ OrphanIsLost /\ LinkIsNumbered /\ PendingIsStored)'
  BY <1>3, <1>4 DEF ControlInv, ForkExists, WorkedBelongsToLink, OrphanIsLost, LinkIsNumbered,
     PendingIsStored, Lives
<1>9. QED
  BY <1>5, <1>6, <1>7, <1>8 DEF ControlInv

\* While a release is pending nobody forks, opens, starts or aborts a turn.
LEMMA PendingIsQuiet ==
  ASSUME ControlInv, link.state = "pending", NEW b \in Actors
  PROVE  ~At(b, Forks \cup Opens \cup Starts \cup {"abort"})
BY DEF ControlInv, Fits, LinkFits, At, Forks, Opens, Starts

\* A step that closes workers, fails the link or hands it back while nobody forks, opens,
\* starts or aborts a turn keeps the invariant of the other goroutines.
LEMMA OthersFit ==
  ASSUME ControlInv, NEW b \in Actors,
         ~At(b, Forks \cup Opens \cup Starts \cup {"abort", "finish"}),
         act'[b] = act[b], DOMAIN turns \subseteq DOMAIN turns', lock = b => lock' = b
  PROVE  Fits(b)' /\ ~At(b, Starts)'
<1>1. SeesTurn(b)' /\ HoldsLock(b)'
  BY DEF ControlInv, Fits, SeesTurn, HoldsLock, Carries, At
<1>2. QED
  BY <1>1 DEF Fits, LinkFits, WorkerFits, FinisherIsSafe, KeepsOffOrphan, At, Forks, Opens, Starts

\* Releasing the worker of the link keeps the invariant: the one who may finish the
\* release has seen the end of the only process that ran the thread.
LEMMA ReleaseLinkedControl ==
  ASSUME IInv, NEW a \in Actors, ReleaseLinked(a)
  PROVE  ControlInv'
<1> USE DEF IInv, TypeOK
<1>1. /\ link.state = "pending" /\ link.turn = act[a].turn /\ link.gen # 0
      /\ act[a].pc = "release" /\ lock = a /\ act[a].turn \in DOMAIN turns
  BY DEF ReleaseLinked, ControlInv, Fits, HoldsLock, SeesTurn, At, Sees, UnderLock, LinkIsNumbered
<1>2. UNCHANGED <<outbox, orphaned>>
  BY DEF ReleaseLinked, history
<1>3. ASSUME NEW b \in Actors, b # a, act'[b] = act[b], lock # b,
             DOMAIN turns \subseteq DOMAIN turns'
      PROVE  Fits(b)' /\ ~At(b, Starts)'
  <2>1. ~At(b, {"finish"})
    BY <1>1, <1>3 DEF ControlInv, Fits, HoldsLock, At, UnderLock
  <2>2. ~At(b, Forks \cup Opens \cup Starts \cup {"abort", "finish"})
    BY <1>1, <2>1, PendingIsQuiet DEF At
  <2>3. QED
    BY <1>3, <2>2, OthersFit
<1>4. /\ DOMAIN turns' = DOMAIN turns /\ (turns' = <<>> <=> turns = <<>>)
      /\ writer' \in {writer, None}
      /\ \A v \in Workers : /\ procs'[v].gen = procs[v].gen /\ procs'[v].worked = procs[v].worked
                            /\ procs'[v].alive => procs[v].alive
      /\ registry' \in {registry, None}
  BY CloseEffect DEF ReleaseLinked, Registered, manager, codex
<1>5. FailLink(link.gen) => link'.state = "failed" /\ link'.gen = link.gen
  BY <1>1 DEF FailLink, StoreOK, Links
<1>6. CASE FailLink(link.gen) /\ Leave(a) /\ (orphaned => UNCHANGED <<registry, confirmed>>)
  <2>1. Fits(a)' /\ ~At(a, Starts)'
    BY <1>6, LeaveEffect DEF Fits, SeesTurn, HoldsLock, LinkFits, WorkerFits, FinisherIsSafe,
       KeepsOffOrphan, Carries, At, Sees, Forks, Opens, Starts, UnderLock, Carrying
  <2>2. \A b \in Actors : b # a => Fits(b)' /\ ~At(b, Starts)'
    BY <1>1, <1>3, <1>4, <1>6, LeaveEffect
  <2>3. (WorkedBelongsToLink /\ OrphanIsLost /\ LinkIsNumbered /\ PendingIsStored)'
    BY <1>2, <1>5, <1>6 DEF ControlInv, WorkedBelongsToLink, OrphanIsLost, LinkIsNumbered,
       PendingIsStored
  <2>4. (ForkExists /\ OneStarter)'
    BY <1>1, <1>4, <2>1, <2>2 DEF ControlInv, ForkExists, OneStarter
  <2>5. QED
    BY <2>1, <2>2, <2>3, <2>4 DEF ControlInv
<1>7. CASE /\ Goto(a, "finish") /\ UNCHANGED link /\ ~orphaned
           /\ \A v \in Workers : ~Lives(v)'
  <2>1. Fits(a)' /\ ~At(a, Starts)'
    BY <1>1, <1>2, <1>4, <1>7, GotoEffect DEF Fits, SeesTurn, HoldsLock, LinkFits, WorkerFits,
       FinisherIsSafe, KeepsOffOrphan, At, Sees, Forks, Opens, Starts
  <2>2. \A b \in Actors : b # a => Fits(b)' /\ ~At(b, Starts)'
    BY <1>1, <1>3, <1>4, <1>7, GotoEffect
  <2>3. (WorkedBelongsToLink /\ OrphanIsLost /\ LinkIsNumbered /\ PendingIsStored)'
    BY <1>2, <1>7 DEF ControlInv, WorkedBelongsToLink, OrphanIsLost, LinkIsNumbered,
       PendingIsStored
  <2>4. (ForkExists /\ OneStarter)'
    BY <1>1, <1>4, <1>7, <2>1, <2>2 DEF ControlInv, ForkExists, OneStarter
  <2>5. QED
    BY <2>1, <2>2, <2>3, <2>4 DEF ControlInv
<1>8. CASE Registered(link.gen) /\ Close(registry, link.gen)
  <2>1. registry \in Workers /\ ~orphaned
    BY <1>8, NamesAssumption DEF Registered, ControlInv, OrphanIsLost
  <2>2. ~procs'[registry].alive => \A v \in Workers : ~Lives(v)'
    BY <1>1, <1>4, <2>1, NamesAssumption DEF ControlInv, WorkedBelongsToLink, Lives
  <2>3. CASE procs'[registry].alive
    BY <1>6, <1>8, <2>1, <2>3 DEF ReleaseLinked
  <2>4. CASE ~procs'[registry].alive
    BY <1>7, <1>8, <2>1, <2>2, <2>4 DEF ReleaseLinked
  <2>5. QED
    BY <2>3, <2>4
<1>9. CASE ~Registered(link.gen) /\ UNCHANGED <<codex, procs, manager>>
  <2>1. CASE confirmed = link.gen
    <3>1. ~orphaned /\ \A v \in Workers : ~Lives(v)
      BY <1>1, <2>1 DEF ControlInv, OrphanIsLost, WorkedBelongsToLink
    <3>2. \A v \in Workers : ~Lives(v)'
      BY <1>9, <3>1 DEF Lives
    <3>3. QED
      BY <1>7, <1>9, <2>1, <3>1, <3>2 DEF ReleaseLinked
  <2>2. CASE confirmed # link.gen
    BY <1>6, <1>9, <2>2 DEF ReleaseLinked, manager
  <2>3. QED
    BY <2>1, <2>2
<1>10. QED
  BY <1>8, <1>9 DEF ReleaseLinked

\* Closing a worker that no link accounts for keeps the invariant, also if the bot is about
\* to start the first turn with it.
LEMMA CloseRegisteredControl ==
  ASSUME IInv, NEW a \in Actors, CloseRegistered(a)
  PROVE  ControlInv'
<1> USE DEF IInv, TypeOK
<1>1. act[a].pc = "closeany" /\ lock = a
  BY DEF CloseRegistered, ControlInv, Fits, HoldsLock, At, UnderLock
<1>2. UNCHANGED <<link, outbox, orphaned>>
  BY DEF CloseRegistered, store, history
<1>3. CASE registry = None
  BY <1>1, <1>3, GotoQuiet
  DEF CloseRegistered, codex, manager, store, history, Sees, Forks, Opens, Starts, UnderLock
<1>4. CASE registry # None
  <2>1. registry \in Workers /\ ~orphaned /\ Close(registry, 0)
    BY <1>4 DEF CloseRegistered, ManagerOK, ControlInv, OrphanIsLost
  <2>2. /\ \A v \in Workers : /\ procs'[v].gen = procs[v].gen /\ procs'[v].worked = procs[v].worked
                              /\ procs'[v].alive => procs[v].alive
        /\ registry' = None /\ confirmed' \in {0, confirmed}
        /\ DOMAIN turns' = DOMAIN turns /\ (turns' = <<>> <=> turns = <<>>)
        /\ writer' \in {writer, None}
    BY <2>1, CloseEffect
  <2>3. /\ act'[a].pc \in {"idle", "enter", "drain"}
        /\ At(a, {"drain"})' \/ act'[a].cmd = 0
        /\ At(a, {"drain"})' => lock' = a
        /\ \A b \in Actors : b # a => act'[b] = act[b]
        /\ \A b \in Actors : b # a /\ lock = b => lock' = b
    BY <1>1, <1>4, LeaveEffect, GotoEffect DEF CloseRegistered, At
  <2>4. Fits(a)' /\ ~At(a, Starts)'
    BY <2>3 DEF Fits, SeesTurn, HoldsLock, LinkFits, WorkerFits, FinisherIsSafe, KeepsOffOrphan,
       Carries, At, Sees, Forks, Opens, Starts, UnderLock, Carrying
  <2>5. ASSUME NEW b \in Actors, b # a
        PROVE  Fits(b)'
    <3>1. Fits(b) /\ act'[b] = act[b] /\ (lock = b => lock' = b)
      BY <2>3, <2>5 DEF ControlInv
    <3>2. (SeesTurn(b) /\ HoldsLock(b) /\ FinisherIsSafe(b) /\ KeepsOffOrphan(b))'
      BY <1>2, <2>2, <3>1 DEF Fits, SeesTurn, HoldsLock, FinisherIsSafe, KeepsOffOrphan, Carries,
         At, Lives, Finishable
    <3>3. LinkFits(b)'
      BY <1>1, <1>2, <2>2, <2>5, <3>1 DEF Fits, LinkFits, At, Starts
    <3>4. WorkerFits(b)'
      BY <2>2, <3>1 DEF Fits, WorkerFits, At
    <3>5. QED
      BY <3>2, <3>3, <3>4 DEF Fits
  <2>6. OneStarter'
    BY <2>3, <2>4 DEF ControlInv, OneStarter, At
  <2>7. (WorkedBelongsToLink /\ LinkIsNumbered)'
    BY <1>2, <2>2, NamesAssumption DEF ControlInv, WorkedBelongsToLink, LinkIsNumbered, Lives
  <2>8. (ForkExists /\ OrphanIsLost /\ PendingIsStored)'
    BY <1>2, <2>1, <2>2 DEF ControlInv, ForkExists, OrphanIsLost, PendingIsStored
  <2>9. QED
    BY <2>4, <2>5, <2>6, <2>7, <2>8 DEF ControlInv
<1>5. QED
  BY <1>3, <1>4

\* Handing the link back, by the observer that has seen the end of its worker or by a
\* repair that knows of it, keeps the invariant.
LEMMA HandBackControl ==
  ASSUME IInv, link.state = "pending", NEW turn, HandBack(turn), ~orphaned,
         \A w \in Workers : ~Lives(w),
         UNCHANGED <<turns, writer, procs, outbox, orphaned, lock>>,
         NEW a \in Actors, act'[a].pc \in {"idle", "drain"},
         act'[a].pc = "drain" => lock = a,
         \A b \in Actors : b # a => act'[b] = act[b]
  PROVE  ControlInv'
<1> USE DEF IInv, TypeOK
<1>1. /\ link' = [state |-> "ready", gen |-> 0, turn |-> 0] /\ confirmed' = 0
      /\ UNCHANGED registry
  BY DEF HandBack
<1>2. Fits(a)' /\ ~At(a, Starts)'
  BY DEF Fits, SeesTurn, HoldsLock, LinkFits, WorkerFits, FinisherIsSafe, KeepsOffOrphan,
     Carries, At, Sees, Forks, Opens, Starts, UnderLock, Carrying
<1>3. ASSUME NEW b \in Actors, b # a
      PROVE  Fits(b)' /\ ~At(b, Starts)'
  <2>1. ~At(b, Forks \cup Opens \cup Starts \cup {"abort"}) /\ act'[b] = act[b]
    BY <1>3, PendingIsQuiet
  <2>2. SeesTurn(b)' /\ HoldsLock(b)'
    BY <2>1 DEF ControlInv, Fits, SeesTurn, HoldsLock, Carries, At
  <2>3. FinisherIsSafe(b)'
    BY <1>1 DEF FinisherIsSafe, Finishable
  <2>4. QED
    BY <2>1, <2>2, <2>3 DEF Fits, LinkFits, WorkerFits, KeepsOffOrphan, At, Forks, Opens, Starts
<1>4. (WorkedBelongsToLink /\ OrphanIsLost /\ LinkIsNumbered /\ PendingIsStored)'
  BY <1>1 DEF WorkedBelongsToLink, OrphanIsLost, LinkIsNumbered, PendingIsStored, Lives
<1>5. (ForkExists /\ OneStarter)'
  BY <1>2, <1>3 DEF ControlInv, ForkExists, OneStarter
<1>6. QED
  BY <1>2, <1>3, <1>4, <1>5 DEF ControlInv

\* Finishing a release hands the thread back, and keeps the invariant.
LEMMA FinishReleaseControl ==
  ASSUME IInv, NEW a \in Actors, FinishRelease(a)
  PROVE  ControlInv'
<1> USE DEF IInv, TypeOK
<1>1. /\ act[a].pc = "finish" /\ lock = a /\ ~orphaned
      /\ Finishable(act[a].turn) => \A w \in Workers : ~Lives(w)
  BY DEF FinishRelease, ControlInv, Fits, HoldsLock, KeepsOffOrphan, FinisherIsSafe, At, UnderLock
<1>2. CASE Finishable(act[a].turn)
  <2>1. /\ link.state = "pending" /\ HandBack(act[a].turn) /\ Goto(a, "drain")
        /\ UNCHANGED <<turns, writer, procs, outbox, orphaned>>
    BY <1>2 DEF FinishRelease, Finishable, codex, history
  <2>2. /\ act'[a].pc = "drain" /\ lock' = lock
        /\ \A b \in Actors : b # a => act'[b] = act[b]
    BY <2>1, GotoEffect
  <2>3. QED
    BY <1>1, <1>2, <2>1, <2>2, HandBackControl
<1>3. CASE ~Finishable(act[a].turn)
  BY <1>3, LeaveQuiet DEF FinishRelease, codex, manager, history
<1>4. QED
  BY <1>2, <1>3

\* /repair finishes a release whose worker is known to have ended.
LEMMA RepairControl ==
  ASSUME IInv, Repair
  PROVE  ControlInv'
<1> USE DEF IInv, TypeOK
<1>1. /\ act[Bot].pc = "idle"
      /\ UNCHANGED <<turns, writer, procs, outbox, orphaned, lock, act>>
  BY DEF Repair, codex, history
<1>2. CASE CanRepair
  <2>1. link.state = "pending" /\ confirmed = link.gen /\ HandBack(link.turn)
    BY <1>2 DEF Repair, CanRepair, Finishable
  <2>2. ~orphaned /\ \A w \in Workers : ~Lives(w)
    BY <2>1 DEF ControlInv, OrphanIsLost, LinkIsNumbered, WorkedBelongsToLink
  <2>3. QED
    BY <1>1, <2>1, <2>2, HandBackControl, ActorNames
<1>3. CASE ~CanRepair
  <2>1. UNCHANGED <<link, registry, confirmed>>
    BY <1>3 DEF Repair, manager
  <2>2. Fits(Bot)' /\ ~At(Bot, Starts)'
    BY <1>1 DEF Fits, SeesTurn, HoldsLock, LinkFits, WorkerFits, FinisherIsSafe, KeepsOffOrphan,
       Carries, At, Sees, Forks, Opens, Starts, UnderLock, Carrying
  <2>3. QED
    BY <1>1, <2>1, <2>2, ActorNames, QuietStep DEF ControlInv, ForkExists
<1>4. QED
  BY <1>2, <1>3

\* Every step of an observer keeps the invariant.
LEMMA ObserveControl ==
  ASSUME IInv, NEW a \in Actors, Observe(a)
  PROVE  ControlInv'
BY ObserveQuietControl, EnqueueTerminalControl, ReleaseLinkedControl, CloseRegisteredControl,
   FinishReleaseControl DEF Observe

\* Draining the queue keeps the invariant.
LEMMA QueueControl ==
  ASSUME IInv, NEW a \in Actors, Queue(a)
  PROVE  ControlInv'
<1> USE DEF IInv, TypeOK, codex, manager, store, history
<1>0. HoldsLock(a)
  BY DEF ControlInv, Fits
<1>1. CASE Drain(a)
  BY <1>0, <1>1, LeaveQuiet, GotoQuiet DEF Drain, HoldsLock, At, Sees, Forks, Opens, Starts,
     UnderLock, Carrying
<1>2. CASE NextCommand(a)
  <2>1. CASE Leave(a)
    BY <1>2, <2>1, LeaveQuiet DEF NextCommand
  <2>2. CASE ~Leave(a)
    <3>1. PICK i : act' = [act EXCEPT ![a].cmd = i, ![a].pc = "queued", ![a].failed = FALSE]
      BY <1>2, <2>2 DEF NextCommand
    <3>2. /\ act'[a].pc = "queued" /\ \A b \in Actors : b # a => act'[b] = act[b]
      BY <3>1 DEF ActsOK, Acts
    <3>3. lock = a /\ lock' = a
      BY <1>0, <1>2, <2>2 DEF NextCommand, HoldsLock, At, UnderLock
    <3>4. Fits(a)' /\ ~At(a, Starts)'
      BY <3>2, <3>3 DEF Fits, SeesTurn, HoldsLock, LinkFits, WorkerFits, FinisherIsSafe,
         KeepsOffOrphan, At, Sees, Forks, Opens, Starts
    <3>5. UNCHANGED <<turns, writer, procs, registry, confirmed, link, outbox, orphaned>>
      BY <1>2 DEF NextCommand
    <3>6. QED
      BY <3>2, <3>3, <3>4, <3>5, QuietStep DEF ControlInv, ForkExists
  <2>3. QED
    BY <2>1, <2>2
<1>3. CASE StartQueued(a)
  <2>1. /\ act'[a].pc = IF link.state = "ready" THEN "acquire" ELSE "giveback"
        /\ \A b \in Actors : b # a => act'[b] = act[b]
    BY <1>3 DEF StartQueued, ActsOK, Acts
  <2>2. lock = a /\ lock' = a
    BY <1>0, <1>3 DEF StartQueued, HoldsLock, At, UnderLock
  <2>3. UNCHANGED <<turns, writer, procs, registry, confirmed, link, outbox, orphaned>>
    BY <1>3 DEF StartQueued
  <2>4. link.state = "ready" => ~orphaned
    BY DEF ControlInv, OrphanIsLost
  <2>5. Fits(a)' /\ ~At(a, Starts)'
    BY <2>1, <2>2, <2>3, <2>4 DEF Fits, SeesTurn, HoldsLock, LinkFits, WorkerFits, FinisherIsSafe,
       KeepsOffOrphan, At, Sees, Forks, Opens, Starts
  <2>6. QED
    BY <2>1, <2>2, <2>3, <2>5, QuietStep DEF ControlInv, ForkExists
<1>4. CASE GiveBack(a)
  BY <1>0, <1>4, LeaveQuiet, GotoQuiet DEF GiveBack, HoldsLock, At, Sees, Forks, Opens, Starts,
     UnderLock, Carrying
<1>5. QED
  BY <1>1, <1>2, <1>3, <1>4 DEF Queue

\* A goroutine that opens a turn has the lock, and then nobody else forks, starts, aborts or
\* finishes one.
LEMMA OpenerIsAlone ==
  ASSUME ControlInv, NEW a \in Actors, At(a, Opens), NEW b \in Actors, b # a
  PROVE  /\ lock = a /\ link.state = "ready" /\ ~orphaned
         /\ ~At(b, Forks \cup Opens \cup Starts \cup {"abort", "finish"})
<1>1. lock = a /\ link.state = "ready" /\ ~orphaned
  BY DEF ControlInv, Fits, HoldsLock, LinkFits, KeepsOffOrphan, At, Opens, UnderLock
<1>2. Fits(b)
  BY DEF ControlInv
<1>3. QED
  BY <1>1, <1>2 DEF Fits, HoldsLock, LinkFits, At, Forks, Opens, Starts, UnderLock

\* The same with nobody else around.
LEMMA OpenerHasLock ==
  ASSUME ControlInv, NEW a \in Actors, At(a, Opens)
  PROVE  lock = a /\ link.state = "ready" /\ ~orphaned /\ \A w \in Workers : ~Lives(w)
<1>1. lock = a /\ link.state = "ready" /\ ~orphaned
  BY DEF ControlInv, Fits, HoldsLock, LinkFits, KeepsOffOrphan, At, Opens, UnderLock
<1>2. QED
  BY <1>1 DEF ControlInv, WorkedBelongsToLink

\* Giving up before the link was taken keeps the invariant.
LEMMA AbortQuiet ==
  ASSUME ActsOK, ControlInv, NEW a \in Actors, NotStarted(a),
         At(a, Opens) \/ (At(a, Forks) /\ act[a].cmd = 0),
         UNCHANGED <<turns, writer, procs, registry, confirmed, link, outbox, orphaned>>
  PROVE  ControlInv'
<1>1. /\ act'[a].pc = "abort" /\ lock' = lock /\ act'[a].cmd = act[a].cmd
      /\ \A b \in Actors : b # a => act'[b] = act[b]
  BY NotStartedEffect, GotoEffect
<1>2. Fits(a)' /\ ~At(a, Starts)'
  <2>1. CASE At(a, Opens)
    BY <1>1, <2>1, OpenerHasLock DEF Fits, SeesTurn, HoldsLock, LinkFits, WorkerFits,
       FinisherIsSafe, KeepsOffOrphan, At, Sees, Forks, Opens, Starts
  <2>2. CASE At(a, Forks) /\ act[a].cmd = 0
    BY <1>1, <2>2 DEF ControlInv, Fits, SeesTurn, HoldsLock, LinkFits, WorkerFits, FinisherIsSafe,
       KeepsOffOrphan, Carries, At, Sees, Forks, Opens, Starts, UnderLock
  <2>3. QED
    BY <2>1, <2>2
<1>3. QED
  BY <1>1, <1>2, QuietStep DEF ControlInv, ForkExists

\* Starting a worker for a ready link keeps the invariant.
LEMMA AcquireControl ==
  ASSUME IInv, NEW a \in Actors, Acquire(a)
  PROVE  ControlInv'
<1> USE DEF IInv, TypeOK
<1> DEFINE w == NewWorker
<1>1. At(a, Opens) /\ Acquired(a, w, TRUE, "resume")
  BY DEF Acquire, At, Opens
<1>2. UNCHANGED <<turns, writer, link, outbox, orphaned, lock>>
  BY DEF Acquire, Acquired, codex, store, history
<1>3. w \in Workers /\ procs[w].gen = 0
  BY <1>1, AcquiredTyped DEF Unused, Pcs
<1>4. /\ act'[a].pc = "resume" /\ act'[a].worker = w /\ act'[a].cmd = act[a].cmd
      /\ \A b \in Actors : b # a => act'[b] = act[b]
  BY <1>1 DEF Acquired, ActsOK, Acts
<1>5. /\ procs'[w].gen # 0 /\ ~procs'[w].worked
      /\ \A v \in Workers : v # w => procs'[v] = procs[v]
      /\ registry' = w /\ confirmed' = 0
  BY <1>1, <1>3 DEF Acquired, ManagerOK, Processes
<1> HIDE DEF w
<1>6. lock = a /\ link.state = "ready" /\ ~orphaned /\ \A v \in Workers : ~Lives(v)
  BY <1>1, OpenerHasLock
<1>7. Fits(a)' /\ ~At(a, Starts)'
  BY <1>2, <1>3, <1>4, <1>5, <1>6 DEF Fits, SeesTurn, HoldsLock, LinkFits, WorkerFits,
     FinisherIsSafe, KeepsOffOrphan, At, Sees, Forks, Opens, Starts
<1>8. \A b \in Actors : b # a => Fits(b)' /\ ~At(b, Starts)'
  BY <1>1, <1>2, <1>4, OpenerIsAlone, OthersFit
<1>9. (WorkedBelongsToLink /\ OrphanIsLost /\ LinkIsNumbered /\ PendingIsStored)'
  BY <1>2, <1>3, <1>5, <1>6 DEF WorkedBelongsToLink, OrphanIsLost, LinkIsNumbered,
     PendingIsStored, Lives
<1>10. (ForkExists /\ OneStarter)'
  BY <1>2, <1>7, <1>8 DEF ControlInv, ForkExists, OneStarter
<1>11. QED
  BY <1>7, <1>8, <1>9, <1>10 DEF ControlInv

\* Loading the fork into the worker keeps the invariant.
LEMMA ResumeControl ==
  ASSUME IInv, NEW a \in Actors, Resume(a)
  PROVE  ControlInv'
<1> USE DEF IInv, TypeOK
<1>1. At(a, Opens) /\ Goto(a, "take")
  BY DEF Resume, At, Opens
<1>2. UNCHANGED <<turns, procs, registry, confirmed, link, outbox, orphaned>>
  BY DEF Resume, manager, store, history
<1>3. lock = a /\ link.state = "ready" /\ ~orphaned
  BY <1>1, OpenerHasLock
<1>4. Fits(a)' /\ ~At(a, Starts)'
  BY <1>1, <1>2, <1>3, GotoEffect DEF Resume, ControlInv, Fits, SeesTurn, HoldsLock, LinkFits,
     WorkerFits, FinisherIsSafe, KeepsOffOrphan, At, Sees, Forks, Opens, Starts
<1>5. turns # <<>>
  BY <1>3 DEF ControlInv, ForkExists
<1>6. QED
  BY <1>1, <1>2, <1>4, <1>5, GotoEffect, QuietStep

\* Taking the ready link for a turn keeps the invariant.
LEMMA TakeLinkControl ==
  ASSUME IInv, NEW a \in Actors, TakeLink(a)
  PROVE  ControlInv'
<1> USE DEF IInv, TypeOK
<1> DEFINE gen == procs[act[a].worker].gen
<1>1. At(a, Opens)
  BY DEF TakeLink, At, Opens
<1>2. UNCHANGED <<turns, writer, procs, registry, confirmed, outbox, orphaned>>
  BY DEF TakeLink, codex, manager, history
<1>3. CASE NotStarted(a) /\ UNCHANGED link
  BY <1>1, <1>2, <1>3, AbortQuiet
<1>4. CASE link' = [state |-> "running", gen |-> gen, turn |-> 0] /\ Goto(a, "turn")
  <2>1. lock = a /\ link.state = "ready" /\ ~orphaned /\ \A v \in Workers : ~Lives(v)
    BY <1>1, OpenerHasLock
  <2>2. /\ act[a].worker \in Workers /\ gen # 0 /\ ~procs[act[a].worker].worked
        /\ confirmed = 0 /\ registry \in {act[a].worker, None}
    BY DEF TakeLink, ControlInv, Fits, WorkerFits, At
  <2>3. Fits(a)'
    BY <1>2, <1>4, <2>1, <2>2, GotoEffect DEF Fits, SeesTurn, HoldsLock, LinkFits, WorkerFits,
       FinisherIsSafe, KeepsOffOrphan, At, Sees, Forks, Opens, Starts
  <2>4. \A b \in Actors : b # a => Fits(b)' /\ ~At(b, Starts)'
    BY <1>1, <1>2, <1>4, GotoEffect, OpenerIsAlone, OthersFit
  <2>5. (WorkedBelongsToLink /\ OrphanIsLost /\ LinkIsNumbered /\ PendingIsStored)'
    BY <1>2, <1>4, <2>1, <2>2 DEF WorkedBelongsToLink, OrphanIsLost, LinkIsNumbered,
       PendingIsStored, Lives
  <2>6. (ForkExists /\ OneStarter)'
    BY <1>2, <2>1, <2>4 DEF ControlInv, ForkExists, OneStarter
  <2>7. QED
    BY <2>3, <2>4, <2>5, <2>6 DEF ControlInv
<1>5. QED
  BY <1>3, <1>4 DEF TakeLink

\* While a turn is being started nobody else forks, opens, starts or aborts one.
LEMMA StarterIsAlone ==
  ASSUME ControlInv, NEW a \in Actors, At(a, Starts)
  PROVE  /\ link.state = "running" /\ link.turn = 0 /\ ~orphaned /\ link.gen # 0
         /\ act[a].worker \in Workers /\ link.gen = procs[act[a].worker].gen
         /\ confirmed = 0 /\ registry \in {act[a].worker, None}
         /\ \A b \in Actors : b # a => ~At(b, Forks \cup Opens \cup Starts \cup {"abort"})
<1>1. /\ link.state = "running" /\ link.turn = 0 /\ ~orphaned /\ link.gen # 0
      /\ act[a].worker \in Workers /\ link.gen = procs[act[a].worker].gen
      /\ confirmed = 0 /\ registry \in {act[a].worker, None}
  BY DEF ControlInv, Fits, LinkFits, WorkerFits, KeepsOffOrphan, LinkIsNumbered, At, Starts
<1>2. ASSUME NEW b \in Actors, b # a
      PROVE  ~At(b, Forks \cup Opens \cup Starts \cup {"abort"})
  BY <1>1, <1>2 DEF ControlInv, OneStarter, Fits, LinkFits, At, Forks, Opens, Starts
<1>3. QED
  BY <1>1, <1>2

\* So the others fit whatever the starter does to the link and its worker.
LEMMA OthersFitStart ==
  ASSUME ControlInv, NEW a \in Actors, At(a, Starts), NEW b \in Actors, b # a,
         act'[b] = act[b], DOMAIN turns \subseteq DOMAIN turns', lock' = lock,
         link'.state # "pending", UNCHANGED orphaned
  PROVE  Fits(b)' /\ ~At(b, Starts)'
<1>1. ~At(b, Forks \cup Opens \cup Starts \cup {"abort"}) /\ ~orphaned
  BY StarterIsAlone
<1>2. SeesTurn(b)' /\ HoldsLock(b)'
  BY DEF ControlInv, Fits, SeesTurn, HoldsLock, Carries, At
<1>3. FinisherIsSafe(b)' /\ KeepsOffOrphan(b)'
  BY <1>1 DEF FinisherIsSafe, Finishable, KeepsOffOrphan
<1>4. QED
  BY <1>1, <1>2, <1>3 DEF Fits, LinkFits, WorkerFits, At, Forks, Opens, Starts

\* What a turn that Codex starts changes.
LEMMA TurnStartedEffect ==
  ASSUME TypeOK, NEW a \in Actors, act[a].worker \in Workers, TurnStarted(a)
  PROVE  /\ turns' = Append(turns, "running") /\ Len(turns) < MaxTurns
         /\ DOMAIN turns' = DOMAIN turns \cup {Len(turns) + 1}
         /\ Len(turns') = Len(turns) + 1 /\ turns' # <<>>
         /\ turns'[Len(turns) + 1] = "running"
         /\ \A t \in DOMAIN turns : turns'[t] = turns[t]
         /\ procs'[act[a].worker].worked
         /\ \A w \in Workers : /\ procs'[w].gen = procs[w].gen /\ procs'[w].alive = procs[w].alive
                               /\ w # act[a].worker => procs'[w].worked = procs[w].worked
         /\ writer = act[a].worker
<1>1. turns' = Append(turns, "running") /\ Len(turns) < MaxTurns /\ writer = act[a].worker
  BY DEF TurnStarted
<1>2. /\ DOMAIN turns' = DOMAIN turns \cup {Len(turns) + 1}
      /\ Len(turns') = Len(turns) + 1 /\ turns' # <<>>
      /\ turns'[Len(turns) + 1] = "running"
      /\ \A t \in DOMAIN turns : turns'[t] = turns[t]
  BY <1>1 DEF TypeOK, CodexOK
<1>3. /\ procs'[act[a].worker].worked
      /\ \A w \in Workers : /\ procs'[w].gen = procs[w].gen /\ procs'[w].alive = procs[w].alive
                            /\ w # act[a].worker => procs'[w].worked = procs[w].worked
  BY DEF TurnStarted, TypeOK, ManagerOK, Processes
<1>4. QED
  BY <1>1, <1>2, <1>3

\* A turn that Codex started, answered or not, keeps the invariant: its process belongs to
\* the link, or the link fails.
LEMMA StartTurnControl ==
  ASSUME IInv, NEW a \in Actors, StartTurn(a)
  PROVE  ControlInv'
<1> USE DEF IInv, TypeOK
<1> DEFINE w == act[a].worker
<1>1. At(a, Starts) /\ At(a, {"turn"})
  BY DEF StartTurn, At, Starts
<1>2. /\ link.state = "running" /\ link.turn = 0 /\ ~orphaned /\ link.gen # 0
      /\ w \in Workers /\ link.gen = procs[w].gen /\ confirmed = 0 /\ registry \in {w, None}
  BY <1>1, StarterIsAlone
<1>3. UNCHANGED <<writer, registry, confirmed, link, outbox, orphaned, lock>>
  BY DEF StartTurn, manager, store
<1>4. /\ DOMAIN turns \subseteq DOMAIN turns' /\ turns' # <<>>
      /\ procs'[w].worked
      /\ \A v \in Workers : /\ procs'[v].gen = procs[v].gen /\ procs'[v].alive = procs[v].alive
                            /\ v # w => procs'[v].worked = procs[v].worked
  BY <1>2, TurnStartedEffect DEF StartTurn
<1>5. /\ act'[a].pc = "persist" /\ act'[a].worker = w /\ act'[a].cmd = act[a].cmd
      /\ \A b \in Actors : b # a => act'[b] = act[b]
  BY DEF StartTurn, ActsOK, Acts
<1> HIDE DEF w
<1>6. Fits(a)'
  <2>1. act[a].cmd # 0 => lock = a
    BY <1>1 DEF ControlInv, Fits, HoldsLock, Carries, At, Carrying
  <2>2. QED
    BY <1>2, <1>3, <1>4, <1>5, <2>1 DEF Fits, SeesTurn, HoldsLock, LinkFits, WorkerFits,
       FinisherIsSafe, KeepsOffOrphan, Carries, At, Sees, Forks, Opens, Starts, UnderLock
<1>7. \A b \in Actors : b # a => Fits(b)' /\ ~At(b, Starts)'
  BY <1>1, <1>2, <1>3, <1>4, <1>5, OthersFitStart
<1>8. WorkedBelongsToLink'
  BY <1>2, <1>3, <1>4 DEF ControlInv, WorkedBelongsToLink, Lives
<1>9. (ForkExists /\ OneStarter /\ OrphanIsLost /\ LinkIsNumbered /\ PendingIsStored)'
  BY <1>2, <1>3, <1>4, <1>7 DEF ForkExists, OneStarter, OrphanIsLost, LinkIsNumbered, PendingIsStored
<1>10. QED
  BY <1>6, <1>7, <1>8, <1>9 DEF ControlInv

\* A start without an answer fails the link, whether Codex started the turn or not.
LEMMA StartTurnFailsControl ==
  ASSUME IInv, NEW a \in Actors, StartTurnFails(a)
  PROVE  ControlInv'
<1> USE DEF IInv, TypeOK
<1>1. At(a, Starts)
  BY DEF StartTurnFails, At, Starts
<1>2. /\ link.state = "running" /\ link.turn = 0 /\ ~orphaned
      /\ act[a].worker \in Workers /\ link.gen = procs[act[a].worker].gen
  BY <1>1, StarterIsAlone
<1>3. UNCHANGED <<writer, registry, confirmed, outbox, orphaned, lock>>
  BY DEF StartTurnFails, manager
<1>4. DOMAIN turns \subseteq DOMAIN turns' /\ (turns # <<>> => turns' # <<>>)
  BY <1>2, TurnStartedEffect DEF StartTurnFails
<1>5. link'.state = "failed"
  BY <1>2 DEF StartTurnFails, FailLink, StoreOK, Links
<1>6. /\ act'[a].pc = "abort" /\ act'[a].cmd = act[a].cmd
      /\ \A b \in Actors : b # a => act'[b] = act[b]
  BY DEF StartTurnFails, ActsOK, Acts
<1>7. Fits(a)' /\ ~At(a, Starts)'
  <2>1. act[a].cmd # 0 => lock = a
    BY <1>1 DEF ControlInv, Fits, HoldsLock, Carries, At, Carrying, Starts
  <2>2. QED
    BY <1>3, <1>5, <1>6, <2>1 DEF Fits, SeesTurn, HoldsLock, LinkFits, WorkerFits,
       FinisherIsSafe, KeepsOffOrphan, Carries, At, Sees, Forks, Opens, Starts, UnderLock
<1>8. \A b \in Actors : b # a => Fits(b)' /\ ~At(b, Starts)'
  BY <1>1, <1>3, <1>4, <1>5, <1>6, OthersFitStart
<1>9. (WorkedBelongsToLink /\ OrphanIsLost /\ LinkIsNumbered /\ PendingIsStored)'
  BY <1>2, <1>3, <1>5 DEF WorkedBelongsToLink, OrphanIsLost, LinkIsNumbered, PendingIsStored
<1>10. (ForkExists /\ OneStarter)'
  BY <1>2, <1>3, <1>4, <1>7, <1>8 DEF ControlInv, ForkExists, OneStarter
<1>11. QED
  BY <1>7, <1>8, <1>9, <1>10 DEF ControlInv

\* Recording the started turn keeps the invariant.
LEMMA PersistStartControl ==
  ASSUME IInv, NEW a \in Actors, PersistStart(a)
  PROVE  ControlInv'
<1> USE DEF IInv, TypeOK
<1>1. At(a, Starts) /\ At(a, {"persist"})
  BY DEF PersistStart, At, Starts
<1>2. UNCHANGED <<turns, writer, procs, registry, confirmed, link, outbox, orphaned, lock>>
  BY DEF PersistStart, codex, manager, history, Goto
<1>3. /\ act'[a].pc = "mark" /\ act'[a].cmd = act[a].cmd /\ act'[a].worker = act[a].worker
      /\ \A b \in Actors : b # a => act'[b] = act[b]
  BY GotoEffect DEF PersistStart, ActsOK, Acts
<1>4. Fits(a)'
  BY <1>1, <1>2, <1>3 DEF ControlInv, Fits, SeesTurn, HoldsLock, LinkFits, WorkerFits,
     FinisherIsSafe, KeepsOffOrphan, Carries, At, Sees, Forks, Opens, Starts, UnderLock, Carrying
<1>5. QED
  BY <1>1, <1>2, <1>3, <1>4, QuietStep DEF ControlInv, ForkExists

\* The link learns its turn from the goroutine that started it.
LEMMA MarkControl ==
  ASSUME IInv, NEW a \in Actors, Mark(a)
  PROVE  ControlInv'
<1> USE DEF IInv, TypeOK
<1>1. At(a, Starts) /\ At(a, {"mark"})
  BY DEF Mark, At, Starts
<1>2. link.state = "running" /\ ~orphaned /\ link.gen # 0
  BY <1>1, StarterIsAlone
<1>3. UNCHANGED <<turns, writer, procs, registry, confirmed, outbox, orphaned, lock>>
  BY DEF Mark, codex, manager, history
<1>4. link'.state = link.state /\ link'.gen = link.gen
  BY DEF Mark, StoreOK, Links
<1>5. /\ act'[a].pc = "complete" /\ act'[a].cmd = act[a].cmd
      /\ \A b \in Actors : b # a => act'[b] = act[b]
  BY DEF Mark, ActsOK, Acts
<1>6. Fits(a)' /\ ~At(a, Starts)'
  <2>1. act[a].cmd # 0 => lock = a
    BY <1>1 DEF ControlInv, Fits, HoldsLock, Carries, At, Carrying
  <2>2. QED
    BY <1>3, <1>5, <2>1 DEF Fits, SeesTurn, HoldsLock, LinkFits, WorkerFits,
       FinisherIsSafe, KeepsOffOrphan, Carries, At, Sees, Forks, Opens, Starts, UnderLock
<1>7. \A b \in Actors : b # a => Fits(b)' /\ ~At(b, Starts)'
  BY <1>1, <1>2, <1>3, <1>4, <1>5, OthersFitStart
<1>8. (WorkedBelongsToLink /\ OrphanIsLost /\ LinkIsNumbered /\ PendingIsStored)'
  BY <1>2, <1>3, <1>4 DEF ControlInv, WorkedBelongsToLink, OrphanIsLost, LinkIsNumbered,
     PendingIsStored, Lives
<1>9. (ForkExists /\ OneStarter)'
  BY <1>2, <1>3, <1>6, <1>7 DEF ControlInv, ForkExists, OneStarter
<1>10. QED
  BY <1>6, <1>7, <1>8, <1>9 DEF ControlInv

\* Completing a command touches neither the link nor its worker.
LEMMA CompleteControl ==
  ASSUME IInv, NEW a \in Actors, Complete(a)
  PROVE  ControlInv'
BY LeaveQuiet, AnsweredQuiet DEF IInv, TypeOK, Complete, codex, manager, history

\* Releasing the worker of a start that failed keeps the invariant.
LEMMA AbortControl ==
  ASSUME IInv, NEW a \in Actors, Abort(a)
  PROVE  ControlInv'
<1> USE DEF IInv, TypeOK
<1>1. /\ act[a].pc = "abort" /\ link.state \in {"none", "ready", "failed"}
      /\ link.state = "ready" => lock = a
      /\ link.state = "none" => a = Bot
      /\ act[a].cmd # 0 => lock = a
      /\ act[a].cmd = 0 => a = Bot
  BY DEF Abort, ControlInv, CommandsInv, CommandFits, Fits, LinkFits, HoldsLock, Carries, At, Carrying
<1>2. UNCHANGED <<link, outbox, orphaned>>
  BY DEF Abort, store, history
<1>3. /\ DOMAIN turns' = DOMAIN turns /\ (turns' = <<>> <=> turns = <<>>)
      /\ writer' \in {writer, None}
      /\ \A v \in Workers : /\ procs'[v].gen = procs[v].gen /\ procs'[v].worked = procs[v].worked
                            /\ procs'[v].alive => procs[v].alive
      /\ registry' \in {registry, None}
      /\ registry = None => UNCHANGED confirmed
  <2>1. act[a].worker \in Workers \cup {None}
    BY ActFields
  <2>2. CASE UNCHANGED <<codex, procs, manager>>
    BY <2>2 DEF codex, manager
  <2>3. CASE act[a].worker \in Workers /\ Close(act[a].worker, procs[act[a].worker].gen)
    BY <2>3, CloseEffect, NamesAssumption
  <2>4. QED
    BY <2>1, <2>2, <2>3 DEF Abort, ReleaseWorker
<1>4. /\ act'[a].pc \in {"idle", "giveback"}
      /\ act'[a].pc = "giveback" => lock' = a
      /\ \A b \in Actors : b # a => act'[b] = act[b]
      /\ \A b \in Actors : b # a /\ lock = b => lock' = b
  BY <1>1, AnsweredEffect, GotoEffect DEF Abort
<1>5. Fits(a)' /\ ~At(a, Starts)'
  BY <1>4 DEF Fits, SeesTurn, HoldsLock, LinkFits, WorkerFits, FinisherIsSafe, KeepsOffOrphan,
     Carries, At, Sees, Forks, Opens, Starts, UnderLock, Carrying
<1>6. ASSUME NEW b \in Actors, b # a
      PROVE  Fits(b)' /\ ~At(b, Starts)'
  <2>1. Fits(b) /\ act'[b] = act[b] /\ (lock = b => lock' = b)
    BY <1>4, <1>6 DEF ControlInv
  <2>2. ~At(b, Forks \cup Opens \cup Starts)
    BY <1>1, <1>6, <2>1 DEF Fits, LinkFits, HoldsLock, At, Forks, Opens, Starts, UnderLock
  <2>3. (SeesTurn(b) /\ HoldsLock(b) /\ FinisherIsSafe(b) /\ KeepsOffOrphan(b))'
    BY <1>2, <1>3, <2>1 DEF Fits, SeesTurn, HoldsLock, FinisherIsSafe, KeepsOffOrphan, Carries,
       At, Lives, Finishable
  <2>4. (LinkFits(b) /\ WorkerFits(b))'
    BY <1>2, <2>1, <2>2 DEF Fits, LinkFits, WorkerFits, At, Forks, Opens, Starts
  <2>5. QED
    BY <2>1, <2>2, <2>3, <2>4 DEF Fits, At
<1>7. (WorkedBelongsToLink /\ OrphanIsLost /\ LinkIsNumbered /\ PendingIsStored)'
  BY <1>1, <1>2, <1>3 DEF ControlInv, WorkedBelongsToLink, OrphanIsLost, LinkIsNumbered,
     PendingIsStored, Lives
<1>8. (ForkExists /\ OneStarter)'
  BY <1>2, <1>3, <1>5, <1>6 DEF ControlInv, ForkExists, OneStarter
<1>9. QED
  BY <1>5, <1>6, <1>7, <1>8 DEF ControlInv

\* Every step of a goroutine that opens or starts a turn keeps the invariant.
LEMMA StartControl ==
  ASSUME IInv, NEW a \in Actors, Start(a)
  PROVE  ControlInv'
<1>1. CASE AcquireFails(a) \/ ResumeFails(a) \/ TakeFails(a)
  BY <1>1, AbortQuiet DEF IInv, TypeOK, AcquireFails, ResumeFails, TakeFails, At, Opens,
     codex, manager, store, history
<1>2. QED
  BY <1>1, AcquireControl, ResumeControl, TakeLinkControl, StartTurnControl, StartTurnFailsControl,
     PersistStartControl, MarkControl, CompleteControl, AbortControl DEF Start

\* Codex, the Desktop and the end of a process keep the invariant.
LEMMA CodexControl ==
  ASSUME IInv, Codex
  PROVE  ControlInv'
<1> USE DEF IInv, TypeOK
<1>1. /\ UNCHANGED <<registry, confirmed, link, outbox, orphaned, lock, act>>
  BY DEF Codex, Progress, OpenDesktop, CloseDesktop, DesktopTurn, ProcessDies, manager, store, history
<1>2. /\ DOMAIN turns \subseteq DOMAIN turns' /\ (turns' = <<>> <=> turns = <<>>)
      /\ writer' # None => turns # <<>>
  <2>1. CASE Progress
    BY <2>1 DEF Progress, CodexOK, ControlInv, ForkExists
  <2>2. CASE OpenDesktop
    BY <2>2 DEF OpenDesktop
  <2>3. CASE CloseDesktop
    BY <2>3, StoppedTurns DEF CloseDesktop, CodexOK
  <2>4. CASE DesktopTurn
    <3>1. turns # <<>> /\ turns' = Append(turns, "running") /\ writer' = writer
      BY <2>4, NamesAssumption DEF DesktopTurn, ControlInv, ForkExists
    <3>2. QED
      BY <3>1 DEF CodexOK
  <2>5. CASE \E w \in Workers : ProcessDies(w)
    BY <2>5, StoppedTurns DEF ProcessDies, CodexOK, ControlInv, ForkExists
  <2>6. QED
    BY <2>1, <2>2, <2>3, <2>4, <2>5 DEF Codex
<1>3. \A v \in Workers : /\ procs'[v].gen = procs[v].gen /\ procs'[v].worked = procs[v].worked
                         /\ procs'[v].alive => procs[v].alive
  BY DEF Codex, Progress, OpenDesktop, CloseDesktop, DesktopTurn, ProcessDies, ManagerOK, Processes
<1>4. ASSUME NEW b \in Actors
      PROVE  Fits(b)'
  <2>1. Fits(b)
    BY DEF ControlInv
  <2>2. (SeesTurn(b) /\ HoldsLock(b) /\ FinisherIsSafe(b) /\ KeepsOffOrphan(b))'
    BY <1>1, <1>2, <1>3, <2>1 DEF Fits, SeesTurn, HoldsLock, FinisherIsSafe, KeepsOffOrphan,
       Carries, At, Lives, Finishable
  <2>3. LinkFits(b)'
    BY <1>1, <1>2, <1>3, <2>1 DEF Fits, LinkFits, At, Starts
  <2>4. WorkerFits(b)'
    BY <1>1, <1>3, <2>1 DEF Fits, WorkerFits, At
  <2>5. QED
    BY <2>2, <2>3, <2>4 DEF Fits
<1>5. (ForkExists /\ OneStarter /\ OrphanIsLost /\ LinkIsNumbered /\ PendingIsStored)'
  BY <1>1, <1>2 DEF ControlInv, ForkExists, OneStarter, OrphanIsLost, LinkIsNumbered,
     PendingIsStored, At
<1>6. WorkedBelongsToLink'
  BY <1>1, <1>3 DEF ControlInv, WorkedBelongsToLink, Lives
<1>7. QED
  BY <1>4, <1>5, <1>6 DEF ControlInv

\* An observer has seen a turn of the fork.
LEMMA ReadControl ==
  ASSUME IInv, NEW a \in Actors, Read(a)
  PROVE  ControlInv'
<1> USE DEF IInv, TypeOK
<1>1. UNCHANGED <<turns, writer, procs, registry, confirmed, link, outbox, orphaned, lock>>
  BY DEF Read, codex, manager, store, history
<1>2. /\ act'[a].pc \in {"touch", "lock"} /\ act'[a].turn = Len(turns)
      /\ \A b \in Actors : b # a => act'[b] = act[b]
  BY DEF Read, ActsOK, Acts, Idle
<1>3. Len(turns) \in DOMAIN turns
  BY DEF Read, CodexOK
<1>4. Fits(a)' /\ ~At(a, Starts)'
  BY <1>1, <1>2, <1>3 DEF Fits, SeesTurn, HoldsLock, LinkFits, WorkerFits, FinisherIsSafe,
     KeepsOffOrphan, Carries, At, Sees, Forks, Opens, Starts, UnderLock, Carrying
<1>5. QED
  BY <1>1, <1>2, <1>4, QuietStep DEF ControlInv, ForkExists

\* The owner's message keeps the invariant.
LEMMA ReplyControl ==
  ASSUME IInv, Reply \/ BotReadFails \/ EnterReply
  PROVE  ControlInv'
<1> USE ActorNames DEF IInv, TypeOK
<1>0. UNCHANGED <<turns, writer, procs, registry, confirmed, link, outbox, orphaned>>
  BY DEF Reply, BotReadFails, EnterReply, codex, manager, store, history
<1>1. CASE Reply
  <2>1. CASE Goto(Bot, "read")
    BY <1>0, <2>1, GotoQuiet DEF Sees, Forks, Opens, Starts, UnderLock, Carrying
  <2>2. CASE link.state = "none" /\ turns = <<>> /\ Goto(Bot, "worker")
    <3>1. ~orphaned
      BY <2>2 DEF ControlInv, OrphanIsLost
    <3>2. Fits(Bot)' /\ ~At(Bot, Starts)'
      BY <1>0, <2>2, <3>1, GotoEffect DEF Fits, SeesTurn, HoldsLock, LinkFits, WorkerFits,
         FinisherIsSafe, KeepsOffOrphan, Carries, At, Sees, Forks, Opens, Starts, UnderLock, Carrying
    <3>3. QED
      BY <1>0, <2>2, <3>2, GotoEffect, QuietStep DEF ControlInv, ForkExists
  <2>3. CASE UNCHANGED <<lock, act>>
    <3>1. Fits(Bot)' /\ ~At(Bot, Starts)'
      BY <1>1, <2>3 DEF Reply, Fits, SeesTurn, HoldsLock, LinkFits, WorkerFits,
         FinisherIsSafe, KeepsOffOrphan, Carries, At, Sees, Forks, Opens, Starts, UnderLock, Carrying
    <3>2. QED
      BY <1>0, <2>3, <3>1, QuietStep DEF ControlInv, ForkExists
  <2>4. QED
    BY <1>1, <2>1, <2>2, <2>3 DEF Reply
<1>2. CASE BotReadFails
  BY <1>0, <1>2, AnsweredQuiet DEF BotReadFails
<1>3. CASE EnterReply
  <2>1. CASE Answered
    BY <1>0, <2>1, AnsweredQuiet
  <2>2. CASE /\ link.state = "ready" /\ lock = None
             /\ act' = [act EXCEPT ![Bot].pc = "acquire"] /\ lock' = Bot
    <3>1. act'[Bot].pc = "acquire" /\ \A b \in Actors : b # Bot => act'[b] = act[b]
      BY <2>2 DEF ActsOK, Acts
    <3>2. ~orphaned
      BY <2>2 DEF ControlInv, OrphanIsLost
    <3>3. Fits(Bot)' /\ ~At(Bot, Starts)'
      BY <1>0, <2>2, <3>1, <3>2 DEF Fits, SeesTurn, HoldsLock, LinkFits, WorkerFits,
         FinisherIsSafe, KeepsOffOrphan, At, Sees, Forks, Opens, Starts
    <3>4. QED
      BY <1>0, <2>2, <3>1, <3>3, QuietStep DEF ControlInv, ForkExists
  <2>3. QED
    BY <1>3, <2>1, <2>2 DEF EnterReply
<1>4. QED
  BY <1>1, <1>2, <1>3

\* While the bot forks there is no link, and no other goroutine has anything to do with one.
LEMMA ForkerIsAlone ==
  ASSUME ControlInv, At(Bot, Forks), NEW b \in Actors, b # Bot
  PROVE  ~At(b, Forks \cup Opens \cup Starts \cup {"abort"})
BY ActorNames DEF ControlInv, Fits, LinkFits, At, Forks, Opens, Starts

\* While the bot forks, the steps of the fork do not disturb the others.
LEMMA OthersFitFork ==
  ASSUME ControlInv, At(Bot, Forks), NEW b \in Actors, b # Bot,
         act'[b] = act[b], DOMAIN turns \subseteq DOMAIN turns', lock' = lock,
         link'.state # "pending", UNCHANGED orphaned
  PROVE  Fits(b)' /\ ~At(b, Starts)'
<1>1. ~At(b, Forks \cup Opens \cup Starts \cup {"abort"}) /\ ~orphaned
  BY ForkerIsAlone, ActorNames DEF ControlInv, Fits, KeepsOffOrphan, At
<1>2. SeesTurn(b)' /\ HoldsLock(b)'
  BY DEF ControlInv, Fits, SeesTurn, HoldsLock, Carries, At
<1>3. FinisherIsSafe(b)' /\ KeepsOffOrphan(b)'
  BY <1>1 DEF FinisherIsSafe, Finishable, KeepsOffOrphan
<1>4. QED
  BY <1>1, <1>2, <1>3 DEF Fits, LinkFits, WorkerFits, At, Forks, Opens, Starts

\* Making the fork, without the lock, keeps the invariant.
LEMMA CreateControl ==
  ASSUME IInv, Create
  PROVE  ControlInv'
<1> USE ActorNames DEF IInv, TypeOK
<1>0. /\ At(Bot, Forks) /\ act[Bot].cmd = 0 /\ link.state = "none" /\ ~orphaned
      /\ \A v \in Workers : ~Lives(v)
  <2>1. At(Bot, Forks)
    BY DEF Create, AcquireForFork, Fork, ForkFails, Activate, At, Forks
  <2>2. act[Bot].cmd = 0 /\ link.state = "none" /\ ~orphaned
    BY <2>1 DEF CommandsInv, CommandFits, ControlInv, Fits, LinkFits, KeepsOffOrphan, At
  <2>3. QED
    BY <2>1, <2>2 DEF ControlInv, WorkedBelongsToLink
<1>1. CASE AcquireForFork
  <2>1. CASE Fault /\ Answered /\ UNCHANGED <<codex, procs, manager>>
    BY <1>1, <2>1, AnsweredQuiet DEF AcquireForFork, codex, manager, history
  <2>2. CASE Acquired(Bot, NewWorker, FALSE, "fork")
    <3> DEFINE w == NewWorker
    <3>1. UNCHANGED <<turns, writer, registry, confirmed, link, outbox, orphaned, lock>>
      BY <1>1, <2>2 DEF AcquireForFork, Acquired, codex, history
    <3>2. w \in Workers
      BY <2>2, AcquiredTyped DEF Unused, Pcs
    <3>3. /\ act'[Bot].pc = "fork" /\ act'[Bot].worker = w /\ act'[Bot].cmd = 0
          /\ \A b \in Actors : b # Bot => act'[b] = act[b]
      BY <1>0, <2>2 DEF Acquired, ActsOK, Acts
    <3>4. /\ procs'[w].gen # 0 /\ ~procs'[w].worked
          /\ \A v \in Workers : v # w => procs'[v] = procs[v]
      BY <2>2, <3>2 DEF Acquired, ManagerOK, Processes
    <3> HIDE DEF w
    <3>5. turns = <<>>
      BY <1>1 DEF AcquireForFork, ControlInv, Fits, LinkFits, At
    <3>6. Fits(Bot)' /\ ~At(Bot, Starts)'
      BY <1>0, <3>1, <3>2, <3>3, <3>4, <3>5 DEF Fits, SeesTurn, HoldsLock, LinkFits, WorkerFits,
         FinisherIsSafe, KeepsOffOrphan, Carries, At, Sees, Forks, Opens, Starts, UnderLock
    <3>7. \A b \in Actors : b # Bot => Fits(b)' /\ ~At(b, Starts)'
      BY <1>0, <3>1, <3>3, OthersFitFork
    <3>8. (WorkedBelongsToLink /\ OrphanIsLost /\ LinkIsNumbered /\ PendingIsStored)'
      BY <1>0, <3>1, <3>4 DEF WorkedBelongsToLink, OrphanIsLost, LinkIsNumbered, PendingIsStored, Lives
    <3>9. (ForkExists /\ OneStarter)'
      BY <3>1, <3>6, <3>7 DEF ControlInv, ForkExists, OneStarter
    <3>10. QED
      BY <3>6, <3>7, <3>8, <3>9 DEF ControlInv
  <2>3. QED
    BY <1>1, <2>1, <2>2 DEF AcquireForFork
<1>2. CASE Fork
  <2> DEFINE w == act[Bot].worker
  <2>1. w \in Workers /\ procs[w].gen # 0 /\ ~procs[w].worked /\ turns = <<>>
    BY <1>2 DEF Fork, ControlInv, Fits, LinkFits, WorkerFits, At
  <2>2. /\ turns' = <<"over">> /\ registry' = w /\ confirmed' = 0
        /\ UNCHANGED <<procs, link, outbox, orphaned>>
    BY <1>2 DEF Fork, store, history
  <2>3. /\ act'[Bot].pc = "activate" /\ act'[Bot].worker = w /\ act'[Bot].cmd = 0 /\ lock' = lock
        /\ \A b \in Actors : b # Bot => act'[b] = act[b]
    BY <1>0, <1>2, GotoEffect DEF Fork
  <2> HIDE DEF w
  <2>4. turns' # <<>> /\ DOMAIN turns \subseteq DOMAIN turns'
    BY <2>1, <2>2
  <2>5. Fits(Bot)' /\ ~At(Bot, Starts)'
    BY <1>0, <2>1, <2>2, <2>3, <2>4 DEF Fits, SeesTurn, HoldsLock, LinkFits, WorkerFits,
       FinisherIsSafe, KeepsOffOrphan, Carries, At, Sees, Forks, Opens, Starts, UnderLock
  <2>6. \A b \in Actors : b # Bot => Fits(b)' /\ ~At(b, Starts)'
    BY <1>0, <2>2, <2>3, <2>4, OthersFitFork
  <2>7. (WorkedBelongsToLink /\ OrphanIsLost /\ LinkIsNumbered /\ PendingIsStored)'
    BY <1>0, <2>2 DEF WorkedBelongsToLink, OrphanIsLost, LinkIsNumbered, PendingIsStored, Lives
  <2>8. (ForkExists /\ OneStarter)'
    BY <2>4, <2>5, <2>6 DEF ForkExists, OneStarter
  <2>9. QED
    BY <2>5, <2>6, <2>7, <2>8 DEF ControlInv
<1>3. CASE ForkFails
  BY <1>0, <1>3, AbortQuiet DEF ForkFails, codex, manager, history
<1>4. CASE Activate
  <2> DEFINE w == act[Bot].worker
  <2>1. /\ w \in Workers /\ procs[w].gen # 0 /\ ~procs[w].worked /\ turns # <<>>
        /\ confirmed = 0 /\ registry \in {w, None}
    BY <1>4 DEF Activate, ControlInv, Fits, LinkFits, WorkerFits, At
  <2>2. UNCHANGED <<turns, writer, procs, registry, confirmed, outbox, orphaned>>
    BY <1>4 DEF Activate, codex, manager, history
  <2>3. CASE NotStarted(Bot) /\ UNCHANGED link
    BY <1>0, <2>2, <2>3, AbortQuiet
  <2>4. CASE link' = [state |-> "running", gen |-> procs[w].gen, turn |-> 0] /\ Goto(Bot, "turn")
    <3>1. Fits(Bot)'
      BY <1>0, <2>1, <2>2, <2>4, GotoEffect DEF Fits, SeesTurn, HoldsLock, LinkFits, WorkerFits,
         FinisherIsSafe, KeepsOffOrphan, Carries, At, Sees, Forks, Opens, Starts, UnderLock
    <3>2. \A b \in Actors : b # Bot => Fits(b)' /\ ~At(b, Starts)'
      BY <1>0, <2>2, <2>4, GotoEffect, OthersFitFork
    <3>3. (WorkedBelongsToLink /\ OrphanIsLost /\ LinkIsNumbered /\ PendingIsStored)'
      BY <1>0, <2>1, <2>2, <2>4 DEF WorkedBelongsToLink, OrphanIsLost, LinkIsNumbered,
         PendingIsStored, Lives
    <3>4. (ForkExists /\ OneStarter)'
      BY <2>1, <2>2, <3>2 DEF ForkExists, OneStarter
    <3>5. QED
      BY <3>1, <3>2, <3>3, <3>4 DEF ControlInv
  <2>5. QED
    BY <1>4, <2>3, <2>4 DEF Activate
<1>5. QED
  BY <1>1, <1>2, <1>3, <1>4 DEF Create

\* What a restart leaves behind.
LEMMA RestartEffect ==
  ASSUME IInv, Restart
  PROVE  /\ \A a \in Actors : act'[a] = Idle
         /\ lock' = None /\ registry' = None /\ confirmed' = 0
         /\ \A v \in Workers : /\ procs'[v].gen = procs[v].gen /\ procs'[v].worked = procs[v].worked
                               /\ procs'[v].alive => procs[v].alive
         /\ DOMAIN turns' = DOMAIN turns /\ (turns' = <<>> <=> turns = <<>>)
         /\ \/ UNCHANGED <<turns, writer>> /\ (writer \in Workers => procs'[writer].alive)
            \/ writer \in Workers /\ writer' = None /\ turns' = Stopped(writer)
         /\ cmds' = RecoveredCommands
         /\ link'.gen = link.gen /\ link'.turn = link.turn
         /\ link'.state = IF link.state = "running" THEN "pending" ELSE link.state
         /\ orphaned' <=> (orphaned \/ link.state \in {"running", "pending"})
         /\ UNCHANGED <<outbox, notices, replies, started>>
<1> USE DEF IInv, TypeOK
<1>0. PICK survivors \in SUBSET Workers :
         /\ \A w \in survivors : procs[w].alive
         /\ procs' = [w \in Workers |->
              [procs[w] EXCEPT !.open = FALSE, !.alive = w \in survivors]]
         /\ writer' = IF writer \in Workers \ survivors THEN None ELSE writer
         /\ turns' = IF writer \in Workers \ survivors THEN Stopped(writer) ELSE turns
  BY Zenon DEF Restart
<1>1. /\ lock' = None /\ registry' = None /\ confirmed' = 0 /\ cmds' = RecoveredCommands
      /\ act' = [a \in Actors |-> Idle]
      /\ link' = IF link.state = "running" THEN [link EXCEPT !.state = "pending"] ELSE link
      /\ orphaned' = (orphaned \/ link.state \in {"running", "pending"})
      /\ UNCHANGED <<outbox, notices, replies, started>>
  BY Zenon DEF Restart
<1>2. \A v \in Workers : /\ procs'[v].gen = procs[v].gen /\ procs'[v].worked = procs[v].worked
                         /\ procs'[v].alive = (v \in survivors)
  BY <1>0 DEF ManagerOK, Processes
<1>4. /\ link'.gen = link.gen /\ link'.turn = link.turn
      /\ link'.state = IF link.state = "running" THEN "pending" ELSE link.state
  BY <1>1 DEF StoreOK, Links
<1>5. \/ UNCHANGED <<turns, writer>> /\ (writer \in Workers => writer \in survivors)
      \/ writer \in Workers /\ writer' = None /\ turns' = Stopped(writer)
  BY <1>0
<1>3. DOMAIN turns' = DOMAIN turns /\ (turns' = <<>> <=> turns = <<>>)
  <2>1. turns' = turns \/ turns' = Stopped(writer)
    BY <1>5
  <2>2. CASE turns' = Stopped(writer)
    BY <2>2, StoppedTurns
  <2>3. QED
    BY <2>1, <2>2
<1>6. orphaned' <=> (orphaned \/ link.state \in {"running", "pending"})
  BY <1>1
<1>7. \A a \in Actors : act'[a] = Idle
  BY <1>1
<1>8. QED
  BY <1>0, <1>1, <1>2, <1>3, <1>4, <1>5, <1>6, <1>7

\* A restart keeps the invariant: a link that was not handed back is orphaned.
LEMMA RestartControl ==
  ASSUME IInv, Restart
  PROVE  ControlInv'
<1> USE DEF IInv
<1>1. \A a \in Actors : Fits(a)' /\ ~At(a, Starts)'
  BY RestartEffect DEF Idle, Fits, SeesTurn, HoldsLock, LinkFits, WorkerFits, FinisherIsSafe,
     KeepsOffOrphan, Carries, At, Sees, Forks, Opens, Starts, UnderLock, Carrying
<1>2. link.state = "none" => ~orphaned
  BY DEF ControlInv, OrphanIsLost
<1>3. WorkedBelongsToLink'
  BY RestartEffect DEF ControlInv, WorkedBelongsToLink, Lives
<1>4. (OrphanIsLost /\ LinkIsNumbered /\ PendingIsStored)'
  BY RestartEffect DEF ControlInv, OrphanIsLost, LinkIsNumbered, PendingIsStored
<1>5. (ForkExists /\ OneStarter)'
  <2>1. writer' # None => writer # None
    BY RestartEffect
  <2>2. QED
    BY <1>1, <2>1, RestartEffect DEF ControlInv, ForkExists, OneStarter
<1>6. QED
  BY <1>1, <1>3, <1>4, <1>5 DEF ControlInv

\* Every step keeps it.
LEMMA NextControl ==
  ASSUME IInv, [Next]_vars
  PROVE  ControlInv'
<1>1. CASE Codex
  BY <1>1, CodexControl
<1>2. CASE Reply \/ BotReadFails \/ EnterReply
  BY <1>2, ReplyControl
<1>3. CASE BotRead \/ PollRead \/ \E w \in Workers : WorkerEvent(w)
  BY <1>3, ReadControl, ActorNames DEF BotRead, PollRead, WorkerEvent
<1>4. CASE Create
  BY <1>4, CreateControl
<1>5. CASE Repair \/ Restart
  BY <1>5, RepairControl, RestartControl
<1>6. CASE \E a \in Busy : Steps(a)
  BY <1>6, ObserveControl, QueueControl, StartControl DEF Steps, Busy
<1>7. CASE UNCHANGED vars
  BY <1>7, QuietStep, ActorNames DEF IInv, ControlInv, ForkExists, OneStarter, WorkedBelongsToLink,
     OrphanIsLost, LinkIsNumbered, PendingIsStored, Fits, SeesTurn, HoldsLock, LinkFits, WorkerFits,
     FinisherIsSafe, KeepsOffOrphan, Carries, At, Lives, Finishable, vars, codex, manager, store,
     history
<1>8. QED
  BY <1>1, <1>2, <1>3, <1>4, <1>5, <1>6, <1>7 DEF Next

-----------------------------------------------------------------------------
(***************************************************************************)
(* The turns of Codex, and what the owner is told about them.              *)
(***************************************************************************)
Recording == {"persist", "mark"}

\* Nothing happens to the turns, or their process ends and they are all over.
TurnsKept ==
  \/ /\ UNCHANGED <<turns, writer>>
     /\ writer \in Workers =>
          procs'[writer].alive /\ (procs[writer].worked => procs'[writer].worked)
  \/ /\ writer' = None /\ DOMAIN turns' = DOMAIN turns
     /\ \A t \in DOMAIN turns : turns'[t] = "over"

\* The end of the process that has the thread.
LEMMA StoppedAllOver ==
  ASSUME TypeOK, TurnsInv, NEW w, writer = w, turns' = Stopped(w), writer' = None
  PROVE  TurnsKept
<1>1. ASSUME NEW t \in DOMAIN turns
      PROVE  turns'[t] = "over"
  <2>1. CASE t = Len(turns)
    BY <2>1, StoppedTurns DEF TypeOK
  <2>2. CASE t # Len(turns)
    BY <2>2, StoppedTurns DEF TypeOK, TurnsInv, LastTurnRuns
  <2>3. QED
    BY <2>1, <2>2
<1>2. QED
  BY <1>1, StoppedTurns DEF TurnsKept, TypeOK

\* Such a step keeps what is known of the turns if it announces and records nothing.
LEMMA TurnsFrame ==
  ASSUME TurnsInv, TurnsKept, UNCHANGED notices, outbox \subseteq outbox',
         link'.turn \in {link.turn, 0},
         \A a \in Actors : At(a, Recording)' => At(a, Recording) /\ act'[a].turn = act[a].turn
  PROVE  TurnsInv'
<1>1. CASE /\ UNCHANGED <<turns, writer>>
           /\ writer \in Workers =>
                procs'[writer].alive /\ (procs[writer].worked => procs'[writer].worked)
  BY <1>1 DEF TurnsInv, LastTurnRuns, WorkerTurns, RunsOrOver, NoticesAreOver, At, Recording
<1>2. CASE /\ writer' = None /\ DOMAIN turns' = DOMAIN turns
           /\ \A t \in DOMAIN turns : turns'[t] = "over"
  BY <1>2, NamesAssumption DEF TurnsInv, LastTurnRuns, WorkerTurns, RunsOrOver, NoticesAreOver, At,
     Recording
<1>3. QED
  BY <1>1, <1>2 DEF TurnsKept

\* Closing a worker is such a step.
LEMMA CloseTurns ==
  ASSUME TypeOK, TurnsInv, NEW w \in Workers, NEW receipt, Close(w, receipt)
  PROVE  TurnsKept
<1> USE DEF TypeOK
<1>1. CASE writer = w /\ turns' = Stopped(w) /\ writer' = None
  BY <1>1, StoppedAllOver
<1>2. CASE writer # w /\ turns' = Stopped(w) /\ writer' = writer
  <2>1. turns' = turns
    BY <1>2 DEF Stopped
  <2>2. \A v \in Workers : v # w => procs'[v] = procs[v]
    BY DEF Close, ManagerOK, Processes
  <2>3. QED
    BY <1>2, <2>1, <2>2 DEF TurnsKept, TurnsInv, LastTurnRuns
<1>3. CASE UNCHANGED codex /\ procs' = [procs EXCEPT ![w].open = FALSE]
  BY <1>3 DEF TurnsKept, TurnsInv, LastTurnRuns, codex, ManagerOK, Processes
<1>4. QED
  BY <1>1, <1>2, <1>3 DEF Close


\* Nobody gets a turn to record.
RecordsNothingNew ==
  \A a \in Actors : At(a, Recording)' => At(a, Recording) /\ act'[a].turn = act[a].turn

\* Leaving, answering and going on elsewhere give nobody a turn to record.
LEMMA MovesOn ==
  ASSUME ActsOK, NEW a \in Actors,
         \/ Leave(a)
         \/ Answered
         \/ \E pc \in Pcs \ Recording : Goto(a, pc)
         \/ NotStarted(a)
         \/ UNCHANGED act
  PROVE  RecordsNothingNew
<1>1. CASE Leave(a)
  BY <1>1, LeaveEffect DEF RecordsNothingNew, At, Recording
<1>2. CASE Answered
  BY <1>2, AnsweredEffect DEF RecordsNothingNew, At, Recording
<1>3. ASSUME NEW pc \in Pcs \ Recording, Goto(a, pc)
      PROVE  RecordsNothingNew
  BY <1>3, GotoEffect DEF RecordsNothingNew, At
<1>4. CASE NotStarted(a)
  BY <1>3, <1>4, NotStartedEffect DEF Pcs, Recording
<1>5. CASE UNCHANGED act
  BY <1>5 DEF RecordsNothingNew, At
<1>6. QED
  BY <1>1, <1>2, <1>3, <1>4, <1>5

\* A step that leaves Codex, the processes and the notices alone.
LEMMA QuietTurns ==
  ASSUME TurnsInv, UNCHANGED <<turns, writer, procs, notices>>, outbox \subseteq outbox',
         link'.turn \in {link.turn, 0}, RecordsNothingNew
  PROVE  TurnsInv'
<1>1. TurnsKept
  BY DEF TurnsKept, TurnsInv, LastTurnRuns
<1>2. QED
  BY <1>1, TurnsFrame DEF RecordsNothingNew

\* The steps of an observer that does not close a worker.
LEMMA ObserveQuietTurns ==
  ASSUME IInv, NEW a \in Actors,
         \/ Touch(a) \/ LockTerminal(a) \/ SettleRow(a) \/ ClaimTerminal(a)
         \/ EnqueueTerminal(a) \/ EnqueueFails(a) \/ NothingToRelease(a) \/ FinishFails(a)
  PROVE  TurnsInv'
<1> USE DEF IInv, TypeOK
<1>1. UNCHANGED <<turns, writer, procs, notices>>
  BY DEF Touch, LockTerminal, SettleRow, ClaimTerminal, EnqueueTerminal, EnqueueFails,
     NothingToRelease, FinishFails, codex, store
<1>2. outbox \subseteq outbox' /\ link'.turn = link.turn
  <2>1. CASE EnqueueTerminal(a)
    BY <2>1 DEF EnqueueTerminal, Enqueued, StoreOK, Links
  <2>2. QED
    BY <2>1 DEF Touch, LockTerminal, SettleRow, ClaimTerminal, EnqueueFails, NothingToRelease,
       FinishFails, store
<1>3. RecordsNothingNew
  <2>1. CASE Leave(a)
    BY <2>1, MovesOn
  <2>2. CASE \E pc \in {"claim", "enqueue", "release", "closeany", "drain"} : Goto(a, pc)
    BY <2>2, MovesOn DEF Pcs, Recording
  <2>3. CASE act' = [act EXCEPT ![a].pc = "settle"]
    BY <2>3 DEF RecordsNothingNew, At, Recording, ActsOK, Acts
  <2>4. QED
    BY <2>1, <2>2, <2>3 DEF Touch, LockTerminal, SettleRow, ClaimTerminal, EnqueueTerminal,
       EnqueueFails, NothingToRelease, FinishFails
<1>4. QED
  BY <1>1, <1>2, <1>3, QuietTurns

\* Closing a worker ends its turn and announces nothing.
LEMMA ReleaseTurns ==
  ASSUME IInv, NEW a \in Actors, ReleaseLinked(a) \/ CloseRegistered(a) \/ Abort(a)
  PROVE  TurnsInv'
<1> USE DEF IInv, TypeOK
<1>1. TurnsKept
  <2>1. CASE UNCHANGED <<codex, procs>>
    BY <2>1 DEF TurnsKept, TurnsInv, LastTurnRuns, codex
  <2>2. CASE \E w \in Workers, receipt \in Nat : Close(w, receipt)
    BY <2>2, CloseTurns
  <2>3. CASE ReleaseLinked(a)
    <3>1. link.gen \in Nat
      BY WorkersAssumption, FS_CardinalityType DEF StoreOK, Links
    <3>2. QED
      BY <2>1, <2>2, <2>3, <3>1 DEF ReleaseLinked, Registered
  <2>4. CASE CloseRegistered(a)
    BY <2>1, <2>2, <2>4 DEF CloseRegistered, ManagerOK
  <2>5. CASE Abort(a)
    <3>1. act[a].worker \in Workers \cup {None}
      BY ActFields
    <3>2. \A w \in Workers : procs[w].gen \in Nat
      BY WorkersAssumption, FS_CardinalityType DEF ManagerOK, Processes
    <3>3. QED
      BY <2>1, <2>2, <2>5, <3>1, <3>2 DEF Abort, ReleaseWorker
  <2>6. QED
    BY <2>3, <2>4, <2>5
<1>2. UNCHANGED <<notices, outbox>> /\ link'.turn \in {link.turn, 0}
  BY DEF ReleaseLinked, CloseRegistered, Abort, FailLink, StoreOK, Links, store
<1>3. RecordsNothingNew
  <2>1. CASE Leave(a) \/ Answered
    BY <2>1, MovesOn
  <2>2. CASE \E pc \in {"finish", "drain", "giveback"} : Goto(a, pc)
    BY <2>2, MovesOn DEF Pcs, Recording
  <2>3. QED
    BY <2>1, <2>2 DEF ReleaseLinked, CloseRegistered, Abort
<1>4. QED
  BY <1>1, <1>2, <1>3, TurnsFrame DEF RecordsNothingNew

\* The owner is told about the turn of a link whose processes have all ended, so it is
\* over.
LEMMA HandBackTurns ==
  ASSUME IInv, UNCHANGED <<turns, writer, procs, outbox>>, RecordsNothingNew,
         link.state = "pending", link.turn # 0, ~orphaned,
         \A w \in Workers : ~Lives(w), HandBack(link.turn)
  PROVE  TurnsInv'
<1> USE DEF IInv
<1>1. link.turn \in outbox
  BY DEF ControlInv, PendingIsStored
<1>2. link.turn \in DOMAIN turns /\ turns[link.turn] = "over"
  BY DEF TurnsInv, WorkerTurns, RunsOrOver, LastTurnRuns, Lives
<1>3. link'.turn = 0 /\ notices' = notices \cup {link.turn}
  BY DEF HandBack
<1>4. QED
  BY <1>1, <1>2, <1>3 DEF TurnsInv, LastTurnRuns, WorkerTurns, RunsOrOver, NoticesAreOver,
     RecordsNothingNew, At, Recording

\* Handing the thread back, by the goroutine that released it or by /repair.
LEMMA FinishTurns ==
  ASSUME IInv, (\E a \in Actors : FinishRelease(a)) \/ Repair
  PROVE  TurnsInv'
<1> USE DEF IInv, TypeOK
<1>1. UNCHANGED <<turns, writer, procs, outbox>>
  BY DEF FinishRelease, Repair, codex
<1>2. ASSUME NEW a \in Actors, FinishRelease(a)
      PROVE  TurnsInv'
  <2>1. CASE Finishable(act[a].turn)
    <3>1. RecordsNothingNew
      BY <1>2, <2>1, MovesOn DEF FinishRelease, Pcs, Recording
    <3>2. ~orphaned /\ \A w \in Workers : ~Lives(w)
      BY <1>2, <2>1 DEF FinishRelease, ControlInv, Fits, FinisherIsSafe, KeepsOffOrphan, At
    <3>3. HandBack(link.turn) /\ link.state = "pending" /\ link.turn # 0
      BY <1>2, <2>1 DEF FinishRelease, Finishable
    <3>4. QED
      BY <1>1, <3>1, <3>2, <3>3, HandBackTurns
  <2>2. CASE ~Finishable(act[a].turn)
    <3>1. RecordsNothingNew
      BY <1>2, <2>2, MovesOn DEF FinishRelease
    <3>2. QED
      BY <1>1, <1>2, <2>2, <3>1, QuietTurns DEF FinishRelease
  <2>3. QED
    BY <2>1, <2>2
<1>3. CASE Repair
  <2>1. RecordsNothingNew
    BY <1>3, ActorNames, MovesOn DEF Repair
  <2>2. CASE CanRepair
    <3>1. ~orphaned /\ \A w \in Workers : ~Lives(w)
      BY <2>2 DEF CanRepair, Finishable, ControlInv, LinkIsNumbered, OrphanIsLost,
         WorkedBelongsToLink
    <3>2. QED
      BY <1>1, <1>3, <2>1, <2>2, <3>1, HandBackTurns DEF Repair, CanRepair, Finishable
  <2>3. CASE ~CanRepair
    BY <1>1, <1>3, <2>1, <2>3, QuietTurns DEF Repair
  <2>4. QED
    BY <2>2, <2>3
<1>4. QED
  BY <1>2, <1>3

\* The queue does not touch the turns.
LEMMA QueueTurns ==
  ASSUME IInv, NEW a \in Actors, Queue(a)
  PROVE  TurnsInv'
<1> USE DEF IInv, TypeOK
<1>1. UNCHANGED <<turns, writer, procs, notices, outbox, link>>
  BY DEF Queue, Drain, NextCommand, StartQueued, GiveBack, codex, store
<1>2. RecordsNothingNew
  <2>1. CASE Leave(a) \/ Goto(a, "next")
    BY <2>1, MovesOn DEF Pcs, Recording
  <2>2. CASE StartQueued(a)
    BY <2>2 DEF StartQueued, RecordsNothingNew, At, Recording, ActsOK, Acts
  <2>3. CASE NextCommand(a)
    <3>1. CASE Waiting = {} \/ Blocked
      BY <2>1, <2>3, <3>1 DEF NextCommand
    <3>2. CASE ~(Waiting = {} \/ Blocked)
      BY <2>3, <3>2 DEF NextCommand, RecordsNothingNew, At, Recording, ActsOK, Acts
    <3>3. QED
      BY <3>1, <3>2
  <2>4. QED
    BY <2>1, <2>2, <2>3 DEF Queue, Drain, GiveBack
<1>3. QED
  BY <1>1, <1>2, QuietTurns

\* A new process does not have the thread.
LEMMA AcquireTurns ==
  ASSUME IInv, NEW a \in Actors, NEW bound \in BOOLEAN, NEW pc \in Pcs \ Recording,
         Acquired(a, NewWorker, bound, pc), UNCHANGED <<notices, outbox, link>>
  PROVE  TurnsInv'
<1> USE DEF IInv, TypeOK
<1> DEFINE w == NewWorker
<1>1. w \in Workers /\ ~procs[w].alive
  BY AcquiredTyped DEF Unused, ManagerInv, Blank
<1>2. /\ \A v \in Workers : v # w => procs'[v] = procs[v]
      /\ act' = [act EXCEPT ![a].worker = w, ![a].pc = pc]
      /\ UNCHANGED <<turns, writer>>
  BY DEF Acquired, codex, ManagerOK
<1> HIDE DEF w
<1>3. TurnsKept
  BY <1>1, <1>2 DEF TurnsKept, TurnsInv, LastTurnRuns
<1>4. RecordsNothingNew
  BY <1>2 DEF RecordsNothingNew, At, ActsOK, Acts
<1>5. QED
  BY <1>2, <1>3, <1>4, TurnsFrame DEF RecordsNothingNew

\* A worker loads the thread only while no turn of it runs.
LEMMA ResumeTurns ==
  ASSUME IInv, NEW a \in Actors, Resume(a)
  PROVE  TurnsInv'
<1> USE DEF IInv, TypeOK
<1>1. /\ writer = None /\ UNCHANGED <<turns, procs, notices, outbox, link>>
      /\ writer' = act[a].worker /\ procs[act[a].worker].alive
      /\ act'[a].pc = "take" /\ \A b \in Actors : b # a => act'[b] = act[b]
  BY GotoEffect DEF Resume, store
<1>2. \A t \in DOMAIN turns : turns[t] = "over"
  BY <1>1 DEF TurnsInv, LastTurnRuns
<1>3. QED
  BY <1>1, <1>2, NamesAssumption DEF TurnsInv, LastTurnRuns, WorkerTurns, RunsOrOver,
     NoticesAreOver, At, Recording

\* A started turn is the last one, and the earlier ones are over: its worker has run none.
LEMMA StartedTurns ==
  ASSUME IInv, NEW a \in Actors, At(a, {"turn"}), TurnStarted(a), UNCHANGED <<writer, notices, outbox>>,
         link'.turn = 0,
         \A b \in Actors : b # a => act'[b] = act[b],
         At(a, Recording)' => act'[a].turn = Len(turns) + 1
  PROVE  TurnsInv'
<1> USE DEF IInv, TypeOK
<1>1. At(a, Starts) /\ At(a, {"turn"})
  BY DEF At, Starts
<1>2. act[a].worker \in Workers /\ ~procs[act[a].worker].worked
  BY <1>1, StarterIsAlone DEF ControlInv, Fits, LinkFits
<1>3. writer = act[a].worker /\ turns' = Append(turns, "running")
  BY DEF TurnStarted
<1>4. procs'[act[a].worker].worked /\ procs'[act[a].worker].alive
  BY <1>2 DEF TurnStarted, ManagerOK, Processes
<1>5. /\ Len(turns') = Len(turns) + 1 /\ DOMAIN turns' = DOMAIN turns \cup {Len(turns) + 1}
      /\ \A t \in DOMAIN turns : turns'[t] = turns[t]
  BY <1>3 DEF CodexOK
<1>6. \A t \in DOMAIN turns : turns[t] = "over"
  BY <1>2, <1>3 DEF TurnsInv, LastTurnRuns
<1>7. LastTurnRuns'
  BY <1>2, <1>3, <1>4, <1>5, <1>6, NamesAssumption DEF LastTurnRuns
<1>8. WorkerTurns'
  BY <1>2, <1>3, <1>5 DEF TurnsInv, WorkerTurns, RunsOrOver, At, Recording
<1>9. NoticesAreOver'
  BY <1>5 DEF TurnsInv, NoticesAreOver
<1>10. QED
  BY <1>7, <1>8, <1>9 DEF TurnsInv

\* A goroutine that opens, starts or records a turn.
LEMMA StartTurns ==
  ASSUME IInv, NEW a \in Actors, Start(a)
  PROVE  TurnsInv'
<1> USE DEF IInv, TypeOK
<1>1. CASE Acquire(a)
  BY <1>1, AcquireTurns DEF Acquire, store, Pcs, Recording
<1>2. CASE AcquireFails(a) \/ ResumeFails(a) \/ TakeFails(a) \/ Complete(a)
  <2>1. UNCHANGED <<turns, writer, procs, notices, outbox, link>>
    BY <1>2 DEF AcquireFails, ResumeFails, TakeFails, Complete, codex, store
  <2>2. RecordsNothingNew
    BY <1>2, MovesOn DEF AcquireFails, ResumeFails, TakeFails, Complete
  <2>3. QED
    BY <2>1, <2>2, QuietTurns
<1>3. CASE TakeLink(a)
  <2>1. UNCHANGED <<turns, writer, procs, notices, outbox>> /\ link'.turn \in {link.turn, 0}
    BY <1>3 DEF TakeLink, codex
  <2>2. RecordsNothingNew
    BY <1>3, MovesOn DEF TakeLink, Pcs, Recording
  <2>3. QED
    BY <2>1, <2>2, QuietTurns
<1>4. CASE StartTurn(a)
  <2>1. At(a, {"turn"}) /\ At(a, Starts)
    BY <1>4 DEF StartTurn, At, Starts
  <2>2. UNCHANGED <<writer, notices, outbox, link>> /\ link.turn = 0
    BY <1>4, <2>1, StarterIsAlone DEF StartTurn, store
  <2>3. /\ \A b \in Actors : b # a => act'[b] = act[b]
        /\ act'[a].turn = Len(turns) + 1
    BY <1>4 DEF StartTurn, ActsOK, Acts
  <2>4. QED
    BY <1>4, <2>1, <2>2, <2>3, StartedTurns DEF StartTurn
<1>5. CASE StartTurnFails(a)
  <2>1. At(a, {"turn"}) /\ At(a, Starts)
    BY <1>5 DEF StartTurnFails, At, Starts
  <2>2. UNCHANGED <<writer, notices, outbox>> /\ link'.turn = 0
    BY <1>5, <2>1, StarterIsAlone DEF StartTurnFails, FailLink, StoreOK, Links
  <2>3. /\ \A b \in Actors : b # a => act'[b] = act[b]
        /\ act'[a].pc = "abort"
    BY <1>5 DEF StartTurnFails, ActsOK, Acts
  <2>4. CASE TurnStarted(a)
    BY <2>1, <2>2, <2>3, <2>4, StartedTurns DEF At, Recording
  <2>5. CASE UNCHANGED <<turns, procs>>
    <3>1. RecordsNothingNew
      BY <2>3 DEF RecordsNothingNew, At, Recording
    <3>2. QED
      BY <2>2, <2>5, <3>1, QuietTurns
  <2>6. QED
    BY <1>5, <2>4, <2>5 DEF StartTurnFails
<1>6. CASE PersistStart(a)
  <2>1. UNCHANGED <<turns, writer, procs, notices, outbox, link>>
    BY <1>6 DEF PersistStart, codex
  <2>2. /\ \A b \in Actors : b # a => act'[b] = act[b]
        /\ act'[a].turn = act[a].turn
    BY <1>6, GotoEffect DEF PersistStart, ActsOK, Acts
  <2>3. RecordsNothingNew
    BY <1>6, <2>2 DEF PersistStart, RecordsNothingNew, At, Recording
  <2>4. QED
    BY <2>1, <2>3, QuietTurns
<1>7. CASE Mark(a)
  <2>1. UNCHANGED <<turns, writer, procs, notices, outbox>>
    BY <1>7 DEF Mark, codex
  <2>2. /\ \A b \in Actors : b # a => act'[b] = act[b]
        /\ act'[a].pc = "complete"
    BY <1>7 DEF Mark, ActsOK, Acts
  <2>3. link'.turn \in {link.turn, act[a].turn} /\ At(a, Recording)
    BY <1>7 DEF Mark, StoreOK, Links, At, Recording
  <2>4. QED
    BY <2>1, <2>2, <2>3 DEF TurnsInv, LastTurnRuns, WorkerTurns, RunsOrOver, NoticesAreOver,
       At, Recording
<1>8. QED
  BY <1>1, <1>2, <1>3, <1>4, <1>5, <1>6, <1>7, ResumeTurns, ReleaseTurns DEF Start

\* Codex itself.
LEMMA CodexTurns ==
  ASSUME IInv, Codex
  PROVE  TurnsInv'
<1> USE DEF IInv, TypeOK
<1>1. UNCHANGED <<act, notices, outbox, link>>
  BY DEF Codex, Progress, OpenDesktop, CloseDesktop, DesktopTurn, ProcessDies, store
<1>2. RecordsNothingNew
  BY <1>1 DEF RecordsNothingNew, At
<1>3. CASE TurnsKept
  BY <1>1, <1>2, <1>3, TurnsFrame DEF RecordsNothingNew
<1>4. CASE Progress
  <2>1. PICK s \in {"answered", "over"} : turns' = [turns EXCEPT ![Len(turns)] = s]
    BY <1>4 DEF Progress
  <2>2. UNCHANGED <<writer, procs>> /\ turns[Len(turns)] # "over"
    BY <1>4 DEF Progress
  <2>3. /\ DOMAIN turns' = DOMAIN turns /\ Len(turns') = Len(turns)
        /\ \A t \in DOMAIN turns : t # Len(turns) => turns'[t] = turns[t]
    BY <2>1 DEF CodexOK
  <2>4. QED
    BY <1>1, <2>2, <2>3 DEF TurnsInv, LastTurnRuns, WorkerTurns, RunsOrOver, NoticesAreOver,
       At, Recording
<1>5. CASE OpenDesktop
  <2>1. \A t \in DOMAIN turns : turns[t] = "over"
    BY <1>5 DEF OpenDesktop, TurnsInv, LastTurnRuns
  <2>2. UNCHANGED <<turns, procs>> /\ writer' = Desktop
    BY <1>5 DEF OpenDesktop
  <2>3. QED
    BY <1>1, <2>1, <2>2, NamesAssumption DEF TurnsInv, LastTurnRuns, WorkerTurns, RunsOrOver,
       NoticesAreOver, At, Recording
<1>6. CASE CloseDesktop
  BY <1>3, <1>6, StoppedAllOver DEF CloseDesktop
<1>7. CASE DesktopTurn
  <2>1. /\ writer = Desktop /\ turns[Len(turns)] = "over" /\ UNCHANGED <<writer, procs>>
        /\ turns' = Append(turns, "running")
    BY <1>7 DEF DesktopTurn
  <2>2. \A t \in DOMAIN turns : turns[t] = "over"
    BY <2>1 DEF TurnsInv, LastTurnRuns
  <2>3. /\ Len(turns') = Len(turns) + 1 /\ DOMAIN turns' = DOMAIN turns \cup {Len(turns) + 1}
        /\ \A t \in DOMAIN turns : turns'[t] = turns[t]
    BY <2>1 DEF CodexOK
  <2>4. QED
    BY <1>1, <2>1, <2>2, <2>3, NamesAssumption DEF TurnsInv, LastTurnRuns, WorkerTurns,
       RunsOrOver, NoticesAreOver, At, Recording
<1>8. ASSUME NEW w \in Workers, ProcessDies(w)
      PROVE  TurnsInv'
  <2>1. CASE writer = w
    BY <1>3, <1>8, <2>1, StoppedAllOver DEF ProcessDies
  <2>2. CASE writer # w
    <3>1. turns' = turns /\ writer' = writer
      BY <1>8, <2>2 DEF ProcessDies, Stopped
    <3>2. \A v \in Workers : v # w => procs'[v] = procs[v]
      BY <1>8 DEF ProcessDies, ManagerOK, Processes
    <3>3. QED
      BY <1>3, <2>2, <3>1, <3>2 DEF TurnsKept, TurnsInv, LastTurnRuns
  <2>3. QED
    BY <2>1, <2>2
<1>9. QED
  BY <1>4, <1>5, <1>6, <1>7, <1>8 DEF Codex

\* The fork begins with a turn that is over; nobody knows of a turn before.
LEMMA CreateTurns ==
  ASSUME IInv, Create
  PROVE  TurnsInv'
<1> USE DEF IInv, TypeOK
<1>1. CASE AcquireForFork
  <2>1. UNCHANGED <<notices, outbox, link>>
    BY <1>1 DEF AcquireForFork
  <2>2. CASE Acquired(Bot, NewWorker, FALSE, "fork")
    BY <2>1, <2>2, ActorNames, AcquireTurns DEF Pcs, Recording
  <2>3. CASE Answered /\ UNCHANGED <<codex, procs>>
    BY <2>1, <2>3, ActorNames, MovesOn, QuietTurns DEF codex
  <2>4. QED
    BY <1>1, <2>2, <2>3 DEF AcquireForFork
<1>2. CASE Fork
  <2>1. turns = <<>>
    BY <1>2, ActorNames DEF Fork, ControlInv, Fits, LinkFits, At
  <2>2. /\ turns' = <<"over">> /\ writer' = act[Bot].worker /\ procs[act[Bot].worker].alive
        /\ UNCHANGED <<procs, notices, outbox, link>>
    BY <1>2 DEF Fork, store
  <2>3. /\ act'[Bot].pc = "activate" /\ \A b \in Actors : b # Bot => act'[b] = act[b]
    BY <1>2, ActorNames, GotoEffect DEF Fork
  <2>4. DOMAIN turns = {} /\ DOMAIN turns' = {1} /\ turns'[1] = "over"
    BY <2>1, <2>2
  <2>5. link.turn = 0 /\ notices = {} /\ \A a \in Actors : ~At(a, Recording)
    BY <2>4 DEF TurnsInv, WorkerTurns, RunsOrOver, NoticesAreOver, Recording
  <2>6. QED
    BY <2>2, <2>3, <2>4, <2>5 DEF TurnsInv, LastTurnRuns, WorkerTurns, NoticesAreOver, At,
       Recording
<1>3. CASE ForkFails
  BY <1>3, ActorNames, MovesOn, QuietTurns DEF ForkFails, codex
<1>4. CASE Activate
  <2>1. UNCHANGED <<turns, writer, procs, notices, outbox>> /\ link'.turn \in {link.turn, 0}
    BY <1>4 DEF Activate, codex
  <2>2. RecordsNothingNew
    BY <1>4, ActorNames, MovesOn DEF Activate, Pcs, Recording
  <2>3. QED
    BY <2>1, <2>2, QuietTurns
<1>5. QED
  BY <1>1, <1>2, <1>3, <1>4 DEF Create

\* Messages of the owner, reads, and restarts.
LEMMA OtherTurns ==
  ASSUME IInv, \/ Reply \/ BotReadFails \/ EnterReply
               \/ \E a \in Actors : Read(a)
               \/ Restart
  PROVE  TurnsInv'
<1> USE DEF IInv, TypeOK
<1>1. CASE Reply \/ BotReadFails \/ EnterReply
  <2>1. UNCHANGED <<turns, writer, procs, notices, outbox, link>>
    BY <1>1 DEF Reply, BotReadFails, EnterReply, codex, store
  <2>2. ASSUME act' = [act EXCEPT ![Bot].pc = "acquire"]
        PROVE  RecordsNothingNew
    BY <2>2, ActorNames DEF RecordsNothingNew, At, Recording, ActsOK, Acts
  <2>3. RecordsNothingNew
    BY <1>1, <2>2, ActorNames, MovesOn DEF Reply, BotReadFails, EnterReply, Pcs, Recording
  <2>4. QED
    BY <2>1, <2>3, QuietTurns
<1>2. ASSUME NEW a \in Actors, Read(a)
      PROVE  TurnsInv'
  <2>1. RecordsNothingNew
    BY <1>2 DEF Read, RecordsNothingNew, At, Recording, ActsOK, Acts, Idle
  <2>2. QED
    BY <1>2, <2>1, QuietTurns DEF Read, codex, store
<1>3. CASE Restart
  <2>1. ASSUME UNCHANGED <<turns, writer>>, writer \in Workers => procs'[writer].alive
        PROVE  TurnsKept
    BY <1>3, <2>1, RestartEffect DEF TurnsKept
  <2>2. ASSUME writer \in Workers, writer' = None, turns' = Stopped(writer)
        PROVE  TurnsKept
    BY <2>2, StoppedAllOver
  <2>3. TurnsKept
    BY <1>3, <2>1, <2>2, RestartEffect
  <2>4. \A a \in Actors : ~At(a, Recording)'
    BY <1>3, RestartEffect DEF At, Recording, Idle
  <2>5. QED
    BY <1>3, <2>3, <2>4, RestartEffect, TurnsFrame
<1>4. QED
  BY <1>1, <1>2, <1>3

\* Every step keeps what is known of the turns.
LEMMA NextTurns ==
  ASSUME IInv, [Next]_vars
  PROVE  TurnsInv'
<1>1. CASE Codex
  BY <1>1, CodexTurns
<1>2. CASE Reply \/ BotReadFails \/ EnterReply \/ Restart
  BY <1>2, OtherTurns
<1>3. CASE BotRead \/ PollRead \/ \E w \in Workers : WorkerEvent(w)
  BY <1>3, OtherTurns, ActorNames DEF BotRead, PollRead, WorkerEvent
<1>4. CASE Create
  BY <1>4, CreateTurns
<1>5. CASE Repair
  BY <1>5, FinishTurns
<1>6. CASE \E a \in Busy : Steps(a)
  BY <1>6, ObserveQuietTurns, ReleaseTurns, FinishTurns, QueueTurns, StartTurns
     DEF Steps, Busy, Observe
<1>7. CASE UNCHANGED vars
  <2>1. UNCHANGED <<turns, writer, procs, notices, outbox, link, act>>
    BY <1>7 DEF vars, codex, store
  <2>2. QED
    BY <2>1, QuietTurns DEF RecordsNothingNew, At, IInv
<1>8. QED
  BY <1>1, <1>2, <1>3, <1>4, <1>5, <1>6, <1>7 DEF Next

-----------------------------------------------------------------------------
(***************************************************************************)
(* Replies, the queue and what Codex was given.                            *)
(***************************************************************************)

\* The bot is about a reply it has not used.
NeedsReply ==
  ~At(Bot, {"idle"}) /\ ~(act[Bot].cmd = 0 /\ At(Bot, {"persist", "mark", "complete", "abort"}))

\* What a goroutine that carries a command thinks of it.
Unstarted(a) ==
  \/ At(a, {"queued", "turn"} \cup Opens)
  \/ At(a, {"abort", "giveback"}) /\ ~act[a].failed
HasStarted(a) == At(a, {"persist", "mark", "complete"})

\* The parts of CommandFits by their names.
LEMMA CommandFitsParts ==
  ASSUME NEW a \in Actors
  PROVE  CommandFits(a) <=>
           /\ At(a, {"idle", "read", "enter"} \cup Forks) => act[a].cmd = 0
           /\ At(a, {"queued", "giveback"}) \/ (a # Bot /\ At(a, Carrying)) => act[a].cmd # 0
           /\ Carries(a) =>
                /\ act[a].cmd \in DOMAIN cmds /\ cmds[act[a].cmd].status = "claimed"
                /\ Unstarted(a) => ~Ran(cmds[act[a].cmd].prompt)
                /\ HasStarted(a) => Ran(cmds[act[a].cmd].prompt)
BY Zenon DEF CommandFits, Unstarted, HasStarted

\* A goroutine that takes no step keeps what it carries while the queue and Codex do.
LEMMA OthersCarry ==
  ASSUME NEW b \in Actors, CommandFits(b), act'[b] = act[b], UNCHANGED <<cmds, started>>
  PROVE  CommandFits(b)'
BY DEF CommandFits, Carries, At, Ran

\* A step that changes neither the queue nor what Codex was given.
LEMMA CommandsFrame ==
  ASSUME CommandsInv, UNCHANGED <<cmds, started, replies>>, NEW a \in Actors,
         \A b \in Actors : b # a => act'[b] = act[b],
         CommandFits(a)', NeedsReply' => NeedsReply
  PROVE  CommandsInv'
<1>1. \A b \in Actors : CommandFits(b)'
  BY OthersCarry DEF CommandsInv
<1>2. ReplyIsFresh'
  BY DEF CommandsInv, ReplyIsFresh, NeedsReply, Ran
<1>3. (PromptsDistinct /\ QueueIsHonest /\ StartedOnce)'
  BY DEF CommandsInv, PromptsDistinct, QueueIsHonest, StartedOnce
<1>4. QED
  BY <1>1, <1>2, <1>3 DEF CommandsInv

\* Leaving the thread: nothing is carried any more, and the bot turns to its reply.
LEMMA LeaveCommands ==
  ASSUME ActsOK, CommandsInv, UNCHANGED <<cmds, started, replies>>, NEW a \in Actors, Leave(a),
         a = Bot => NeedsReply
  PROVE  CommandsInv'
<1>1. CommandFits(a)'
  BY LeaveEffect DEF CommandFits, Carries, At, Carrying, Forks
<1>2. NeedsReply' => NeedsReply
  BY LeaveEffect, ActorNames DEF NeedsReply, At
<1>3. QED
  BY <1>1, <1>2, LeaveEffect, CommandsFrame

\* Answering the owner.
LEMMA AnsweredCommands ==
  ASSUME ActsOK, CommandsInv, UNCHANGED <<cmds, started, replies>>, Answered
  PROVE  CommandsInv'
<1>1. CommandFits(Bot)'
  BY AnsweredEffect, ActorNames DEF CommandFits, Carries, At, Carrying, Forks
<1>2. ~NeedsReply'
  BY AnsweredEffect DEF NeedsReply, At
<1>3. QED
  BY <1>1, <1>2, AnsweredEffect, ActorNames, CommandsFrame

\* Going on without a command.
LEMMA ObserverCommands ==
  ASSUME CommandsInv, UNCHANGED <<cmds, started, replies>>, NEW a \in Actors,
         \A b \in Actors : b # a => act'[b] = act[b],
         ~At(a, Carrying \cup Forks \cup {"idle", "read", "enter"})',
         a = Bot => NeedsReply
  PROVE  CommandsInv'
<1>1. CommandFits(a)'
  BY DEF CommandFits, Carries, At, Carrying, Forks
<1>2. NeedsReply' => NeedsReply
  BY ActorNames DEF NeedsReply, At
<1>3. QED
  BY <1>1, <1>2, CommandsFrame

\* Going on with the same command, thinking the same of it.
LEMMA CarryOn ==
  ASSUME CommandsInv, UNCHANGED <<cmds, started, replies>>, NEW a \in Actors,
         \A b \in Actors : b # a => act'[b] = act[b],
         act'[a].cmd = act[a].cmd, At(a, Carrying), At(a, Carrying)',
         At(a, {"queued", "giveback"})' => act[a].cmd # 0,
         Unstarted(a)' => Unstarted(a), HasStarted(a)' => HasStarted(a),
         a = Bot => (NeedsReply' => NeedsReply)
  PROVE  CommandsInv'
<1>1. CommandFits(a)
  BY DEF CommandsInv
<1>2. At(a, {"queued", "giveback"})' \/ (a # Bot /\ At(a, Carrying)') => act'[a].cmd # 0
  BY <1>1, CommandFitsParts
<1>3. ~At(a, {"idle", "read", "enter"} \cup Forks)'
  BY DEF At, Carrying, Forks
<1>4. Carries(a)' => /\ act'[a].cmd \in DOMAIN cmds /\ cmds[act'[a].cmd].status = "claimed"
                     /\ Unstarted(a)' => ~Ran(cmds[act'[a].cmd].prompt)
                     /\ HasStarted(a)' => Ran(cmds[act'[a].cmd].prompt)
  BY <1>1, CommandFitsParts DEF Carries
<1>5. \A p : Ran(p)' <=> Ran(p)
  BY DEF Ran
<1>6. CommandFits(a)'
  BY <1>2, <1>3, <1>4, <1>5 DEF CommandFits, Unstarted, HasStarted
<1>7. a # Bot => (NeedsReply' <=> NeedsReply)
  BY ActorNames DEF NeedsReply, At
<1>8. QED
  BY <1>6, <1>7, CommandsFrame

\* Observing the thread does not touch the queue.
LEMMA ObserveCommands ==
  ASSUME IInv, NEW a \in Actors, Observe(a)
  PROVE  CommandsInv'
<1> USE DEF IInv, TypeOK
<1>1. UNCHANGED <<cmds, started, replies>>
  BY DEF Observe, Touch, LockTerminal, SettleRow, ClaimTerminal, EnqueueTerminal, EnqueueFails,
     NothingToRelease, ReleaseLinked, CloseRegistered, FinishRelease, FinishFails, store, history
<1>2. a = Bot => NeedsReply
  BY DEF Observe, Touch, LockTerminal, SettleRow, ClaimTerminal, EnqueueTerminal, EnqueueFails,
     NothingToRelease, ReleaseLinked, CloseRegistered, FinishRelease, FinishFails, NeedsReply, At
<1>3. \/ Leave(a)
      \/ \E pc \in {"claim", "enqueue", "release", "closeany", "finish", "drain"} : Goto(a, pc)
      \/ act' = [act EXCEPT ![a].pc = "settle"]
  BY DEF Observe, Touch, LockTerminal, SettleRow, ClaimTerminal, EnqueueTerminal, EnqueueFails,
     NothingToRelease, ReleaseLinked, CloseRegistered, FinishRelease, FinishFails
<1>4. CASE Leave(a)
  BY <1>1, <1>2, <1>4, LeaveCommands
<1>5. ASSUME NEW pc \in {"claim", "enqueue", "release", "closeany", "finish", "drain"}, Goto(a, pc)
      PROVE  CommandsInv'
  BY <1>1, <1>2, <1>5, GotoEffect, ObserverCommands DEF At, Carrying, Forks
<1>6. CASE act' = [act EXCEPT ![a].pc = "settle"]
  <2>1. act'[a].pc = "settle" /\ \A b \in Actors : b # a => act'[b] = act[b]
    BY <1>6 DEF ActsOK, Acts
  <2>2. QED
    BY <1>1, <1>2, <2>1, ObserverCommands DEF At, Carrying, Forks
<1>7. QED
  BY <1>3, <1>4, <1>5, <1>6

\* A command with a new status: nothing else changes in the queue.
LEMMA StatusEffect ==
  ASSUME StoreOK, NEW i \in DOMAIN cmds, NEW s, cmds' = [cmds EXCEPT ![i].status = s]
  PROVE  /\ DOMAIN cmds' = DOMAIN cmds /\ cmds'[i].status = s
         /\ \A j \in DOMAIN cmds : /\ cmds'[j].prompt = cmds[j].prompt
                                   /\ j # i => cmds'[j].status = cmds[j].status
<1>1. \A j \in DOMAIN cmds : cmds[j] \in Commands
  BY DEF StoreOK
<1>2. DOMAIN cmds' = DOMAIN cmds /\ cmds'[i] = [cmds[i] EXCEPT !.status = s]
  BY DEF StoreOK
<1>3. \A j \in DOMAIN cmds : j # i => cmds'[j] = cmds[j]
  BY DEF StoreOK
<1>4. cmds'[i].status = s /\ cmds'[i].prompt = cmds[i].prompt
  BY <1>1, <1>2 DEF Commands
<1>5. QED
  BY <1>2, <1>3, <1>4

\* A step of a goroutine that changes the status of one command, which nobody else
\* carries, to one that is true.
LEMMA StatusFrame ==
  ASSUME StoreOK, CommandsInv, UNCHANGED <<started, replies>>, NEW a \in Actors,
         \A b \in Actors : b # a => act'[b] = act[b],
         NEW i \in DOMAIN cmds, NEW s, cmds' = [cmds EXCEPT ![i].status = s],
         \A b \in Actors : b # a /\ Carries(b) => act[b].cmd # i,
         s = "pending" => ~Ran(cmds[i].prompt), s = "completed" => Ran(cmds[i].prompt),
         CommandFits(a)', NeedsReply' => NeedsReply
  PROVE  CommandsInv'
<1>1. /\ DOMAIN cmds' = DOMAIN cmds /\ cmds'[i].status = s
      /\ \A j \in DOMAIN cmds : /\ cmds'[j].prompt = cmds[j].prompt
                                /\ j # i => cmds'[j].status = cmds[j].status
  BY StatusEffect
<1>2. \A p : Ran(p)' <=> Ran(p)
  BY DEF Ran
<1>3. ASSUME NEW b \in Actors, b # a
      PROVE  CommandFits(b)'
  <2>1. CommandFits(b) /\ act'[b] = act[b] /\ (Carries(b) => act[b].cmd # i)
    BY <1>3 DEF CommandsInv
  <2>2. (Carries(b)' <=> Carries(b)) /\ \A pcs : At(b, pcs)' <=> At(b, pcs)
    BY <2>1 DEF Carries, At
  <2>3. QED
    BY <1>1, <1>2, <2>1, <2>2 DEF CommandFits
<1>4. PromptsDistinct'
  BY <1>1 DEF CommandsInv, PromptsDistinct
<1>5. ReplyIsFresh'
  BY <1>1, <1>2 DEF CommandsInv, ReplyIsFresh, NeedsReply
<1>6. QueueIsHonest'
  <2>1. ASSUME NEW j \in DOMAIN cmds
        PROVE  /\ cmds'[j].status = "pending" => ~Ran(cmds[j].prompt)
               /\ cmds'[j].status = "completed" => Ran(cmds[j].prompt)
    BY <1>1 DEF CommandsInv, QueueIsHonest, Ran
  <2>2. QED
    BY <1>1, <2>1 DEF QueueIsHonest, Ran
<1>7. StartedOnce'
  BY DEF CommandsInv, StartedOnce
<1>8. QED
  BY <1>3, <1>4, <1>5, <1>6, <1>7 DEF CommandsInv

\* Only the holder of the lock carries a command.
LEMMA CarrierIsAlone ==
  ASSUME ControlInv, NEW a \in Actors, lock = a, NEW b \in Actors, b # a
  PROVE  ~Carries(b)
BY DEF ControlInv, Fits, HoldsLock

\* The oldest waiting command is claimed: it was not started.
LEMMA NextCommandCommands ==
  ASSUME IInv, NEW a \in Actors, NextCommand(a)
  PROVE  CommandsInv'
<1> USE DEF IInv, TypeOK
<1>1. UNCHANGED <<started, replies>> /\ act[a].pc = "next" /\ lock = a
  BY DEF NextCommand, history, ControlInv, Fits, HoldsLock, At, UnderLock
<1>2. a = Bot => NeedsReply
  BY <1>1 DEF NeedsReply, At
<1>3. CASE Waiting = {} \/ Blocked
  BY <1>1, <1>2, <1>3, LeaveCommands DEF NextCommand
<1>4. CASE ~(Waiting = {} \/ Blocked)
  <2> DEFINE i == CHOOSE i \in Waiting : \A j \in Waiting : i <= j
  <2>1. i \in Waiting
    BY <1>4, OldestWaits
  <2>2. /\ cmds' = [cmds EXCEPT ![i].status = "claimed"]
        /\ act' = [act EXCEPT ![a].cmd = i, ![a].pc = "queued", ![a].failed = FALSE]
    BY <1>4 DEF NextCommand
  <2> HIDE DEF i
  <2>3. /\ act'[a].cmd = i /\ act'[a].pc = "queued"
        /\ \A b \in Actors : b # a => act'[b] = act[b]
    BY <2>2 DEF ActsOK, Acts
  <2>4. i \in DOMAIN cmds /\ cmds[i].status = "pending" /\ ~Ran(cmds[i].prompt) /\ i # 0
    BY <2>1 DEF Waiting, CommandsInv, QueueIsHonest, Ran, StoreOK
  <2>5. cmds'[i].status = "claimed" /\ cmds'[i].prompt = cmds[i].prompt /\ DOMAIN cmds' = DOMAIN cmds
    BY <2>2, <2>4, StatusEffect
  <2>6. CommandFits(a)'
    BY <1>1, <2>3, <2>4, <2>5 DEF CommandFits, Carries, At, Carrying, Ran, Opens, Forks
  <2>7. NeedsReply' => NeedsReply
    BY <1>2, <2>3, ActorNames DEF NeedsReply, At
  <2>8. \A b \in Actors : b # a => ~Carries(b)
    BY <1>1, CarrierIsAlone
  <2>9. PICK s : s = "claimed" /\ cmds' = [cmds EXCEPT ![i].status = s]
    BY <2>2
  <2>10. s # "pending" /\ s # "completed"
    BY <2>9
  <2>11. QED
    BY <1>1, <2>3, <2>4, <2>6, <2>7, <2>8, <2>9, <2>10, StatusFrame
<1>5. QED
  BY <1>3, <1>4

\* A command that was not started is given back, or has failed.
LEMMA GiveBackCommands ==
  ASSUME IInv, NEW a \in Actors, GiveBack(a)
  PROVE  CommandsInv'
<1> USE DEF IInv, TypeOK
<1>1. UNCHANGED <<started, replies>> /\ act[a].pc = "giveback" /\ lock = a
  BY DEF GiveBack, history, ControlInv, Fits, HoldsLock, At, UnderLock
<1>2. /\ act[a].cmd \in DOMAIN cmds
      /\ ~act[a].failed => ~Ran(cmds[act[a].cmd].prompt)
  BY <1>1 DEF CommandsInv, CommandFits, Carries, At, Carrying
<1>3. a = Bot => NeedsReply
  BY <1>1 DEF NeedsReply, At
<1>4. CASE Leave(a) /\ UNCHANGED cmds
  BY <1>1, <1>3, <1>4, LeaveCommands
<1>5. CASE /\ cmds' = [cmds EXCEPT ![act[a].cmd].status =
                         IF act[a].failed THEN "failed" ELSE "pending"]
           /\ IF act[a].failed THEN Goto(a, "next") ELSE Leave(a)
  <2>1. (act'[a].pc \in {"idle", "enter"} /\ act'[a].cmd = 0) \/ act'[a].pc = "next"
    BY <1>5, GotoEffect, LeaveEffect
  <2>2. \A b \in Actors : b # a => act'[b] = act[b]
    BY <1>5, GotoEffect, LeaveEffect
  <2>3. CommandFits(a)'
    BY <2>1 DEF CommandFits, Carries, At, Carrying, Forks
  <2>4. NeedsReply' => NeedsReply
    BY <1>3, <2>2, ActorNames DEF NeedsReply, At
  <2>5. \A b \in Actors : b # a => ~Carries(b)
    BY <1>1, CarrierIsAlone
  <2>6. PICK s : /\ s = IF act[a].failed THEN "failed" ELSE "pending"
                 /\ cmds' = [cmds EXCEPT ![act[a].cmd].status = s]
    BY <1>5
  <2>7. s = "pending" => ~Ran(cmds[act[a].cmd].prompt)
    BY <1>2, <2>6
  <2>8. s # "completed"
    BY <2>6
  <2>9. QED
    BY <1>1, <1>2, <2>2, <2>3, <2>4, <2>5, <2>6, <2>7, <2>8, StatusFrame
<1>6. QED
  BY <1>4, <1>5 DEF GiveBack

\* The queue.
LEMMA QueueCommands ==
  ASSUME IInv, NEW a \in Actors, Queue(a)
  PROVE  CommandsInv'
<1> USE DEF IInv, TypeOK
<1>1. CASE Drain(a)
  <2>1. UNCHANGED <<cmds, started, replies>> /\ (a = Bot => NeedsReply)
    BY <1>1 DEF Drain, store, history, NeedsReply, At
  <2>2. CASE Leave(a)
    BY <2>1, <2>2, LeaveCommands
  <2>3. CASE Goto(a, "next")
    BY <2>1, <2>3, GotoEffect, ObserverCommands DEF At, Carrying, Forks
  <2>4. QED
    BY <1>1, <2>2, <2>3 DEF Drain
<1>2. CASE StartQueued(a)
  <2>1. UNCHANGED <<cmds, started, replies>> /\ act[a].pc = "queued"
    BY <1>2 DEF StartQueued, store, history
  <2>2. /\ act'[a].pc \in {"acquire", "giveback"} /\ act'[a].cmd = act[a].cmd
        /\ \A b \in Actors : b # a => act'[b] = act[b]
    BY <1>2 DEF StartQueued, ActsOK, Acts
  <2>3. act[a].cmd # 0
    BY <2>1 DEF CommandsInv, CommandFits, At
  <2>4. Unstarted(a) /\ At(a, Carrying) /\ At(a, Carrying)' /\ ~HasStarted(a)'
    BY <2>1, <2>2 DEF Unstarted, HasStarted, At, Carrying
  <2>5. a = Bot => NeedsReply
    BY <2>1 DEF NeedsReply, At
  <2>6. QED
    BY <2>1, <2>2, <2>3, <2>4, <2>5, CarryOn
<1>3. QED
  BY <1>1, <1>2, NextCommandCommands, GiveBackCommands DEF Queue

\* Whoever starts a turn starts it for a prompt that Codex was not given yet: the reply
\* itself, or the command it carries, which nobody else does.
LEMMA PromptIsFresh ==
  ASSUME IInv, NEW a \in Actors, At(a, {"turn"})
  PROVE  /\ ~Ran(Prompt(a)) /\ Prompt(a) <= replies
         /\ act[a].cmd = 0 => /\ a = Bot /\ Prompt(a) = replies
                              /\ \A i \in DOMAIN cmds : cmds[i].prompt # Prompt(a)
         /\ act[a].cmd # 0 => /\ lock = a
                              /\ \A i \in DOMAIN cmds :
                                   cmds[i].prompt = Prompt(a) => cmds[i].status = "claimed"
                              /\ NeedsReply => Prompt(a) # replies
<1> USE DEF IInv, TypeOK
<1>1. CASE act[a].cmd = 0
  <2>1. a = Bot
    BY <1>1 DEF CommandsInv, CommandFits, At, Carrying
  <2>2. ~Ran(replies) /\ \A i \in DOMAIN cmds : cmds[i].prompt # replies
    BY <1>1, <2>1 DEF CommandsInv, ReplyIsFresh, At
  <2>3. QED
    BY <1>1, <2>1, <2>2 DEF Prompt, HistoryOK
<1>2. CASE act[a].cmd # 0
  <2>1. Carries(a)
    BY <1>2 DEF Carries, At, Carrying
  <2>2. lock = a
    BY <2>1 DEF ControlInv, Fits, HoldsLock
  <2>3. /\ act[a].cmd \in DOMAIN cmds /\ cmds[act[a].cmd].status = "claimed"
        /\ ~Ran(cmds[act[a].cmd].prompt)
    BY <2>1 DEF CommandsInv, CommandFits, At
  <2>4. Prompt(a) = cmds[act[a].cmd].prompt
    BY <1>2 DEF Prompt
  <2>5. \A i \in DOMAIN cmds : cmds[i].prompt = Prompt(a) => i = act[a].cmd
    BY <2>3, <2>4 DEF CommandsInv, PromptsDistinct
  <2>6. Prompt(a) <= replies /\ (NeedsReply => Prompt(a) # replies)
    BY <2>3, <2>4 DEF CommandsInv, PromptsDistinct, ReplyIsFresh, NeedsReply
  <2>7. QED
    BY <1>2, <2>2, <2>3, <2>4, <2>5, <2>6
<1>3. QED
  BY <1>1, <1>2

\* A turn that Codex started, for whoever thinks that it did or does not know.
LEMMA StartedCommands ==
  ASSUME IInv, NEW a \in Actors, At(a, {"turn"}), UNCHANGED <<cmds, replies>>,
         started' = Append(started, Prompt(a)),
         \A b \in Actors : b # a => act'[b] = act[b], act'[a].cmd = act[a].cmd,
         \/ At(a, {"persist"})'
         \/ At(a, {"abort"})' /\ act'[a].failed
  PROVE  CommandsInv'
<1> USE DEF IInv, TypeOK
<1> DEFINE p == Prompt(a)
<1>1. /\ ~Ran(p) /\ p <= replies
      /\ act[a].cmd = 0 => /\ a = Bot /\ p = replies
                           /\ \A i \in DOMAIN cmds : cmds[i].prompt # p
      /\ act[a].cmd # 0 => /\ lock = a
                           /\ \A i \in DOMAIN cmds :
                                cmds[i].prompt = p => cmds[i].status = "claimed"
                           /\ NeedsReply => p # replies
  BY PromptIsFresh
<1> HIDE DEF p
<1>2. /\ DOMAIN started' = DOMAIN started \cup {Len(started) + 1}
      /\ started'[Len(started) + 1] = p
      /\ \A k \in DOMAIN started : started'[k] = started[k]
      /\ Len(started) + 1 \notin DOMAIN started
  BY DEF HistoryOK, p
<1>3. \A q : Ran(q)' <=> (Ran(q) \/ q = p)
  BY <1>2 DEF Ran
<1>4. StartedOnce'
  BY <1>1, <1>2 DEF CommandsInv, StartedOnce, Ran
<1>5. PromptsDistinct'
  BY <1>1, <1>2 DEF CommandsInv, PromptsDistinct
<1>6. QueueIsHonest'
  <2>1. \A j \in DOMAIN cmds : /\ cmds[j].status = "pending" => ~Ran(cmds[j].prompt)
                               /\ cmds[j].status = "completed" => Ran(cmds[j].prompt)
    BY DEF CommandsInv, QueueIsHonest, Ran
  <2>2. \A j \in DOMAIN cmds : /\ cmds[j].status = "pending" => ~Ran(cmds[j].prompt)'
                               /\ cmds[j].status = "completed" => Ran(cmds[j].prompt)'
    BY <1>1, <1>3, <2>1
  <2>3. QED
    BY <2>2 DEF QueueIsHonest, Ran
<1>7. ReplyIsFresh'
  <2>1. SUFFICES ASSUME NeedsReply'
                 PROVE  /\ replies # 0 /\ ~Ran(replies)'
                        /\ \A i \in DOMAIN cmds : cmds[i].prompt # replies
    BY DEF ReplyIsFresh, NeedsReply
  <2>2. NeedsReply
    BY <2>1, ActorNames DEF NeedsReply, At
  <2>3. act[a].cmd # 0
    BY <1>1, <2>1 DEF NeedsReply, At
  <2>4. QED
    BY <1>1, <1>3, <2>2, <2>3 DEF CommandsInv, ReplyIsFresh, NeedsReply
<1>8. ASSUME NEW b \in Actors, b # a
      PROVE  CommandFits(b)'
  <2>1. CommandFits(b) /\ act'[b] = act[b]
    BY <1>8 DEF CommandsInv
  <2>2. (Carries(b)' <=> Carries(b)) /\ \A pcs : At(b, pcs)' <=> At(b, pcs)
    BY <2>1 DEF Carries, At
  <2>3. Carries(b) => cmds[act[b].cmd].prompt # p
    BY <1>1, <1>8, <2>1, CarrierIsAlone DEF CommandFits
  <2>4. QED
    BY <1>3, <2>1, <2>2, <2>3 DEF CommandFits
<1>9. CommandFits(a)'
  <2>1. CommandFits(a) /\ At(a, Carrying) /\ (Carries(a)' <=> act[a].cmd # 0)
    BY DEF CommandsInv, At, Carries, Carrying
  <2>2. act[a].cmd # 0 => /\ act[a].cmd \in DOMAIN cmds /\ cmds[act[a].cmd].status = "claimed"
                          /\ p = cmds[act[a].cmd].prompt
    BY <2>1 DEF CommandFits, Carries, Prompt, p
  <2>3. a # Bot => act[a].cmd # 0
    BY <2>1 DEF CommandFits
  <2>4. QED
    BY <1>3, <2>1, <2>2, <2>3 DEF CommandFits, At, Forks, Opens
<1>10. QED
  BY <1>4, <1>5, <1>6, <1>7, <1>8, <1>9 DEF CommandsInv

\* A goroutine that opens or starts a turn.
LEMMA StartCommands ==
  ASSUME IInv, NEW a \in Actors, Start(a)
  PROVE  CommandsInv'
<1> USE DEF IInv, TypeOK
<1>1. ASSUME \/ Acquire(a) \/ AcquireFails(a) \/ Resume(a) \/ ResumeFails(a)
             \/ TakeLink(a) \/ TakeFails(a)
      PROVE  CommandsInv'
  <2>1. UNCHANGED <<cmds, started, replies>> /\ At(a, Opens)
    BY <1>1 DEF Acquire, AcquireFails, Resume, ResumeFails, TakeLink, TakeFails, store, history,
       At, Opens
  <2>2. /\ act'[a].pc \in {"resume", "take", "turn", "abort"} /\ act'[a].cmd = act[a].cmd
        /\ \A b \in Actors : b # a => act'[b] = act[b]
    <3>1. CASE Acquire(a)
      BY <3>1 DEF Acquire, Acquired, ActsOK, Acts
    <3>2. CASE \E pc \in {"resume", "take", "turn", "abort"} : Goto(a, pc)
      BY <3>2, GotoEffect
    <3>3. QED
      BY <1>1, <3>1, <3>2, NotStartedEffect DEF AcquireFails, Resume, ResumeFails, TakeLink,
         TakeFails
  <2>3. Unstarted(a) /\ At(a, Carrying) /\ At(a, Carrying)' /\ ~HasStarted(a)'
    BY <2>1, <2>2 DEF Unstarted, HasStarted, At, Carrying, Opens
  <2>4. a = Bot => NeedsReply
    BY <2>1 DEF NeedsReply, At, Opens
  <2>5. QED
    BY <2>1, <2>2, <2>3, <2>4, CarryOn DEF At
<1>2. CASE StartTurn(a)
  <2>1. At(a, {"turn"}) /\ UNCHANGED <<cmds, replies>> /\ started' = Append(started, Prompt(a))
    BY <1>2 DEF StartTurn, TurnStarted, store, At
  <2>2. /\ act'[a].cmd = act[a].cmd /\ act'[a].pc = "persist"
        /\ \A b \in Actors : b # a => act'[b] = act[b]
    BY <1>2 DEF StartTurn, ActsOK, Acts
  <2>3. QED
    BY <2>1, <2>2, StartedCommands DEF At
<1>3. CASE StartTurnFails(a)
  <2>1. /\ At(a, {"turn"}) /\ UNCHANGED <<cmds, replies>>
        /\ started' = Append(started, Prompt(a)) \/ UNCHANGED started
    BY <1>3 DEF StartTurnFails, TurnStarted, At
  <2>2. /\ act'[a].cmd = act[a].cmd /\ act'[a].pc = "abort" /\ act'[a].failed = TRUE
        /\ \A b \in Actors : b # a => act'[b] = act[b]
    BY <1>3 DEF StartTurnFails, ActsOK, Acts
  <2>3. CASE started' = Append(started, Prompt(a))
    BY <2>1, <2>2, <2>3, StartedCommands DEF At
  <2>4. CASE UNCHANGED started
    <3>1. Unstarted(a) /\ At(a, Carrying) /\ At(a, Carrying)' /\ ~HasStarted(a)'
      BY <2>1, <2>2 DEF Unstarted, HasStarted, At, Carrying
    <3>2. a = Bot => NeedsReply
      BY <2>1 DEF NeedsReply, At
    <3>3. QED
      BY <2>1, <2>2, <2>4, <3>1, <3>2, CarryOn DEF At
  <2>5. QED
    BY <2>1, <2>3, <2>4
<1>4. CASE PersistStart(a) \/ Mark(a)
  <2>1. UNCHANGED <<cmds, started, replies>> /\ act[a].pc \in {"persist", "mark"}
    BY <1>4 DEF PersistStart, Mark, history
  <2>2. /\ act'[a].cmd = act[a].cmd /\ act'[a].pc \in {"mark", "complete"}
        /\ \A b \in Actors : b # a => act'[b] = act[b]
    BY <1>4, GotoEffect DEF PersistStart, Mark, ActsOK, Acts
  <2>3. HasStarted(a) /\ At(a, Carrying) /\ At(a, Carrying)' /\ ~Unstarted(a)'
    BY <2>1, <2>2 DEF Unstarted, HasStarted, At, Carrying, Opens
  <2>4. a = Bot => (NeedsReply' => NeedsReply)
    BY <2>1, <2>2 DEF NeedsReply, At
  <2>5. QED
    BY <2>1, <2>2, <2>3, <2>4, CarryOn DEF At
<1>5. CASE Complete(a)
  <2>1. UNCHANGED <<started, replies>> /\ act[a].pc = "complete"
    BY <1>5 DEF Complete, history
  <2>2. CASE act[a].cmd = 0
    BY <1>5, <2>1, <2>2, AnsweredCommands DEF Complete
  <2>3. CASE act[a].cmd # 0
    <3>1. Leave(a) /\ Carries(a) /\ (a = Bot => NeedsReply)
      BY <1>5, <2>1, <2>3 DEF Complete, Carries, At, Carrying, NeedsReply
    <3>2. CASE UNCHANGED cmds
      BY <2>1, <3>1, <3>2, LeaveCommands
    <3>3. CASE cmds' = [cmds EXCEPT ![act[a].cmd].status = "completed"]
      <4>1. /\ act[a].cmd \in DOMAIN cmds /\ Ran(cmds[act[a].cmd].prompt) /\ lock = a
        BY <2>1, <3>1 DEF CommandsInv, CommandFits, At, ControlInv, Fits, HoldsLock
      <4>2. CommandFits(a)'
        BY <3>1, LeaveEffect DEF CommandFits, Carries, At, Carrying, Forks
      <4>3. /\ NeedsReply' => NeedsReply
            /\ \A b \in Actors : b # a => act'[b] = act[b] /\ ~Carries(b)
        BY <3>1, <4>1, LeaveEffect, CarrierIsAlone, ActorNames DEF NeedsReply, At
      <4>4. PICK s : s = "completed" /\ cmds' = [cmds EXCEPT ![act[a].cmd].status = s]
        BY <3>3
      <4>5. s # "pending"
        BY <4>4
      <4>6. QED
        BY <2>1, <4>1, <4>2, <4>3, <4>4, <4>5, StatusFrame
    <3>4. QED
      BY <1>5, <2>3, <3>2, <3>3 DEF Complete
  <2>4. QED
    BY <2>2, <2>3
<1>6. CASE Abort(a)
  <2>1. UNCHANGED <<cmds, started, replies>> /\ act[a].pc = "abort"
    BY <1>6 DEF Abort, store, history
  <2>2. CASE act[a].cmd = 0
    BY <1>6, <2>1, <2>2, AnsweredCommands DEF Abort
  <2>3. CASE act[a].cmd # 0
    <3>1. /\ act'[a].cmd = act[a].cmd /\ act'[a].pc = "giveback"
          /\ act'[a].failed = act[a].failed
          /\ \A b \in Actors : b # a => act'[b] = act[b]
      BY <1>6, <2>3, GotoEffect DEF Abort
    <3>2. /\ At(a, Carrying) /\ At(a, Carrying)' /\ ~HasStarted(a)'
          /\ Unstarted(a)' => Unstarted(a)
      BY <2>1, <3>1 DEF Unstarted, HasStarted, At, Carrying, Opens
    <3>3. a = Bot => NeedsReply
      BY <2>1, <2>3 DEF NeedsReply, At
    <3>4. QED
      BY <2>1, <2>3, <3>1, <3>2, <3>3, CarryOn
  <2>4. QED
    BY <2>2, <2>3
<1>7. QED
  BY <1>1, <1>2, <1>3, <1>4, <1>5, <1>6 DEF Start

\* The fork is made for a reply.
LEMMA CreateCommands ==
  ASSUME IInv, Create
  PROVE  CommandsInv'
<1> USE DEF IInv, TypeOK
<1>1. UNCHANGED <<cmds, started, replies>> /\ At(Bot, Forks)
  BY DEF Create, AcquireForFork, Fork, ForkFails, Activate, store, history, At, Forks
<1>2. act[Bot].cmd = 0 /\ NeedsReply
  BY <1>1, ActorNames DEF CommandsInv, CommandFits, At, Forks, NeedsReply
<1>3. CASE Answered
  BY <1>1, <1>3, AnsweredCommands
<1>4. CASE /\ act'[Bot].pc \in {"fork", "activate", "turn", "abort"} /\ act'[Bot].cmd = act[Bot].cmd
           /\ \A b \in Actors : b # Bot => act'[b] = act[b]
  <2>1. CommandFits(Bot)'
    BY <1>2, <1>4 DEF CommandFits, Carries, At
  <2>2. QED
    BY <1>1, <1>2, <1>4, <2>1, ActorNames, CommandsFrame
<1>5. CASE Acquired(Bot, NewWorker, FALSE, "fork")
  <2>1. /\ act'[Bot].pc = "fork" /\ act'[Bot].cmd = act[Bot].cmd
        /\ \A b \in Actors : b # Bot => act'[b] = act[b]
    BY <1>5, ActorNames DEF Acquired, ActsOK, Acts
  <2>2. QED
    BY <1>4, <2>1
<1>6. CASE \E pc \in {"activate", "turn", "abort"} : Goto(Bot, pc)
  <2>1. /\ act'[Bot].pc \in {"activate", "turn", "abort"} /\ act'[Bot].cmd = act[Bot].cmd
        /\ \A b \in Actors : b # Bot => act'[b] = act[b]
    BY <1>6, GotoEffect, ActorNames
  <2>2. QED
    BY <1>4, <2>1
<1>7. QED
  BY <1>3, <1>5, <1>6, NotStartedEffect, ActorNames DEF Create, AcquireForFork, Fork, ForkFails,
     Activate

\* Prompts are numbers.
LEMMA PromptsTyped ==
  ASSUME TypeOK
  PROVE  /\ \A i \in DOMAIN cmds : cmds[i].prompt \in Nat
         /\ \A k \in DOMAIN started : started[k] \in Nat
<1>1. 1 .. MaxReplies \subseteq Nat
  BY BoundsAssumption
<1>2. ASSUME NEW i \in DOMAIN cmds
      PROVE  cmds[i].prompt \in Nat
  <2>1. cmds[i] \in Commands
    BY DEF TypeOK, StoreOK
  <2>2. QED
    BY <1>1, <2>1 DEF Commands
<1>3. started \in Seq(1 .. MaxReplies)
  BY DEF TypeOK, HistoryOK
<1>4. \A k \in DOMAIN started : started[k] \in 1 .. MaxReplies
  <2>1. \A S, k : started \in Seq(S) /\ k \in DOMAIN started => started[k] \in S
    OBVIOUS
  <2>2. QED
    BY <1>3, <2>1, Zenon
<1>5. QED
  BY <1>1, <1>2, <1>4

\* A message of the owner has a number of its own.
LEMMA ReplyCommands ==
  ASSUME IInv, Reply
  PROVE  CommandsInv'
<1> USE DEF IInv, TypeOK
<1>1. /\ act[Bot].pc = "idle" /\ replies' = replies + 1 /\ replies \in Nat
      /\ UNCHANGED <<cmds, started>>
  BY BoundsAssumption DEF Reply, HistoryOK
<1>2. act[Bot].cmd = 0
  BY <1>1, ActorNames DEF CommandsInv, CommandFits, At
<1>3. /\ act'[Bot].pc \in {"idle", "read", "worker"} /\ act'[Bot].cmd = act[Bot].cmd
      /\ \A b \in Actors : b # Bot => act'[b] = act[b]
  BY <1>1, ActorNames, GotoEffect DEF Reply
<1>4. \A b \in Actors : CommandFits(b)'
  <2>1. CommandFits(Bot)'
    BY <1>2, <1>3 DEF CommandFits, Carries, At, Carrying
  <2>2. QED
    BY <1>1, <1>3, <2>1, OthersCarry DEF CommandsInv
<1>5. PromptsDistinct'
  <2>1. /\ \A i \in DOMAIN cmds : cmds[i].prompt \in Nat
        /\ \A k \in DOMAIN started : started[k] \in Nat
    BY PromptsTyped
  <2>2. QED
    BY <1>1, <2>1 DEF CommandsInv, PromptsDistinct
<1>6. ReplyIsFresh'
  <2>1. /\ \A i \in DOMAIN cmds : cmds[i].prompt \in Nat /\ cmds[i].prompt <= replies
        /\ \A k \in DOMAIN started : started[k] \in Nat /\ started[k] <= replies
    BY PromptsTyped DEF CommandsInv, PromptsDistinct
  <2>2. QED
    BY <1>1, <2>1 DEF ReplyIsFresh, Ran
<1>7. (QueueIsHonest /\ StartedOnce)'
  BY <1>1 DEF CommandsInv, QueueIsHonest, StartedOnce
<1>8. QED
  BY <1>4, <1>5, <1>6, <1>7 DEF CommandsInv

\* A reply to a running turn waits in the queue.
LEMMA EnterReplyCommands ==
  ASSUME IInv, EnterReply
  PROVE  CommandsInv'
<1> USE DEF IInv, TypeOK
<1>1. act[Bot].pc = "enter" /\ UNCHANGED <<started, replies>>
  BY DEF EnterReply, history
<1>2. /\ act[Bot].cmd = 0 /\ NeedsReply /\ ~Ran(replies)
      /\ \A i \in DOMAIN cmds : cmds[i].prompt # replies
  BY <1>1, ActorNames DEF CommandsInv, CommandFits, ReplyIsFresh, NeedsReply, At
<1>3. CASE Answered /\ UNCHANGED cmds
  BY <1>1, <1>3, AnsweredCommands
<1>4. CASE act' = [act EXCEPT ![Bot].pc = "acquire"] /\ UNCHANGED cmds
  <2>1. /\ act'[Bot].pc = "acquire" /\ act'[Bot].cmd = 0
        /\ \A b \in Actors : b # Bot => act'[b] = act[b]
    BY <1>2, <1>4, ActorNames DEF ActsOK, Acts
  <2>2. CommandFits(Bot)'
    BY <2>1 DEF CommandFits, Carries, At
  <2>3. QED
    BY <1>1, <1>2, <1>4, <2>1, <2>2, ActorNames, CommandsFrame
<1>5. CASE Answered /\ cmds' = Append(cmds, [prompt |-> replies, status |-> "pending"])
  <2> DEFINE n == Len(cmds) + 1
  <2>1. /\ DOMAIN cmds' = DOMAIN cmds \cup {n} /\ n \notin DOMAIN cmds
        /\ cmds'[n] = [prompt |-> replies, status |-> "pending"]
        /\ \A i \in DOMAIN cmds : cmds'[i] = cmds[i]
    BY <1>5 DEF StoreOK
  <2>2. cmds'[n].prompt = replies /\ cmds'[n].status = "pending"
    BY <2>1
  <2>3. replies <= replies
    BY DEF HistoryOK
  <2> HIDE DEF n
  <2>4. PromptsDistinct'
    BY <1>1, <1>2, <2>1, <2>2, <2>3 DEF CommandsInv, PromptsDistinct
  <2>5. QueueIsHonest'
    BY <1>1, <1>2, <2>1, <2>2 DEF CommandsInv, QueueIsHonest, Ran
  <2>6. ReplyIsFresh'
    BY <1>5, AnsweredEffect DEF ReplyIsFresh, At
  <2>7. StartedOnce'
    BY <1>1 DEF CommandsInv, StartedOnce
  <2>8. ASSUME NEW b \in Actors
        PROVE  CommandFits(b)'
    <3>1. CASE b = Bot
      BY <1>5, <3>1, AnsweredEffect DEF CommandFits, Carries, At, Carrying, Forks
    <3>2. CASE b # Bot
      <4>1. CommandFits(b) /\ act'[b] = act[b]
        BY <1>5, <3>2, AnsweredEffect DEF CommandsInv
      <4>2. (Carries(b)' <=> Carries(b)) /\ \A pcs : At(b, pcs)' <=> At(b, pcs)
        BY <4>1 DEF Carries, At
      <4>3. \A p : Ran(p)' <=> Ran(p)
        BY <1>1 DEF Ran
      <4>4. QED
        BY <2>1, <4>1, <4>2, <4>3 DEF CommandFits
    <3>3. QED
      BY <3>1, <3>2
  <2>9. QED
    BY <2>4, <2>5, <2>6, <2>7, <2>8 DEF CommandsInv
<1>6. QED
  BY <1>3, <1>4, <1>5 DEF EnterReply

\* A restart gives up the commands that were claimed, so that none of them is started
\* again.
LEMMA RestartCommands ==
  ASSUME IInv, Restart
  PROVE  CommandsInv'
<1> USE DEF IInv, TypeOK
<1>1. /\ \A a \in Actors : act'[a] = Idle
      /\ cmds' = RecoveredCommands /\ UNCHANGED <<started, replies>>
  BY RestartEffect
<1>2. DOMAIN cmds' = DOMAIN cmds
  BY <1>1 DEF RecoveredCommands
<1>3. ASSUME NEW i \in DOMAIN cmds
      PROVE  /\ cmds'[i].prompt = cmds[i].prompt
             /\ cmds'[i].status \in {cmds[i].status, "failed"}
  <2>1. cmds[i] \in Commands
    BY DEF StoreOK
  <2>2. cmds'[i] \in {cmds[i], [cmds[i] EXCEPT !.status = "failed"]}
    BY <1>1 DEF RecoveredCommands
  <2>3. QED
    BY <2>1, <2>2 DEF Commands
<1>4. \A b \in Actors : CommandFits(b)'
  BY <1>1 DEF Idle, CommandFits, Carries, At, Carrying
<1>5. PromptsDistinct'
  BY <1>1, <1>2, <1>3 DEF CommandsInv, PromptsDistinct
<1>6. QueueIsHonest'
  BY <1>1, <1>2, <1>3 DEF CommandsInv, QueueIsHonest
<1>7. (ReplyIsFresh /\ StartedOnce)'
  BY <1>1, ActorNames DEF CommandsInv, ReplyIsFresh, StartedOnce, Idle, At
<1>8. QED
  BY <1>4, <1>5, <1>6, <1>7 DEF CommandsInv

\* A step that moves no goroutine and changes no command.
LEMMA StillCommands ==
  ASSUME CommandsInv, UNCHANGED <<cmds, started, replies, act>>
  PROVE  CommandsInv'
<1>1. CommandFits(Bot)'
  BY ActorNames, OthersCarry DEF CommandsInv
<1>2. NeedsReply' => NeedsReply
  BY DEF NeedsReply, At
<1>3. QED
  BY <1>1, <1>2, ActorNames, CommandsFrame

\* Reading the thread.
LEMMA ReadCommands ==
  ASSUME IInv, NEW a \in Actors, Read(a), a = Bot => act[Bot].pc = "read"
  PROVE  CommandsInv'
<1> USE DEF IInv, TypeOK
<1>1. UNCHANGED <<cmds, started, replies>>
  BY DEF Read, store, history
<1>2. /\ act'[a].pc \in {"touch", "lock"}
      /\ \A b \in Actors : b # a => act'[b] = act[b]
  BY DEF Read, ActsOK, Idle
<1>3. a = Bot => NeedsReply
  BY DEF NeedsReply, At
<1>4. QED
  BY <1>1, <1>2, <1>3, ObserverCommands DEF At, Carrying, Forks

\* Every step keeps the queue honest.
LEMMA NextCommands ==
  ASSUME IInv, [Next]_vars
  PROVE  CommandsInv'
<1> USE DEF IInv, TypeOK
<1>1. CASE Codex \/ Repair \/ UNCHANGED vars
  BY <1>1, StillCommands DEF Codex, Progress, OpenDesktop, CloseDesktop, DesktopTurn, ProcessDies,
     Repair, vars, store, history
<1>2. CASE BotReadFails
  BY <1>2, AnsweredCommands DEF BotReadFails, store, history
<1>3. CASE BotRead \/ PollRead \/ \E w \in Workers : WorkerEvent(w)
  BY <1>3, ReadCommands, ActorNames, NamesAssumption DEF BotRead, PollRead, WorkerEvent
<1>4. CASE \E a \in Busy : Steps(a)
  BY <1>4, ObserveCommands, QueueCommands, StartCommands DEF Steps, Busy
<1>5. QED
  BY <1>1, <1>2, <1>3, <1>4, CreateCommands, ReplyCommands, EnterReplyCommands, RestartCommands
     DEF Next

-----------------------------------------------------------------------------
(***************************************************************************)
(* The theorems.                                                           *)
(***************************************************************************)

\* At first there is nothing.
LEMMA InitIInv ==
  ASSUME Init
  PROVE  IInv
<1> USE DEF Init
<1>1. TypeOK
  <2>1. CodexOK
    BY BoundsAssumption DEF CodexOK
  <2>2. ManagerOK
    BY ZeroTyped DEF ManagerOK, Processes
  <2>3. StoreOK
    BY ZeroTyped DEF StoreOK, Links, LinkStates, Observations
  <2>4. ActsOK
    <3>1. [a \in Actors |-> Idle] \in [Actors -> Acts]
      BY IdleTyped DEF Pcs
    <3>2. QED
      BY <3>1 DEF ActsOK
  <2>5. HistoryOK
    <3>1. started \in Seq(1 .. MaxReplies)
      <4>1. \A S : <<>> \in Seq(S)
        OBVIOUS
      <4>2. QED
        BY <4>1, Zenon
    <3>2. replies \in 0 .. MaxReplies /\ faults \in 0 .. MaxFaults /\ restarts \in 0 .. MaxRestarts
      BY BoundsAssumption
    <3>3. orphaned \in BOOLEAN
      BY Zenon
    <3>4. QED
      BY <3>1, <3>2, <3>3, Zenon DEF HistoryOK
  <2>6. QED
    BY <2>1, <2>2, <2>3, <2>4, <2>5 DEF TypeOK
<1>2. ManagerInv
  <2>1. Workers \ Unused = {}
    BY DEF Unused
  <2>2. Cardinality(Workers \ Unused) = 0
    BY <2>1, FS_EmptySet
  <2>3. QED
    BY <2>2 DEF ManagerInv, Blank
<1>3. ControlInv
  <2>1. \A a \in Actors : Fits(a) /\ ~At(a, Starts)
    BY DEF Idle, Fits, SeesTurn, HoldsLock, LinkFits, WorkerFits, FinisherIsSafe, KeepsOffOrphan,
       Carries, At, Sees, Forks, Opens, Starts, UnderLock, Carrying
  <2>2. QED
    BY <2>1 DEF ControlInv, ForkExists, OneStarter, WorkedBelongsToLink, OrphanIsLost,
       LinkIsNumbered, PendingIsStored, Lives
<1>4. TurnsInv
  BY NamesAssumption DEF TurnsInv, LastTurnRuns, WorkerTurns, NoticesAreOver, Idle, At
<1>5. CommandsInv
  <2>1. \A a \in Actors : CommandFits(a)
    BY DEF CommandFits, Carries, At, Carrying, Idle
  <2>2. QED
    BY <2>1, ActorNames DEF CommandsInv, PromptsDistinct, ReplyIsFresh, QueueIsHonest, StartedOnce,
       At, Idle
<1>6. QED
  BY <1>1, <1>2, <1>3, <1>4, <1>5 DEF IInv

\* The invariant is inductive: it holds of every state the goroutines, Codex, the Desktop,
\* failures and restarts of the daemon can bring about.
THEOREM Invariance == Spec => []IInv
<1>1. Init => IInv
  BY InitIInv
<1>2. IInv /\ [Next]_vars => IInv'
  BY NextTyped, NextControl, NextTurns, NextCommands DEF IInv
<1>3. QED
  BY <1>1, <1>2, PTL DEF Spec

\* What pending_commands says of a reply is true of Codex, for every number of replies,
\* workers, failed calls and restarts (ClaimPendingCommand, drainNextLocked,
\* RecoverClaimedPendingCommands).
THEOREM QueueIsTrue == Spec => []QueueInv
<1>1. IInv => QueueInv
  BY DEF IInv, CommandsInv, QueueInv
<1>2. QED
  BY <1>1, Invariance, PTL

\* No reply of the owner ever becomes two turns of Codex.
THEOREM NoSecondStart == Spec => []StartedOnce
<1>1. IInv => StartedOnce
  BY DEF IInv, CommandsInv
<1>2. QED
  BY <1>1, Invariance, PTL

\* A link that is ready has no process left that ran one of its turns
\* (releaseMinimalTerminalWorker): also not one that outlived the daemon.
THEOREM ReleasedWhenReady == Spec => []ReadyIsReleased
<1>1. IInv => ReadyIsReleased
  BY DEF IInv, ControlInv, WorkedBelongsToLink, OrphanIsLost, Lives, ReadyIsReleased
<1>2. QED
  BY <1>1, Invariance, PTL

\* The owner is told to go on at the PC only about a turn that is over and whose result is
\* in the outbox (FinishMinimalLinkedReleaseWithReadyDelivery).
THEOREM ToldAfterEnd == Spec => []NoticeAfterEnd
<1>1. IInv => NoticeAfterEnd
  BY DEF IInv, TurnsInv, NoticesAreOver, NoticeAfterEnd
<1>2. QED
  BY <1>1, Invariance, PTL

-----------------------------------------------------------------------------
(***************************************************************************)
(* The refinement of Handoff.                                              *)
(***************************************************************************)

\* A step that Handoff does not see.
HandoffUnchanged == UNCHANGED <<link, outbox, notices, orphaned>>

\* An observer settles, announces, fails or hands back.
LEMMA ObserveHandoff ==
  ASSUME IInv, NEW a \in Actors, Observe(a)
  PROVE  HandoffUnchanged \/ H!Settle \/ H!Announce \/ H!Fail \/ H!HandBack
<1> USE DEF IInv, TypeOK
<1>1. CASE \/ Touch(a) \/ LockTerminal(a) \/ SettleRow(a) \/ ClaimTerminal(a)
           \/ EnqueueFails(a) \/ NothingToRelease(a) \/ CloseRegistered(a) \/ FinishFails(a)
  BY <1>1 DEF Touch, LockTerminal, SettleRow, ClaimTerminal, EnqueueFails, NothingToRelease,
     CloseRegistered, FinishFails, HandoffUnchanged, store, history
<1>2. CASE EnqueueTerminal(a)
  <2>1. UNCHANGED <<notices, orphaned>>
    BY <1>2 DEF EnqueueTerminal, history
  <2>2. act[a].turn # 0
    BY <1>2 DEF EnqueueTerminal, ControlInv, Fits, SeesTurn, At, Sees, CodexOK
  <2>3. CASE link.state = "running" /\ link.turn = act[a].turn /\ act[a].turn \notin outbox
    <3>1. /\ link'.state = "pending" /\ link'.turn = link.turn
          /\ outbox' = outbox \cup {link.turn}
      BY <1>2, <2>3 DEF EnqueueTerminal, Enqueued, StoreOK, Links
    <3>2. QED
      BY <2>1, <2>2, <2>3, <3>1 DEF H!Settle
  <2>4. CASE link.state = "running" /\ ~(link.turn = act[a].turn /\ act[a].turn \notin outbox)
    BY <1>2, <2>1, <2>4 DEF EnqueueTerminal, Enqueued, HandoffUnchanged
  <2>5. CASE link.state # "running"
    BY <1>2, <2>1, <2>5 DEF EnqueueTerminal, Enqueued, H!Announce
  <2>6. QED
    BY <2>3, <2>4, <2>5
<1>3. CASE ReleaseLinked(a)
  <2>1. /\ UNCHANGED <<outbox, notices, orphaned>> /\ link.state = "pending"
        /\ UNCHANGED link \/ FailLink(link.gen)
    BY <1>3 DEF ReleaseLinked, history
  <2>2. CASE FailLink(link.gen)
    <3>1. link'.state = "failed" /\ link'.turn = 0
      BY <2>1, <2>2 DEF FailLink, StoreOK, Links
    <3>2. QED
      BY <2>1, <3>1 DEF H!Fail
  <2>3. QED
    BY <2>1, <2>2 DEF HandoffUnchanged
<1>4. CASE FinishRelease(a)
  <2>1. UNCHANGED <<outbox, orphaned>>
    BY <1>4 DEF FinishRelease, history
  <2>2. CASE Finishable(act[a].turn)
    <3>1. link.state = "pending" /\ ~orphaned /\ link.turn \in outbox /\ HandBack(link.turn)
      BY <1>4, <2>2 DEF FinishRelease, Finishable, ControlInv, Fits, KeepsOffOrphan, At,
         PendingIsStored
    <3>2. link'.state = "ready" /\ link'.turn = 0 /\ notices' = notices \cup {link.turn}
      BY <3>1 DEF HandBack
    <3>3. QED
      BY <2>1, <3>1, <3>2 DEF H!HandBack
  <2>3. CASE ~Finishable(act[a].turn)
    BY <1>4, <2>1, <2>3 DEF FinishRelease, HandoffUnchanged
  <2>4. QED
    BY <2>2, <2>3
<1>5. QED
  BY <1>1, <1>2, <1>3, <1>4 DEF Observe

\* A start takes the thread, begins its turn, or fails.
LEMMA StartHandoff ==
  ASSUME IInv, NEW a \in Actors, Start(a) \/ Queue(a)
  PROVE  HandoffUnchanged \/ H!Take \/ H!Begin \/ H!Fail
<1> USE DEF IInv, TypeOK
<1>1. CASE \/ Acquire(a) \/ AcquireFails(a) \/ Resume(a) \/ ResumeFails(a) \/ TakeFails(a)
           \/ StartTurn(a) \/ PersistStart(a) \/ Complete(a) \/ Abort(a) \/ Queue(a)
  BY <1>1 DEF Acquire, AcquireFails, Resume, ResumeFails, TakeFails, StartTurn, PersistStart,
     Complete, Abort, Queue, Drain, NextCommand, StartQueued, GiveBack, HandoffUnchanged, store,
     history
<1>2. CASE TakeLink(a)
  <2>1. UNCHANGED <<outbox, notices, orphaned>>
    BY <1>2 DEF TakeLink, history
  <2>2. UNCHANGED link \/ (link.state = "ready" /\ link'.state = "running" /\ link'.turn = 0)
    BY <1>2 DEF TakeLink
  <2>3. QED
    BY <2>1, <2>2 DEF H!Take, HandoffUnchanged
<1>3. CASE StartTurnFails(a)
  <2>1. UNCHANGED <<outbox, notices, orphaned>> /\ FailLink(procs[act[a].worker].gen)
    BY <1>3 DEF StartTurnFails
  <2>2. /\ UNCHANGED link \/ (link'.state = "failed" /\ link'.turn = 0)
        /\ link' = link \/ link.state \in {"running", "pending"}
    BY <2>1 DEF FailLink, StoreOK, Links
  <2>3. QED
    BY <2>1, <2>2 DEF H!Fail, HandoffUnchanged
<1>4. CASE Mark(a)
  <2>1. UNCHANGED <<outbox, notices, orphaned>>
    BY <1>4 DEF Mark, history
  <2>2. act[a].turn \in Nat \ {0}
    BY <1>4 DEF Mark, TurnsInv, WorkerTurns, RunsOrOver, At, CodexOK
  <2>3. \/ UNCHANGED link
        \/ /\ link.state = "running" /\ link.turn = 0
           /\ link'.state = link.state /\ link'.turn = act[a].turn
    BY <1>4 DEF Mark, StoreOK, Links
  <2>4. QED
    BY <2>1, <2>2, <2>3 DEF H!Begin, HandoffUnchanged
<1>5. QED
  BY <1>1, <1>2, <1>3, <1>4 DEF Start

\* Every step of the daemon is a step of Handoff or leaves it alone.
LEMMA NextHandoff ==
  ASSUME IInv, [Next]_vars
  PROVE  HandoffUnchanged \/ H!Next
<1> USE DEF IInv, TypeOK
<1>1. CASE \/ Codex \/ Reply \/ BotRead \/ BotReadFails \/ EnterReply \/ PollRead
           \/ (\E w \in Workers : WorkerEvent(w)) \/ AcquireForFork \/ Fork \/ ForkFails
           \/ UNCHANGED vars
  BY <1>1 DEF Codex, Progress, OpenDesktop, CloseDesktop, DesktopTurn, ProcessDies, Reply,
     BotRead, BotReadFails, EnterReply, PollRead, WorkerEvent, Read, AcquireForFork, Fork,
     ForkFails, HandoffUnchanged, vars, store, history
<1>2. CASE Activate
  <2>1. UNCHANGED <<outbox, notices, orphaned>>
    BY <1>2 DEF Activate, history
  <2>2. link.state = "none"
    BY <1>2, ActorNames DEF Activate, ControlInv, Fits, LinkFits, At, Forks
  <2>3. UNCHANGED link \/ (link'.state = "running" /\ link'.turn = 0)
    BY <1>2 DEF Activate
  <2>4. QED
    BY <2>1, <2>2, <2>3 DEF H!Next, H!Take, HandoffUnchanged
<1>3. CASE Repair
  <2>1. UNCHANGED <<outbox, orphaned>>
    BY <1>3 DEF Repair, history
  <2>2. CASE CanRepair
    <3>1. link.state = "pending" /\ ~orphaned /\ link.turn \in outbox /\ HandBack(link.turn)
      BY <1>3, <2>2 DEF Repair, CanRepair, Finishable, ControlInv, OrphanIsLost, LinkIsNumbered,
         PendingIsStored
    <3>2. link'.state = "ready" /\ link'.turn = 0 /\ notices' = notices \cup {link.turn}
      BY <3>1 DEF HandBack
    <3>3. QED
      BY <2>1, <3>1, <3>2 DEF H!Next, H!HandBack
  <2>3. CASE ~CanRepair
    BY <1>3, <2>1, <2>3 DEF Repair, HandoffUnchanged
  <2>4. QED
    BY <2>2, <2>3
<1>4. CASE Restart
  <2>1. /\ link'.turn = link.turn /\ link'.gen = link.gen
        /\ link'.state = IF link.state = "running" THEN "pending" ELSE link.state
        /\ orphaned' <=> (orphaned \/ link.state \in {"running", "pending"})
        /\ UNCHANGED <<outbox, notices>>
    BY <1>4, RestartEffect
  <2>2. orphaned \in BOOLEAN /\ orphaned' \in BOOLEAN
    BY NextTyped DEF HistoryOK
  <2>3. CASE link.state \in {"running", "pending"}
    <3>1. orphaned' = TRUE
      BY <2>1, <2>2, <2>3
    <3>2. link'.state = "pending"
      BY <2>1, <2>3
    <3>3. QED
      BY <2>1, <2>3, <3>1, <3>2 DEF H!Next, H!Orphan
  <2>4. CASE link.state \notin {"running", "pending"}
    <3>1. orphaned' = orphaned
      BY <2>1, <2>2, <2>4
    <3>2. link' = link
      BY <1>4, <2>4 DEF Restart
    <3>3. QED
      BY <2>1, <3>1, <3>2 DEF HandoffUnchanged
  <2>5. QED
    BY <2>3, <2>4
<1>5. CASE \E a \in Busy : Steps(a)
  BY <1>5, ObserveHandoff, StartHandoff DEF Steps, Busy, H!Next
<1>6. QED
  BY <1>1, <1>2, <1>3, <1>4, <1>5 DEF Next, Create

\* The tables of a linked thread implement the promise of ADR-020: the result of the turn
\* is stored in the step that ends the ownership, a notice comes with the step that hands
\* the thread back, and a thread orphaned by a restart is never handed back.
THEOREM HandoffIsImplemented == Spec => ImplementsHandoff
<1>1. Init => H!Init
  BY DEF Init, H!Init
<1>2. IInv /\ [Next]_vars => [H!Next]_(H!vars)
  BY NextHandoff DEF HandoffUnchanged, H!vars
<1>3. QED
  BY <1>1, <1>2, Invariance, PTL DEF Spec, ImplementsHandoff, H!Spec
=============================================================================
