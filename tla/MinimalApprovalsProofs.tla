----------------------- MODULE MinimalApprovalsProofs -----------------------
(***************************************************************************)
(* Safety of the approval of a request from Telegram, for every number of  *)
(* turns, sessions, events, button pairs, attempts and faults.             *)
(***************************************************************************)
EXTENDS MinimalApprovals, FiniteSetTheorems, TLAPS

-----------------------------------------------------------------------------
(***************************************************************************)
(* The inductive invariant.                                                *)
(***************************************************************************)

\* The pair of buttons k shows the turn t, and so does the card m.
PairShows(k, t) == k \in DOMAIN pairs /\ pairs[k].turn = t
CardShows(m, t) == m \in DOMAIN cards /\ PairShows(cards[m].pair, t)

\* Wherever a pair or a message is stored with a turn, it shows this turn; the card that a
\* callback edits may show a later turn than the one whose button was pressed.
CardsExist == \A m \in DOMAIN cards : cards[m].pair \in DOMAIN pairs
RequestCard == approval.message # 0 => CardShows(approval.message, approval.turn)
EditCards == \A e \in edits : e.turn # 0 /\ (e.message # 0 => CardShows(e.message, e.turn))
RowPairs == \A t \in Turns : rows[t].pair # 0 => PairShows(rows[t].pair, t)
SenderCard ==
  /\ sender.pc # "idle" => PairShows(sender.pair, sender.turn)
  /\ sender.message # 0 => CardShows(sender.message, sender.turn)
CallbackCard ==
  callback.pc # "idle" =>
    /\ callback.pair \in DOMAIN pairs /\ callback.message \in DOMAIN cards
    /\ callback.pc = "routed" => cards[callback.message].pair = callback.pair
    /\ CallbackTurn <= pairs[cards[callback.message].pair].turn
CardsFit == CardsExist /\ RequestCard /\ EditCards /\ RowPairs /\ SenderCard /\ CallbackCard

\* A row that may be sent has an attempt left.
AttemptsFit ==
  /\ \A t \in Turns : rows[t].status \in {"pending", "retry"} => rows[t].attempts < MaxAttempts
  /\ sender.attempts < MaxAttempts

\* Requests are stored in the order of their turns, and Codex is told about a stored one.
TurnsFit ==
  /\ approval.turn <= turn
  /\ approval.turn = 0 <=> approval.status = "absent"
  /\ \A k \in DOMAIN pairs : pairs[k].turn <= approval.turn
  /\ \A t \in Turns : told[t] # <<>> => t <= approval.turn

\* Only a pending request is claimed.  A callback that has claimed a request holds it until
\* the request is settled or replaced, and nothing was told before it answers.
Claiming == callback.pc \in {"claimed", "answered", "unstored"}
Answered == callback.pc \in {"answered", "unstored", "lost", "edit", "show"}
ClaimInv ==
  /\ ~Idle => Pending
  /\ callback.pc # "idle" => callback.action \in Actions
  /\ Answered => callback.outcome \in Outcomes
  /\ callback.pc = "unstored" => Decided
  /\ Claiming /\ Pending /\ approval.turn = CallbackTurn => approval.claim = callback.action
  /\ Claiming /\ ~Idle => approval.turn = CallbackTurn
  /\ callback.pc = "claimed" => told[CallbackTurn] = <<>>

\* The pending request has one pair that is not used up: the one that is active, if it is not
\* claimed.
Usable == InState({"active", "claimed"})
ButtonsFit ==
  /\ Pending => \E k \in DOMAIN pairs : Usable = {k}
  /\ Pending /\ Idle => \A k \in Usable : pairs[k].status = "active"
  /\ ~Pending => Usable = {}
  /\ \A k \in Usable : pairs[k].turn = approval.turn

\* A result says what Codex was told, wherever it is stored or waits to be; on a card it may
\* be an earlier turn's.
SaysTrue(text, t) ==
  /\ text = "approved" => Told(t, "approve")
  /\ text = "denied" => Told(t, "deny")
SaysUpTo(text, t) == \E u \in 1 .. t : SaysTrue(text, u)
RequestTrue == SaysTrue(approval.status, approval.turn)
CardsTrue == \A m \in DOMAIN cards : SaysUpTo(cards[m].text, pairs[cards[m].pair].turn)
EditsTrue == \A e \in edits : SaysTrue(e.text, e.turn)
AnswerTrue == Answered => SaysTrue(callback.outcome, CallbackTurn)
ResultsTrue == RequestTrue /\ CardsTrue /\ EditsTrue /\ AnswerTrue

IInv ==
  /\ TypeOK /\ CardsFit /\ AttemptsFit /\ TurnsFit /\ ClaimInv /\ ButtonsFit /\ ResultsTrue
  /\ AnsweredOnceByItsCard /\ ToldIsSpent

-----------------------------------------------------------------------------
(***************************************************************************)
(* The operators of the model.                                             *)
(***************************************************************************)

\* "... WHERE status IN (from)" changes the status of these pairs and nothing else.
LEMMA SetPairsForms ==
  ASSUME pairs \in Seq(Pairs), NEW from, NEW to \in PairStates
  PROVE  /\ SetPairs(from, to) \in Seq(Pairs)
         /\ Len(SetPairs(from, to)) = Len(pairs) /\ DOMAIN SetPairs(from, to) = DOMAIN pairs
         /\ \A k \in DOMAIN pairs :
              /\ SetPairs(from, to)[k].turn = pairs[k].turn
              /\ SetPairs(from, to)[k].message = pairs[k].message
              /\ SetPairs(from, to)[k].status = IF pairs[k].status \in from THEN to ELSE pairs[k].status
<1> DEFINE s == SetPairs(from, to)
<1>1. DOMAIN pairs = 1 .. Len(pairs) /\ Len(pairs) \in Nat /\ \A k \in DOMAIN pairs : pairs[k] \in Pairs
  OBVIOUS
<1>2. DOMAIN s = 1 .. Len(pairs)
      /\ \A k \in DOMAIN pairs :
           s[k] = IF pairs[k].status \in from THEN [pairs[k] EXCEPT !.status = to] ELSE pairs[k]
  BY <1>1 DEF SetPairs
<1>3. \A k \in DOMAIN pairs :
           /\ s[k] \in Pairs /\ s[k].turn = pairs[k].turn /\ s[k].message = pairs[k].message
           /\ s[k].status = IF pairs[k].status \in from THEN to ELSE pairs[k].status
  BY <1>1, <1>2 DEF Pairs
<1>4. s = [k \in 1 .. Len(pairs) |-> s[k]]
  BY <1>1 DEF SetPairs
<1> HIDE DEF s
<1>5. s \in Seq(Pairs) /\ Len(s) = Len(pairs)
  BY <1>1, <1>2, <1>3, <1>4
<1> QED
  BY <1>1, <1>2, <1>3, <1>5 DEF s

\* A new pair goes to the end.
LEMMA AppendForms ==
  ASSUME NEW S, NEW s \in Seq(S), NEW e \in S
  PROVE  /\ Append(s, e) \in Seq(S) /\ Len(Append(s, e)) = Len(s) + 1
         /\ DOMAIN Append(s, e) = DOMAIN s \cup {Len(s) + 1} /\ Len(s) + 1 \notin DOMAIN s
         /\ \A k \in DOMAIN s : Append(s, e)[k] = s[k]
         /\ Append(s, e)[Len(s) + 1] = e
OBVIOUS

\* What the event loop stores.
LEMMA NewForms ==
  ASSUME NEW t \in Turns, SessionOK, NEW k \in Nat
  PROVE  /\ NewPair(t) \in Pairs /\ NewApproval(t) \in Approvals /\ NewRow(k) \in Rows
         /\ NewPair(t).turn = t /\ NewPair(t).status = "active"
         /\ NewApproval(t).turn = t /\ NewApproval(t).status = "pending"
         /\ NewApproval(t).claim = "idle" /\ NewApproval(t).message = 0
         /\ NewRow(k).status = "pending" /\ NewRow(k).attempts = 0 /\ NewRow(k).pair = k
BY ApprovalBounds DEF NewPair, NewApproval, NewRow, Pairs, Approvals, Rows, PairStates, Waiting,
   ApprovalStates, Errors, Turns, SessionOK

\* What is there before anything happens, and what an idle goroutine carries.
LEMMA NoForms ==
  /\ NoApproval \in Approvals /\ NoRow \in Rows /\ NoSend \in Sends /\ NoCallback \in Callbacks
  /\ NoSend.pc = "idle" /\ NoSend.message = 0 /\ NoSend.attempts = 0 /\ NoCallback.pc = "idle"
  /\ NoRow.status = "absent" /\ NoRow.pair = 0
BY ApprovalBounds DEF NoApproval, NoRow, NoSend, NoCallback, Approvals, Rows, Sends, Callbacks,
   ApprovalStates, Waiting, Errors, Actions

\* The fields of the records.
LEMMA ApprovalFields ==
  ASSUME NEW a \in Approvals
  PROVE  /\ a.turn \in 0 .. MaxTurns /\ a.session \in 0 .. MaxSessions /\ a.status \in ApprovalStates
         /\ a.claim \in {"idle"} \cup Actions /\ a.message \in Nat
BY DEF Approvals

\* Likewise for a row of the queue.
LEMMA RowFields ==
  ASSUME NEW r \in Rows
  PROVE  /\ r.status \in Waiting \cup {"absent", "dead", "delivered"}
         /\ r.attempts \in 0 .. MaxAttempts /\ r.error \in Errors /\ r.pair \in Nat
BY DEF Rows

\* Likewise for the delivery.
LEMMA SendFields ==
  ASSUME NEW s \in Sends
  PROVE  /\ s.pc \in {"idle", "claimed", "sending", "accepted", "failed", "cleanup"}
         /\ s.turn \in 0 .. MaxTurns /\ s.pair \in Nat /\ s.attempts \in 0 .. MaxAttempts
         /\ s.error \in Errors /\ s.message \in Nat
BY DEF Sends

\* Likewise for the callback handler.
LEMMA CallbackFields ==
  ASSUME NEW c \in Callbacks
  PROVE  /\ c.pc \in {"idle", "routed", "claimed", "answered", "unstored", "lost", "edit", "show"}
         /\ c.pair \in Nat
         /\ c.action \in {""} \cup Actions /\ c.message \in Nat /\ c.session \in 0 .. MaxSessions
         /\ c.outcome \in {""} \cup Outcomes
BY DEF Callbacks

\* An edit changes the text of one card at most.
LEMMA EditCardForms ==
  ASSUME cards \in Seq(Cards), SessionOK, NEW m \in 0 .. Len(cards), NEW text \in Texts,
         EditCard(m, text)
  PROVE  /\ cards' \in Seq(Cards) /\ DOMAIN cards' = DOMAIN cards /\ Len(cards') = Len(cards)
         /\ \A i \in DOMAIN cards :
              /\ cards'[i].pair = cards[i].pair
              /\ cards'[i].text = cards[i].text \/ (i = m /\ cards'[i].text = text)
         /\ faults' \in 0 .. MaxFaults
<1>1. DOMAIN cards = 1 .. Len(cards) /\ Len(cards) \in Nat /\ \A i \in DOMAIN cards : cards[i] \in Cards
  OBVIOUS
<1>2. faults' \in 0 .. MaxFaults
  BY ApprovalBounds DEF EditCard, Fault, SessionOK
<1>3. CASE UNCHANGED cards
  BY <1>1, <1>2, <1>3
<1>4. CASE m # 0 /\ cards' = [cards EXCEPT ![m].text = text]
  <2>1. m \in DOMAIN cards /\ [cards[m] EXCEPT !.text = text] \in Cards
    BY <1>1, <1>4 DEF Cards
  <2>2. cards' = [cards EXCEPT ![m] = [cards[m] EXCEPT !.text = text]]
    BY <1>4
  <2>3. cards' \in Seq(Cards) /\ DOMAIN cards' = DOMAIN cards /\ Len(cards') = Len(cards)
    BY <2>1, <2>2
  <2>4. \A i \in DOMAIN cards : cards'[i] = IF i = m THEN [cards[m] EXCEPT !.text = text] ELSE cards[i]
    BY <1>1, <2>1, <2>2
  <2> QED
    BY <1>1, <1>2, <2>1, <2>3, <2>4 DEF Cards
<1> QED
  BY <1>3, <1>4 DEF EditCard

\* An edit is queued for the message of the request.
LEMMA EnqueueForms ==
  ASSUME approval \in Approvals, edits \subseteq Edits, NEW text \in Texts
  PROVE  /\ EnqueueInactiveEdit(text) \subseteq Edits
         /\ \A e \in EnqueueInactiveEdit(text) :
              \/ e \in edits
              \/ e.turn = approval.turn /\ e.message = approval.message /\ e.text = text
<1> DEFINE n == [turn |-> approval.turn, session |-> approval.session,
                 message |-> approval.message, text |-> text, done |-> FALSE]
<1>1. n \in Edits /\ n.turn = approval.turn /\ n.message = approval.message /\ n.text = text
  BY ApprovalFields DEF Edits
<1>2. EnqueueInactiveEdit(text) \in {edits, edits \cup {n}}
  BY DEF EnqueueInactiveEdit
<1> HIDE DEF n
<1> QED
  BY <1>1, <1>2

\* Rows of the queue that are left alone or given up.
Fades(new) ==
  \A t \in Turns :
    \/ new[t] = rows[t]
    \/ new[t].status = "dead" /\ new[t].pair = 0 /\ new[t].attempts = rows[t].attempts

\* A row that is killed.
LEMMA KillForms ==
  ASSUME rows \in [Turns -> Rows], approval \in Approvals
  PROVE  /\ \A t \in Turns : KillRow(t) \in [Turns -> Rows] /\ Fades(KillRow(t))
         /\ KillCurrentRow \in [Turns -> Rows] /\ Fades(KillCurrentRow)
<1>1. ASSUME NEW t \in Turns
      PROVE  KillRow(t) \in [Turns -> Rows] /\ Fades(KillRow(t))
  <2> DEFINE r == [rows[t] EXCEPT !.status = "dead", !.pair = 0]
  <2>1. r \in Rows /\ r.status = "dead" /\ r.pair = 0 /\ r.attempts = rows[t].attempts
    BY DEF Rows, Waiting
  <2>2. KillRow(t) \in {[rows EXCEPT ![t] = r], [rows EXCEPT ![t] = rows[t]]}
    BY DEF KillRow
  <2> HIDE DEF r
  <2>3. \A x \in Rows : /\ [rows EXCEPT ![t] = x] \in [Turns -> Rows]
                        /\ \A u \in Turns : [rows EXCEPT ![t] = x][u] = IF u = t THEN x ELSE rows[u]
    OBVIOUS
  <2> QED
    BY <2>1, <2>2, <2>3 DEF Fades
<1>2. approval.turn # 0 => approval.turn \in Turns
  BY ApprovalFields, ApprovalBounds DEF Turns
<1> QED
  BY <1>1, <1>2 DEF KillCurrentRow, Fades

\* The row that a failed delivery leaves behind.
LEMMA FailedRowForms ==
  ASSUME sender \in Sends, sender.attempts < MaxAttempts, NEW r \in Rows, NEW error \in Errors,
         NEW dead \in BOOLEAN, sender.attempts + 1 >= MaxAttempts => dead
  PROVE  LET f == FailedRow(r, error, dead)
         IN  /\ f \in Rows /\ f.pair \in {0, r.pair}
             /\ f.status \in {"dead", "retry"} /\ (f.status = "retry" => f.attempts < MaxAttempts)
<1>1. sender.attempts \in 0 .. MaxAttempts /\ r.pair \in Nat /\ MaxAttempts \in Nat
  BY SendFields, RowFields, ApprovalBounds
<1> QED
  BY <1>1 DEF FailedRow, Rows, Waiting

-----------------------------------------------------------------------------
(***************************************************************************)
(* The request, its buttons and its claim.                                 *)
(***************************************************************************)

\* What the other proofs take from here.
RequestInv == TurnsFit /\ ClaimInv /\ ButtonsFit /\ AnsweredOnceByItsCard /\ ToldIsSpent

\* Steps of a callback after it has the answer: it keeps its request, and the outcome or none.
Continues ==
  /\ Answered /\ Answered' /\ callback'.pc # "answered"
  /\ callback'.pc = "unstored" => callback.pc = "answered" /\ Decided'
  /\ callback'.pair = callback.pair /\ callback'.action = callback.action
  /\ callback'.outcome \in {callback.outcome, "expired"}

\* The pair of a callback exists.
LEMMA CallbackPair ==
  ASSUME IInv, callback.pc # "idle"
  PROVE  /\ callback.pair \in DOMAIN pairs /\ CallbackTurn = pairs[callback.pair].turn
         /\ CallbackTurn \in Turns /\ CallbackTurn <= approval.turn
<1>1. callback.pair \in DOMAIN pairs
  BY DEF IInv, CardsFit, CardsExist, CallbackCard
<1>2. pairs[callback.pair] \in Pairs
  BY <1>1 DEF IInv, TypeOK, StoreOK
<1>3. pairs[callback.pair].turn \in Turns /\ pairs[callback.pair].turn <= approval.turn
  BY <1>1, <1>2 DEF IInv, TurnsFit, Pairs
<1> QED
  BY <1>1, <1>3 DEF CallbackTurn

\* A request that is pending belongs to a turn.
LEMMA RequestTurn ==
  ASSUME IInv
  PROVE  /\ approval.turn \in 0 .. MaxTurns /\ turn \in Turns
         /\ Pending => approval.turn \in Turns
         /\ \A k \in DOMAIN pairs : pairs[k].turn \in Turns
<1>1. approval.turn \in 0 .. MaxTurns
  BY ApprovalFields DEF IInv, TypeOK, StoreOK
<1>2. \A k \in DOMAIN pairs : pairs[k] \in Pairs
  BY DEF IInv, TypeOK, StoreOK
<1>3. Pending => approval.turn # 0
  BY DEF IInv, TurnsFit, Pending
<1>4. turn \in Turns
  BY DEF IInv, TypeOK, CodexOK
<1> QED
  BY <1>1, <1>2, <1>3, <1>4, ApprovalBounds DEF Pairs, Turns

\* A callback that is forgotten, that has just read its route, or that has its answer.
LEMMA SameRequest ==
  ASSUME IInv, UNCHANGED <<approval, pairs, told>>, turn' \in Nat, turn' >= turn,
         \/ UNCHANGED callback
         \/ callback'.pc = "idle"
         \/ callback'.pc = "routed" /\ callback'.action \in Actions
         \/ /\ callback.pc = "claimed" /\ callback'.pc = "answered"
            /\ callback'.pair = callback.pair /\ callback'.action = callback.action
            /\ callback'.outcome \in Outcomes
         \/ Continues
  PROVE  RequestInv'
<1>0. approval.turn \in 0 .. MaxTurns /\ turn \in Nat /\ approval.turn <= turn
  BY RequestTurn DEF IInv, TurnsFit, Turns
<1>1. TurnsFit'
  <2>1. approval.turn <= turn'
    BY <1>0
  <2> QED
    BY <2>1 DEF IInv, TurnsFit
<1>2. ButtonsFit' /\ AnsweredOnceByItsCard' /\ ToldIsSpent'
  BY DEF IInv, ButtonsFit, AnsweredOnceByItsCard, ToldIsSpent, Usable, InState, Pending, Idle
<1>3. ClaimInv'
  <2>1. CASE Continues
    BY <2>1 DEF IInv, ClaimInv, Claiming, CallbackTurn, Pending, Idle, Continues, Answered, Outcomes
  <2>2. CASE ~Continues
    BY <2>2 DEF IInv, ClaimInv, Claiming, CallbackTurn, Pending, Idle, Answered, Decided
  <2> QED
    BY <2>1, <2>2
<1> QED
  BY <1>1, <1>2, <1>3 DEF RequestInv

\* A new request: its pair is the only one that can be used.
LEMMA NewRequest ==
  ASSUME IInv, approval.turn # turn, UNCHANGED <<turn, told, callback>>,
         approval' = NewApproval(turn),
         NEW p \in Seq(Pairs), DOMAIN p = DOMAIN pairs,
         \A k \in DOMAIN pairs : p[k].turn = pairs[k].turn /\ p[k].status \notin {"active", "claimed"},
         pairs' = Append(p, NewPair(turn))
  PROVE  RequestInv'
<1>1. turn \in Turns /\ approval.turn \in 0 .. MaxTurns /\ approval.turn < turn
      /\ \A k \in DOMAIN pairs : pairs[k].turn \in Turns
  BY RequestTurn, ApprovalBounds DEF IInv, TurnsFit, Turns
<1>2. /\ NewPair(turn) \in Pairs /\ NewPair(turn).turn = turn /\ NewPair(turn).status = "active"
      /\ approval'.turn = turn /\ approval'.status = "pending" /\ approval'.claim = "idle"
  BY <1>1, NewForms DEF IInv, TypeOK
<1> DEFINE n == Len(p) + 1
<1>3. /\ DOMAIN pairs' = DOMAIN pairs \cup {n} /\ n \notin DOMAIN pairs
      /\ \A k \in DOMAIN pairs : pairs'[k] = p[k]
      /\ pairs'[n] = NewPair(turn)
  BY <1>2, AppendForms
<1> HIDE DEF n
<1>4. TurnsFit'
  <2>1. \A k \in DOMAIN pairs' : pairs'[k].turn <= turn
    BY <1>1, <1>2, <1>3 DEF IInv, TurnsFit, Turns
  <2>2. \A t \in Turns : told[t] # <<>> => t <= turn
    BY <1>1 DEF IInv, TurnsFit, Turns
  <2>3. turn # 0 /\ turn <= turn
    BY <1>1 DEF Turns
  <2> QED
    BY <1>2, <2>1, <2>2, <2>3 DEF TurnsFit
<1>5. ButtonsFit'
  <2>1. Usable' = {n}
    BY <1>2, <1>3 DEF Usable, InState
  <2> QED
    BY <1>2, <1>3, <2>1 DEF ButtonsFit, Pending, Idle
<1>6. AnsweredOnceByItsCard'
  BY DEF IInv, AnsweredOnceByItsCard
<1>7. ToldIsSpent'
  BY <1>1, <1>2 DEF IInv, TurnsFit, ToldIsSpent, Turns
<1>8. ClaimInv'
  <2>1. CASE callback.pc = "idle"
    BY <1>2, <2>1 DEF ClaimInv, Claiming, Answered, Pending, Idle
  <2>2. CASE callback.pc # "idle"
    <3>1. CallbackTurn' = CallbackTurn /\ CallbackTurn # turn
      BY <1>1, <1>3, <2>2, CallbackPair DEF CallbackTurn, Turns
    <3> QED
      BY <1>2, <3>1 DEF IInv, ClaimInv, Claiming, Answered, Decided, Pending, Idle
  <2> QED
    BY <2>1, <2>2
<1> QED
  BY <1>4, <1>5, <1>6, <1>7, <1>8 DEF RequestInv

\* A pending request comes again: it keeps its claim, and may get another pair.
LEMMA SamePending ==
  ASSUME IInv, Pending, approval.turn = turn, UNCHANGED <<turn, told, callback>>,
         approval' = [approval EXCEPT !.session = session],
         \/ UNCHANGED pairs
         \/ pairs' = Append(SetPairs({"active", "claimed"}, "expired"), NewPair(turn))
  PROVE  RequestInv'
<1>1. turn \in Turns /\ \A k \in DOMAIN pairs : pairs[k].turn \in Turns
  BY RequestTurn
<1>2. /\ approval'.turn = approval.turn /\ approval'.status = approval.status
      /\ approval'.claim = approval.claim
  BY DEF IInv, TypeOK, StoreOK, Approvals
<1>3. AnsweredOnceByItsCard' /\ ToldIsSpent'
  BY <1>2 DEF IInv, AnsweredOnceByItsCard, ToldIsSpent, Pending, Idle
<1>4. CASE UNCHANGED pairs
  <2>1. TurnsFit' /\ ButtonsFit' /\ ClaimInv'
    BY <1>2, <1>4 DEF IInv, TurnsFit, ButtonsFit, ClaimInv, Usable, InState, Pending, Idle,
       Claiming, Answered, Decided, CallbackTurn
  <2> QED
    BY <1>3, <2>1 DEF RequestInv
<1>5. CASE pairs' = Append(SetPairs({"active", "claimed"}, "expired"), NewPair(turn))
  <2>1. PICK p : p = SetPairs({"active", "claimed"}, "expired")
    OBVIOUS
  <2>2. /\ p \in Seq(Pairs) /\ DOMAIN p = DOMAIN pairs
        /\ \A k \in DOMAIN pairs : p[k].turn = pairs[k].turn /\ p[k].status \notin {"active", "claimed"}
    BY <2>1, SetPairsForms DEF PairStates, IInv, TypeOK, StoreOK
  <2>3. NewPair(turn) \in Pairs /\ NewPair(turn).turn = turn /\ NewPair(turn).status = "active"
    BY <1>1, NewForms DEF IInv, TypeOK
  <2> DEFINE n == Len(p) + 1
  <2>4. /\ DOMAIN pairs' = DOMAIN pairs \cup {n} /\ n \notin DOMAIN pairs
        /\ \A k \in DOMAIN pairs : pairs'[k] = p[k]
        /\ pairs'[n] = NewPair(turn)
    BY <1>5, <2>1, <2>2, <2>3, AppendForms
  <2> HIDE DEF n
  <2>5. TurnsFit'
    BY <1>1, <1>2, <2>2, <2>3, <2>4 DEF IInv, TurnsFit, Turns
  <2>6. ButtonsFit'
    <3>1. Usable' = {n}
      BY <2>2, <2>3, <2>4 DEF Usable, InState
    <3> QED
      BY <1>2, <2>3, <2>4, <3>1 DEF ButtonsFit, Pending, Idle
  <2>7. ClaimInv'
    <3>1. callback.pc # "idle" => CallbackTurn' = CallbackTurn
      BY <2>2, <2>4, CallbackPair DEF CallbackTurn
    <3> QED
      BY <1>2, <3>1 DEF IInv, ClaimInv, Claiming, Answered, Decided, Pending, Idle
  <2> QED
    BY <1>3, <2>5, <2>6, <2>7 DEF RequestInv
<1> QED
  BY <1>4, <1>5

\* A request that is settled: no pair is left, and no claim.
LEMMA SettledRequest ==
  ASSUME IInv, Pending, UNCHANGED <<turn, told>>,
         UNCHANGED callback \/ callback'.pc = "idle" \/ (Continues /\ callback'.pc # "unstored"),
         approval'.turn = approval.turn, approval'.claim = "idle",
         approval'.status \in ApprovalStates \ {"absent", "pending"},
         DOMAIN pairs' = DOMAIN pairs,
         \A k \in DOMAIN pairs :
           pairs'[k].turn = pairs[k].turn /\ pairs'[k].status \notin {"active", "claimed"}
  PROVE  RequestInv'
<1>1. TurnsFit'
  BY DEF IInv, TurnsFit, Pending
<1>2. Usable' = {}
  BY DEF Usable, InState
<1>3. ButtonsFit'
  BY <1>2 DEF ButtonsFit, Pending
<1>4. AnsweredOnceByItsCard' /\ ToldIsSpent'
  BY DEF IInv, AnsweredOnceByItsCard, ToldIsSpent, Pending
<1>5. ClaimInv'
  <2>1. CASE callback'.pc = "idle"
    BY <2>1 DEF ClaimInv, Claiming, Answered, Pending, Idle
  <2>2. CASE callback' = callback /\ callback.pc # "idle"
    <3>1. CallbackTurn' = CallbackTurn
      BY <2>2, CallbackPair DEF CallbackTurn
    <3> QED
      BY <2>2, <3>1 DEF IInv, ClaimInv, Claiming, Answered, Decided, Pending, Idle
  <2>3. CASE Continues /\ callback'.pc # "unstored"
    BY <2>3 DEF IInv, ClaimInv, Claiming, Answered, Pending, Idle, Continues, Outcomes
  <2> QED
    BY <2>1, <2>2, <2>3
<1> QED
  BY <1>1, <1>3, <1>4, <1>5 DEF RequestInv

\* The pairs that a settled request leaves behind: those of an unclaimed request were active,
\* and those of a claim that is finished were claimed.
LEMMA PairsSpent ==
  ASSUME IInv, Pending, NEW to \in {"consumed", "expired"}, NEW from,
         \/ from = {"active", "claimed"}
         \/ from = {"active"} /\ Idle
         \/ from = {"claimed"} /\ OnePair({"claimed"})
  PROVE  /\ DOMAIN SetPairs(from, to) = DOMAIN pairs
         /\ \A k \in DOMAIN pairs :
              /\ SetPairs(from, to)[k].turn = pairs[k].turn
              /\ SetPairs(from, to)[k].status \notin {"active", "claimed"}
<1>1. /\ DOMAIN SetPairs(from, to) = DOMAIN pairs
      /\ \A k \in DOMAIN pairs :
           /\ SetPairs(from, to)[k].turn = pairs[k].turn
           /\ SetPairs(from, to)[k].status = IF pairs[k].status \in from THEN to ELSE pairs[k].status
  BY SetPairsForms DEF IInv, TypeOK, StoreOK, PairStates
<1>2. \A k \in Usable : pairs[k].status \in from
  <2>1. CASE from = {"active", "claimed"}
    BY <2>1 DEF Usable, InState
  <2>2. CASE from = {"active"} /\ Idle
    BY <2>2 DEF IInv, ButtonsFit
  <2>3. CASE from = {"claimed"} /\ OnePair({"claimed"})
    <3>1. InState({"claimed"}) # {}
      BY <2>3, FS_EmptySet DEF OnePair
    <3>2. PICK k \in DOMAIN pairs : Usable = {k}
      BY DEF IInv, ButtonsFit
    <3>3. InState({"claimed"}) \subseteq Usable
      BY DEF InState, Usable
    <3> QED
      BY <2>3, <3>1, <3>2, <3>3 DEF InState
  <2> QED
    BY <2>1, <2>2, <2>3
<1>3. \A k \in DOMAIN pairs : pairs[k].status \in {"active", "claimed"} => k \in Usable
  BY DEF Usable, InState
<1> QED
  BY <1>1, <1>2, <1>3

\* The message of the card is stored with the request and its pair.
LEMMA SameClaim ==
  ASSUME IInv, UNCHANGED <<turn, told, callback>>,
         approval'.turn = approval.turn, approval'.claim = approval.claim,
         approval'.status = approval.status, DOMAIN pairs' = DOMAIN pairs,
         \A k \in DOMAIN pairs :
           pairs'[k].turn = pairs[k].turn /\ pairs'[k].status = pairs[k].status
  PROVE  RequestInv'
<1>1. TurnsFit'
  BY DEF IInv, TurnsFit
<1>2. Usable' = Usable /\ Usable \subseteq DOMAIN pairs
  BY DEF Usable, InState
<1>3. ButtonsFit'
  BY <1>2 DEF IInv, ButtonsFit, Pending, Idle
<1>4. AnsweredOnceByItsCard' /\ ToldIsSpent'
  BY DEF IInv, AnsweredOnceByItsCard, ToldIsSpent, Pending, Idle
<1>5. ClaimInv'
  <2>1. callback.pc # "idle" => CallbackTurn' = CallbackTurn
    BY CallbackPair DEF CallbackTurn
  <2> QED
    BY <2>1 DEF IInv, ClaimInv, Claiming, Answered, Decided, Pending, Idle
<1> QED
  BY <1>1, <1>3, <1>4, <1>5 DEF RequestInv

\* The callback claims the request of its card: nothing was told for it before.
LEMMA ClaimedRequest ==
  ASSUME IInv, UNCHANGED <<turn, told>>, callback.pc = "routed", Pending, Idle,
         CallbackTurn = approval.turn, callback'.pc = "claimed", callback'.pair = callback.pair,
         callback'.action = callback.action,
         approval'.turn = approval.turn, approval'.claim = callback.action,
         approval'.status = approval.status, DOMAIN pairs' = DOMAIN pairs,
         \A k \in DOMAIN pairs :
           /\ pairs'[k].turn = pairs[k].turn
           /\ pairs'[k].status = IF pairs[k].status = "active" THEN "claimed" ELSE pairs[k].status
  PROVE  RequestInv'
<1>1. TurnsFit'
  BY DEF IInv, TurnsFit
<1>2. Usable' = Usable /\ Usable \subseteq DOMAIN pairs
  BY DEF Usable, InState
<1>3. callback.action \in Actions /\ approval'.claim # "idle"
  BY DEF IInv, ClaimInv, Actions
<1>4. ButtonsFit'
  BY <1>2, <1>3 DEF IInv, ButtonsFit, Pending, Idle
<1>5. AnsweredOnceByItsCard' /\ ToldIsSpent'
  BY <1>3 DEF IInv, AnsweredOnceByItsCard, ToldIsSpent, Pending, Idle
<1>6. CallbackTurn' = CallbackTurn
  BY CallbackPair DEF CallbackTurn
<1>7. told[CallbackTurn] = <<>>
  BY DEF IInv, ToldIsSpent
<1>8. ClaimInv'
  BY <1>3, <1>6, <1>7 DEF ClaimInv, Claiming, Answered, Pending, Idle
<1> QED
  BY <1>1, <1>4, <1>5, <1>8 DEF RequestInv

\* The callback gives the request back: it has not told anybody.
LEMMA RestoredRequest ==
  ASSUME IInv, UNCHANGED <<turn, told>>, callback.pc = "claimed", Holds, callback'.pc = "idle",
         approval'.turn = approval.turn, approval'.claim = "idle",
         approval'.status = approval.status, pairs' = SetPairs({"claimed"}, "active")
  PROVE  RequestInv'
<1>0. /\ DOMAIN pairs' = DOMAIN pairs
      /\ \A k \in DOMAIN pairs :
           /\ pairs'[k].turn = pairs[k].turn
           /\ pairs'[k].status = IF pairs[k].status \in {"claimed"} THEN "active" ELSE pairs[k].status
  BY SetPairsForms DEF IInv, TypeOK, StoreOK, PairStates
<1>1. TurnsFit'
  BY <1>0 DEF IInv, TurnsFit
<1>2. Usable' = Usable /\ Usable \subseteq DOMAIN pairs /\ \A k \in Usable : pairs'[k].status = "active"
  BY <1>0 DEF Usable, InState
<1>3. ButtonsFit'
  BY <1>0, <1>2 DEF IInv, ButtonsFit, Pending, Holds
<1>4. AnsweredOnceByItsCard' /\ ClaimInv'
  BY DEF IInv, AnsweredOnceByItsCard, ClaimInv, Claiming, Answered, Idle
<1>5. approval.turn = CallbackTurn /\ told[CallbackTurn] = <<>>
  BY DEF IInv, ClaimInv, Claiming, Holds, Idle, Actions
<1>6. ToldIsSpent'
  BY <1>5 DEF ToldIsSpent
<1> QED
  BY <1>1, <1>3, <1>4, <1>6 DEF RequestInv

\* Codex is told what the card says: the first time, and for the turn that the card shows.
LEMMA ToldRequest ==
  ASSUME IInv, UNCHANGED <<turn, approval, pairs>>, callback.pc = "claimed",
         asked = CallbackTurn, Tell, callback'.pc = "answered", callback'.pair = callback.pair,
         callback'.action = callback.action, callback'.outcome \in Outcomes
  PROVE  RequestInv'
<1>1. /\ CallbackTurn \in Turns /\ CallbackTurn <= approval.turn /\ CallbackTurn' = CallbackTurn
      /\ told[CallbackTurn] = <<>> /\ callback.action \in Actions
  BY CallbackPair DEF IInv, ClaimInv, CallbackTurn
<1> PICK u : u = CallbackTurn
  OBVIOUS
<1> DEFINE d == [action |-> callback.action, shown |-> u]
<1>2. told' = [told EXCEPT ![u] = Append(<<>>, d)] /\ told \in [Turns -> Seq([action : Actions, shown : Turns])]
  BY <1>1 DEF Tell, IInv, TypeOK, CodexOK
<1>3. d.shown = u
  OBVIOUS
<1> HIDE DEF d
<1>4. /\ told'[u] = <<d>>
      /\ \A t \in Turns : t # u => told'[t] = told[t]
  <2>1. Append(<<>>, d) = <<d>> /\ u \in Turns
    BY <1>1
  <2> QED
    BY <1>2, <2>1
<1>5. TurnsFit'
  BY <1>1, <1>4 DEF IInv, TurnsFit
<1>6. ButtonsFit'
  BY DEF IInv, ButtonsFit, Usable, InState, Pending, Idle
<1>7. AnsweredOnceByItsCard'
  <2>1. PICK s : s = <<d>>
    OBVIOUS
  <2>2. Len(s) <= 1 /\ \A i \in DOMAIN s : s[i] = d
    BY <2>1
  <2>3. told'[u] = s
    BY <1>4, <2>1
  <2> QED
    BY <1>3, <1>4, <2>2, <2>3 DEF IInv, AnsweredOnceByItsCard
<1>8. ToldIsSpent'
  <2>1. SUFFICES ASSUME Pending, Idle
                 PROVE  told'[approval.turn] = <<>>
    BY DEF ToldIsSpent, Pending, Idle
  <2>2. approval.turn # u /\ approval.turn \in Turns
    BY <2>1, <1>1, RequestTurn DEF IInv, ClaimInv, Claiming, Idle, Actions
  <2> QED
    BY <1>4, <2>1, <2>2 DEF IInv, ToldIsSpent
<1>9. ClaimInv'
  BY <1>1 DEF IInv, ClaimInv, Claiming, Answered, Decided, Pending, Idle
<1> QED
  BY <1>5, <1>6, <1>7, <1>8, <1>9 DEF RequestInv

-----------------------------------------------------------------------------
(***************************************************************************)
(* The tables, the cards and the results.                                  *)
(***************************************************************************)

TablesOK == CodexOK /\ SessionOK /\ StoreOK /\ BotOK

\* Pairs keep their turns, cards their pairs, and what Codex was told stays told.
Grows ==
  /\ \A k \in DOMAIN pairs : k \in DOMAIN pairs' /\ pairs'[k].turn = pairs[k].turn
  /\ \A m \in DOMAIN cards : m \in DOMAIN cards' /\ cards'[m].pair = cards[m].pair
  /\ \A t \in Turns, a \in Actions : Told(t, a) => Told(t, a)'

\* Where pairs, cards and told stay the same.
LEMMA NothingGrows ==
  ASSUME UNCHANGED <<pairs, cards, told>>
  PROVE  Grows
BY DEF Grows, Told

\* What the results and the stored turns are about.
LEMMA TurnsNamed ==
  ASSUME IInv
  PROVE  /\ \A m \in DOMAIN cards : cards[m].pair \in DOMAIN pairs /\ pairs[cards[m].pair].turn \in Turns
         /\ approval.status \in {"approved", "denied"} => approval.turn \in Turns
         /\ \A e \in edits : e.turn \in Turns
<1>1. \A m \in DOMAIN cards : cards[m].pair \in DOMAIN pairs /\ pairs[cards[m].pair].turn \in Turns
  BY RequestTurn DEF IInv, CardsFit, CardsExist
<1>2. approval.status \in {"approved", "denied"} => approval.turn \in Turns
  BY RequestTurn, ApprovalBounds DEF IInv, TurnsFit, Turns
<1>3. \A e \in edits : e.turn \in Turns
  <2>1. \A e \in edits : e.turn \in 0 .. MaxTurns
    BY DEF IInv, TypeOK, StoreOK, Edits
  <2> QED
    BY <2>1, ApprovalBounds DEF IInv, CardsFit, EditCards, Turns
<1> QED
  BY <1>1, <1>2, <1>3

\* What is true stays true.
LEMMA TrueStays ==
  ASSUME Grows, NEW text, NEW t \in Turns, SaysTrue(text, t)
  PROVE  SaysTrue(text, t)'
BY DEF Grows, SaysTrue, Actions

\* Likewise on a card, where what is true for its turn is true up to its turn.
LEMMA UpToStays ==
  ASSUME NEW text, NEW t \in Turns
  PROVE  /\ Grows /\ SaysUpTo(text, t) => SaysUpTo(text, t)'
         /\ \A u \in 1 .. t : SaysTrue(text, u) => SaysUpTo(text, t)
         /\ SaysTrue(text, t) => SaysUpTo(text, t)
<1>1. 1 .. t \subseteq Turns /\ t \in 1 .. t
  BY ApprovalBounds DEF Turns
<1>2. ASSUME Grows, NEW u \in 1 .. t, SaysTrue(text, u)
      PROVE  SaysTrue(text, u)'
  BY <1>1, <1>2, TrueStays
<1>3. ASSUME Grows, SaysUpTo(text, t)
      PROVE  SaysUpTo(text, t)'
  <2>1. PICK u \in 1 .. t : SaysTrue(text, u)
    BY <1>3 DEF SaysUpTo
  <2>2. SaysTrue(text, u)'
    BY <1>2, <1>3, <2>1
  <2> QED
    BY <2>2 DEF SaysUpTo
<1> QED
  BY <1>1, <1>3 DEF SaysUpTo

\* Cards that show a turn keep showing it.
LEMMA ShowsStays ==
  ASSUME IInv, Grows, NEW m, NEW t
  PROVE  /\ PairShows(m, t) => PairShows(m, t)'
         /\ CardShows(m, t) => CardShows(m, t)'
BY DEF Grows, PairShows, CardShows, IInv, CardsFit, CardsExist

\* The callback goes on with the request and the card that it has.
SameCard ==
  /\ callback.pc # "idle" /\ callback'.pc # "routed"
  /\ callback'.pair = callback.pair /\ callback'.message = callback.message

\* The parts about cards and pairs that a step does not touch.
LEMMA CardsKept ==
  ASSUME IInv, Grows
  PROVE  /\ DOMAIN cards' = DOMAIN cards => CardsExist'
         /\ approval'.message = approval.message /\ approval'.turn = approval.turn => RequestCard'
         /\ UNCHANGED edits => EditCards'
         /\ (\A t \in Turns : rows'[t].pair \in {0, rows[t].pair}) => RowPairs'
         /\ UNCHANGED sender \/ sender' = NoSend => SenderCard'
         /\ UNCHANGED callback \/ callback' = NoCallback \/ SameCard => CallbackCard'
<1>1. CardsExist /\ RequestCard /\ EditCards /\ RowPairs /\ SenderCard /\ CallbackCard
  BY DEF IInv, CardsFit
<1>2. \A m, t : (PairShows(m, t) => PairShows(m, t)') /\ (CardShows(m, t) => CardShows(m, t)')
  BY ShowsStays
<1>3. DOMAIN cards' = DOMAIN cards => CardsExist'
  BY <1>1 DEF CardsExist, Grows
<1>4. approval'.message = approval.message /\ approval'.turn = approval.turn => RequestCard'
  BY <1>1, <1>2 DEF RequestCard, CardShows, PairShows
<1>5. UNCHANGED edits => EditCards'
  BY <1>1, <1>2 DEF EditCards, CardShows, PairShows
<1>6. (\A t \in Turns : rows'[t].pair \in {0, rows[t].pair}) => RowPairs'
  BY <1>1, <1>2 DEF RowPairs, PairShows
<1>7. UNCHANGED sender \/ sender' = NoSend => SenderCard'
  BY <1>1, <1>2, NoForms DEF SenderCard, CardShows, PairShows
<1>8. ASSUME UNCHANGED callback \/ callback' = NoCallback \/ SameCard
      PROVE  CallbackCard'
  <2>1. CASE callback'.pc = "idle"
    BY <2>1 DEF CallbackCard
  <2>2. CASE callback'.pc # "idle"
    <3>1. /\ callback.pc # "idle" /\ callback'.pair = callback.pair /\ callback'.message = callback.message
          /\ callback'.pc = "routed" => callback.pc = "routed"
      BY <1>8, <2>2, NoForms DEF SameCard
    <3>2. /\ callback.pair \in DOMAIN pairs /\ callback.message \in DOMAIN cards
          /\ cards[callback.message].pair \in DOMAIN pairs
          /\ callback.pc = "routed" => cards[callback.message].pair = callback.pair
          /\ CallbackTurn <= pairs[cards[callback.message].pair].turn
      BY <1>1, <3>1 DEF CallbackCard, CardsExist
    <3>3. /\ callback'.pair \in DOMAIN pairs' /\ callback'.message \in DOMAIN cards'
          /\ cards'[callback'.message].pair = cards[callback.message].pair
          /\ pairs'[cards'[callback'.message].pair].turn = pairs[cards[callback.message].pair].turn
          /\ CallbackTurn' = CallbackTurn
      BY <3>1, <3>2 DEF Grows, CallbackTurn
    <3> QED
      BY <3>1, <3>2, <3>3 DEF CallbackCard
  <2> QED
    BY <2>1, <2>2
<1> QED
  BY <1>3, <1>4, <1>5, <1>6, <1>7, <1>8

\* The results that a step does not touch.
LEMMA ResultsKept ==
  ASSUME IInv, Grows
  PROVE  /\ \/ approval'.status \notin {"approved", "denied"}
            \/ approval'.status = approval.status /\ approval'.turn = approval.turn
            => RequestTrue'
         /\ UNCHANGED edits => EditsTrue'
         /\ UNCHANGED callback \/ callback'.pc \in {"idle", "routed", "claimed"} \/ Continues => AnswerTrue'
         /\ DOMAIN cards' = DOMAIN cards /\ (\A m \in DOMAIN cards : cards'[m].text = cards[m].text)
            => CardsTrue'
<1>1. RequestTrue /\ CardsTrue /\ EditsTrue /\ AnswerTrue
  BY DEF IInv, ResultsTrue
<1>2. \A text : \A t \in Turns : SaysTrue(text, t) => SaysTrue(text, t)'
  BY TrueStays
<1>3. ASSUME \/ approval'.status \notin {"approved", "denied"}
             \/ approval'.status = approval.status /\ approval'.turn = approval.turn
      PROVE  RequestTrue'
  <2>1. CASE approval'.status \notin {"approved", "denied"}
    BY <2>1 DEF RequestTrue, SaysTrue
  <2>2. CASE /\ approval'.status = approval.status /\ approval'.turn = approval.turn
             /\ approval.status \in {"approved", "denied"}
    <3>1. SaysTrue(approval.status, approval.turn) /\ approval.turn \in Turns
      BY <1>1, <2>2, TurnsNamed DEF RequestTrue
    <3>2. PICK text, t : text = approval.status /\ t = approval.turn /\ t \in Turns
      BY <3>1
    <3>3. SaysTrue(text, t)'
      BY <1>2, <3>1, <3>2
    <3> QED
      BY <2>2, <3>2, <3>3 DEF RequestTrue, SaysTrue, Told
  <2> QED
    BY <1>3, <2>1, <2>2
<1>4. ASSUME UNCHANGED edits
      PROVE  EditsTrue'
  <2>1. ASSUME NEW e \in edits
        PROVE  SaysTrue(e.text, e.turn)'
    <3>1. SaysTrue(e.text, e.turn) /\ e.turn \in Turns
      BY <1>1, TurnsNamed DEF EditsTrue
    <3> QED
      BY <1>2, <3>1
  <2> QED
    BY <1>4, <2>1 DEF EditsTrue
<1>5. ASSUME UNCHANGED callback \/ callback'.pc \in {"idle", "routed", "claimed"} \/ Continues
      PROVE  AnswerTrue'
  <2>1. CASE ~Answered' \/ callback'.outcome = "expired"
    BY <2>1 DEF AnswerTrue, SaysTrue
  <2>2. CASE Answered /\ callback'.pair = callback.pair /\ callback'.outcome = callback.outcome
    <3>1. SaysTrue(callback.outcome, CallbackTurn)
      BY <1>1, <2>2 DEF AnswerTrue
    <3>2. CallbackTurn \in Turns /\ CallbackTurn' = CallbackTurn
      BY <2>2, CallbackPair DEF Grows, CallbackTurn, Answered
    <3>3. PICK text, t : text = callback.outcome /\ t = CallbackTurn /\ t \in Turns
      BY <3>2
    <3>4. SaysTrue(text, t)'
      BY <1>2, <3>1, <3>3
    <3> QED
      BY <2>2, <3>2, <3>3, <3>4 DEF AnswerTrue, SaysTrue, Told
  <2> QED
    BY <1>5, <2>1, <2>2 DEF Continues, Answered
<1>6. ASSUME DOMAIN cards' = DOMAIN cards, \A m \in DOMAIN cards : cards'[m].text = cards[m].text
      PROVE  CardsTrue'
  <2>1. ASSUME NEW m \in DOMAIN cards
        PROVE  SaysUpTo(cards[m].text, pairs[cards[m].pair].turn)'
    <3>1. PICK text, t : text = cards[m].text /\ t = pairs[cards[m].pair].turn /\ t \in Turns
      BY TurnsNamed
    <3>2. cards'[m].text = text /\ pairs'[cards'[m].pair].turn = t
      BY <1>6, <3>1, TurnsNamed DEF Grows
    <3>3. SaysUpTo(text, t)'
      BY <1>1, <3>1, UpToStays DEF CardsTrue
    <3> QED
      BY <3>2, <3>3 DEF SaysUpTo, SaysTrue, Told
  <2> QED
    BY <1>6, <2>1 DEF CardsTrue
<1> QED
  BY <1>3, <1>4, <1>5, <1>6

\* The cards after an edit that tells the truth.
LEMMA EditedCards ==
  ASSUME IInv, NEW m \in 0 .. Len(cards), NEW text \in Texts, EditCard(m, text),
         \A k \in DOMAIN pairs : k \in DOMAIN pairs' /\ pairs'[k].turn = pairs[k].turn,
         UNCHANGED told, m # 0 => SaysUpTo(text, pairs[cards[m].pair].turn)
  PROVE  /\ Grows /\ CardsExist' /\ CardsTrue'
         /\ cards' \in Seq(Cards) /\ faults' \in 0 .. MaxFaults
<1>0. cards \in Seq(Cards) /\ SessionOK
  BY DEF IInv, TypeOK, BotOK
<1>1. /\ cards' \in Seq(Cards) /\ DOMAIN cards' = DOMAIN cards /\ faults' \in 0 .. MaxFaults
      /\ \A i \in DOMAIN cards :
           /\ cards'[i].pair = cards[i].pair
           /\ cards'[i].text = cards[i].text \/ (i = m /\ cards'[i].text = text)
  BY <1>0, EditCardForms
<1>2. Grows
  BY <1>1 DEF Grows, Told
<1>3. CardsExist'
  BY <1>1, <1>2, CardsKept
<1>4. ASSUME NEW i \in DOMAIN cards
      PROVE  SaysUpTo(cards[i].text, pairs[cards[i].pair].turn)'
  <2>1. PICK new, t : new = cards'[i].text /\ t = pairs[cards[i].pair].turn /\ t \in Turns
    BY TurnsNamed
  <2>2. SaysUpTo(new, t)
    <3>1. m = i => m # 0
      BY <1>0
    <3> QED
      BY <1>1, <2>1, <3>1 DEF IInv, ResultsTrue, CardsTrue
  <2>3. SaysUpTo(new, t)'
    BY <1>2, <2>1, <2>2, UpToStays
  <2>4. pairs'[cards'[i].pair].turn = t
    BY <1>1, <2>1, TurnsNamed
  <2> QED
    BY <2>1, <2>3, <2>4 DEF SaysUpTo, SaysTrue, Told
<1>5. CardsTrue'
  BY <1>1, <1>4 DEF CardsTrue
<1> QED
  BY <1>1, <1>2, <1>3, <1>5

\* A card may always be called inactive.
LEMMA InactiveSays ==
  ASSUME IInv, NEW m \in 0 .. Len(cards)
  PROVE  "inactive" \in Texts /\ (m # 0 => SaysUpTo("inactive", pairs[cards[m].pair].turn))
<1>1. cards \in Seq(Cards)
  BY DEF IInv, TypeOK, BotOK
<1>2. m # 0 => m \in DOMAIN cards
  BY <1>1
<1>3. m # 0 => pairs[cards[m].pair].turn \in Turns
  BY <1>2, TurnsNamed
<1>4. \A t : SaysTrue("inactive", t)
  BY DEF SaysTrue
<1>5. m # 0 => SaysUpTo("inactive", pairs[cards[m].pair].turn)
  BY <1>3, <1>4, UpToStays
<1> QED
  BY <1>5 DEF Texts

\* The parts make the invariant.
LEMMA PartsMakeInv ==
  ASSUME TablesOK', CardsFit', AttemptsFit', RequestInv', ResultsTrue'
  PROVE  IInv'
<1>1. approval.message' \in Nat
  BY ApprovalFields DEF TablesOK, StoreOK
<1>2. approval.message' = 0 \/ approval.message' \in DOMAIN cards'
  BY DEF CardsFit, RequestCard, CardShows
<1>3. cards' \in Seq(Cards)
  BY DEF TablesOK, BotOK
<1>4. approval.message' \in 0 .. Len(cards')
  BY <1>1, <1>2, <1>3
<1>5. \A m \in DOMAIN cards' : cards'[m].pair \in DOMAIN pairs'
  BY DEF CardsFit, CardsExist
<1> QED
  BY <1>4, <1>5 DEF IInv, TypeOK, TablesOK, RequestInv

\* A step that leaves the store, the cards and both goroutines alone.
LEMMA QuietStep ==
  ASSUME IInv, UNCHANGED <<store, cards, sender, callback, told>>, turn' \in Turns, turn' >= turn,
         CodexOK', SessionOK'
  PROVE  IInv'
<1>0. UNCHANGED <<approval, pairs, rows, edits>>
  BY DEF store
<1>1. TablesOK'
  BY <1>0 DEF IInv, TypeOK, TablesOK, StoreOK, BotOK
<1>2. RequestInv'
  BY <1>0, SameRequest DEF Turns
<1>3. Grows
  BY <1>0, NothingGrows
<1>4. CardsFit' /\ ResultsTrue'
  BY <1>0, <1>3, CardsKept, ResultsKept DEF CardsFit, ResultsTrue
<1>5. AttemptsFit'
  BY <1>0 DEF IInv, AttemptsFit
<1> QED
  BY <1>1, <1>2, <1>4, <1>5, PartsMakeInv

\* Codex and its session.
LEMMA CodexSteps ==
  ASSUME IInv, Codex \/ DropRequest
  PROVE  IInv'
<1>0. CodexOK /\ SessionOK
  BY DEF IInv, TypeOK
<1>1. ASSUME NEW t \in Turns, Ask(t)
      PROVE  IInv'
  <2>1. /\ turn' = t /\ asked' = t /\ turn' \in {turn, turn + 1} /\ events' = events + 1
        /\ events < MaxEvents /\ inbox' = Append(inbox, [kind |-> "request", turn |-> t])
        /\ UNCHANGED <<origin, session, alive, store, cards, sender, callback, started, faults, told>>
    BY <1>1 DEF Ask
  <2>2. turn' >= turn /\ events' \in 0 .. MaxEvents /\ t \in 0 .. MaxTurns
    BY <1>0, <2>1, ApprovalBounds DEF CodexOK, Turns
  <2>3. inbox' \in Seq([kind : {"request", "resolved"}, turn : Turns])
    BY <1>0, <2>1 DEF CodexOK
  <2>4. CodexOK' /\ SessionOK'
    BY <1>0, <2>1, <2>2, <2>3 DEF CodexOK, SessionOK
  <2> QED
    BY <2>1, <2>2, <2>4, QuietStep
<1>2. CASE Resolve
  <2>1. /\ asked' = 0 /\ events' = events + 1
        /\ events < MaxEvents /\ inbox' = Append(inbox, [kind |-> "resolved", turn |-> turn])
        /\ UNCHANGED <<origin, session, alive, turn, store, cards, sender, callback, started, faults, told>>
    BY <1>2 DEF Resolve
  <2>2. turn \in Turns /\ turn' >= turn /\ events' \in 0 .. MaxEvents /\ 0 \in 0 .. MaxTurns
    BY <1>0, <2>1, ApprovalBounds DEF CodexOK, Turns
  <2>3. inbox' \in Seq([kind : {"request", "resolved"}, turn : Turns])
    BY <1>0, <2>1, <2>2 DEF CodexOK
  <2>4. CodexOK' /\ SessionOK'
    BY <1>0, <2>1, <2>2, <2>3 DEF CodexOK, SessionOK
  <2> QED
    BY <2>1, <2>2, <2>4, QuietStep
<1>3. CASE LoseSession
  <2>1. /\ alive' = FALSE /\ asked' = 0 /\ inbox' = <<>>
        /\ UNCHANGED <<origin, session, turn, events, store, cards, sender, callback, started, faults, told>>
    BY <1>3 DEF LoseSession
  <2>2. turn \in Turns /\ turn' >= turn /\ 0 \in 0 .. MaxTurns
    BY <1>0, <2>1, ApprovalBounds DEF CodexOK, Turns
  <2>3. inbox' \in Seq([kind : {"request", "resolved"}, turn : Turns])
    BY <2>1
  <2>4. CodexOK' /\ SessionOK'
    BY <1>0, <2>1, <2>2, <2>3 DEF CodexOK, SessionOK
  <2> QED
    BY <2>1, <2>2, <2>4, QuietStep
<1>4. CASE RegainSession
  <2>1. /\ session < MaxSessions /\ session' = session + 1 /\ alive' = TRUE
        /\ UNCHANGED <<codex, store, cards, sender, callback, started, faults>>
    BY <1>4 DEF RegainSession
  <2>2. turn \in Turns /\ turn' >= turn /\ session' \in 1 .. MaxSessions
    BY <1>0, <2>1, ApprovalBounds DEF CodexOK, SessionOK, Turns, codex
  <2>4. CodexOK' /\ SessionOK'
    BY <1>0, <2>1, <2>2 DEF CodexOK, SessionOK, codex
  <2> QED
    BY <2>1, <2>2, <2>4, QuietStep DEF codex
<1>5. CASE DropRequest
  <2>1. /\ inbox # <<>> /\ inbox' = Tail(inbox) /\ (UNCHANGED faults \/ Fault)
        /\ UNCHANGED <<origin, session, alive, turn, asked, events, store, cards, sender, callback,
                       started, told>>
    BY <1>5 DEF DropRequest, Event
  <2>2. turn \in Turns /\ turn' >= turn /\ faults' \in 0 .. MaxFaults
    <3>1. turn \in Turns /\ turn' >= turn
      BY <1>0, <2>1, ApprovalBounds DEF CodexOK, Turns
    <3>2. faults' \in 0 .. MaxFaults
      BY <1>0, <2>1, ApprovalBounds DEF SessionOK, Fault
    <3> QED
      BY <3>1, <3>2
  <2>3. inbox' \in Seq([kind : {"request", "resolved"}, turn : Turns])
    BY <1>0, <2>1 DEF CodexOK
  <2>4. CodexOK' /\ SessionOK'
    BY <1>0, <2>1, <2>2, <2>3 DEF CodexOK, SessionOK
  <2> QED
    BY <2>1, <2>2, <2>4, QuietStep
<1> QED
  BY <1>1, <1>2, <1>3, <1>4, <1>5 DEF Codex

\* A step of the event loop that changes no card.
LEMMA StoreStep ==
  ASSUME IInv, UNCHANGED <<cards, sender, callback, told>>, CodexOK', SessionOK', StoreOK',
         RequestInv', Grows, RequestCard', EditCards', EditsTrue', RowPairs', RequestTrue',
         \A t \in Turns : rows'[t].status \in {"pending", "retry"} => rows'[t].attempts < MaxAttempts
  PROVE  IInv'
<1>1. TablesOK'
  BY DEF IInv, TypeOK, TablesOK, BotOK
<1>2. CardsFit' /\ ResultsTrue'
  BY CardsKept, ResultsKept DEF CardsFit, ResultsTrue
<1>3. AttemptsFit'
  BY DEF IInv, AttemptsFit
<1> QED
  BY <1>1, <1>2, <1>3, PartsMakeInv

\* Rows that fade do no harm.
LEMMA FadedRows ==
  ASSUME IInv, Grows, Fades(rows')
  PROVE  /\ RowPairs'
         /\ \A t \in Turns : rows'[t].status \in {"pending", "retry"} => rows'[t].attempts < MaxAttempts
<1>1. \A t \in Turns : rows'[t].pair \in {0, rows[t].pair}
  BY DEF Fades
<1>2. \A t \in Turns : rows'[t].status \in {"pending", "retry"} => rows'[t].attempts < MaxAttempts
  BY DEF Fades, IInv, AttemptsFit
<1> QED
  BY <1>1, <1>2, CardsKept

\* The edit of the card that a request leaves behind.
LEMMA QueuedEdit ==
  ASSUME IInv, Grows, NEW text \in Texts, edits' = EnqueueInactiveEdit(text), approval.turn \in Turns,
         SaysTrue(text, approval.turn)
  PROVE  edits' \subseteq Edits /\ EditCards' /\ EditsTrue'
<1>1. approval \in Approvals /\ edits \subseteq Edits
  BY DEF IInv, TypeOK, StoreOK
<1>2. /\ edits' \subseteq Edits
      /\ \A e \in edits' : \/ e \in edits
                           \/ e.turn = approval.turn /\ e.message = approval.message /\ e.text = text
  BY <1>1, EnqueueForms
<1>3. ASSUME NEW e \in edits'
      PROVE  /\ e.turn \in Turns /\ (e.message # 0 => CardShows(e.message, e.turn))
             /\ SaysTrue(e.text, e.turn)
  <2>1. CASE e \in edits
    BY <2>1, TurnsNamed DEF IInv, CardsFit, EditCards, ResultsTrue, EditsTrue
  <2>2. CASE e.turn = approval.turn /\ e.message = approval.message /\ e.text = text
    BY <2>2 DEF IInv, CardsFit, RequestCard
  <2> QED
    BY <1>2, <2>1, <2>2
<1>4. ASSUME NEW e \in edits'
      PROVE  /\ e.turn # 0 /\ (e.message # 0 => CardShows(e.message, e.turn)')
             /\ SaysTrue(e.text, e.turn)'
  <2>1. PICK u, m, x : u = e.turn /\ m = e.message /\ x = e.text
    OBVIOUS
  <2>2. u \in Turns /\ u # 0 /\ (m # 0 => CardShows(m, u)) /\ SaysTrue(x, u)
    BY <1>3, <2>1, ApprovalBounds DEF Turns
  <2>3. (m # 0 => CardShows(m, u)') /\ SaysTrue(x, u)'
    BY <2>2, ShowsStays, TrueStays
  <2> QED
    BY <2>1, <2>2, <2>3 DEF CardShows, PairShows, SaysTrue, Told
<1> QED
  BY <1>2, <1>4 DEF EditCards, EditsTrue

\* A new pair, its row and the rows that were there.
LEMMA NewPairAndRow ==
  ASSUME IInv, UNCHANGED <<cards, told>>, NEW p \in Seq(Pairs), DOMAIN p = DOMAIN pairs,
         Len(p) = Len(pairs), \A k \in DOMAIN pairs : p[k].turn = pairs[k].turn,
         pairs' = Append(p, NewPair(turn)), NEW old \in [Turns -> Rows], Fades(old),
         rows' = [old EXCEPT ![turn] = NewRow(Len(pairs) + 1)]
  PROVE  /\ pairs' \in Seq(Pairs) /\ rows' \in [Turns -> Rows] /\ Grows /\ RowPairs'
         /\ \A t \in Turns : rows'[t].status \in {"pending", "retry"} => rows'[t].attempts < MaxAttempts
<1>0. turn \in Turns /\ SessionOK /\ pairs \in Seq(Pairs) /\ Len(pairs) \in Nat
  BY DEF IInv, TypeOK, CodexOK, StoreOK
<1> DEFINE n == Len(pairs) + 1
<1>1. /\ n \in Nat /\ n # 0 /\ NewPair(turn) \in Pairs /\ NewPair(turn).turn = turn
      /\ NewRow(n) \in Rows /\ NewRow(n).pair = n /\ NewRow(n).attempts = 0
  BY <1>0, NewForms
<1>2. /\ pairs' \in Seq(Pairs) /\ DOMAIN pairs' = DOMAIN pairs \cup {n}
      /\ \A k \in DOMAIN pairs : pairs'[k] = p[k]
      /\ pairs'[n] = NewPair(turn)
  BY <1>1, AppendForms
<1>3. rows' = [old EXCEPT ![turn] = NewRow(n)]
  OBVIOUS
<1> HIDE DEF n
<1>4. Grows
  BY <1>2 DEF Grows, Told
<1>5. rows' \in [Turns -> Rows] /\ \A t \in Turns : rows'[t] = IF t = turn THEN NewRow(n) ELSE old[t]
  BY <1>0, <1>1, <1>3
<1>6. 0 < MaxAttempts
  BY ApprovalBounds
<1>7. \A t \in Turns : rows'[t].status \in {"pending", "retry"} => rows'[t].attempts < MaxAttempts
  BY <1>1, <1>5, <1>6 DEF Fades, IInv, AttemptsFit
<1>8. ASSUME NEW t \in Turns, rows'[t].pair # 0
      PROVE  PairShows(rows[t].pair, t)'
  <2>1. CASE t = turn
    BY <1>1, <1>2, <1>5, <2>1 DEF PairShows
  <2>2. CASE t # turn
    <3>1. rows'[t].pair = rows[t].pair
      BY <1>5, <1>8, <2>2 DEF Fades
    <3>2. PairShows(rows[t].pair, t)
      BY <1>8, <3>1 DEF IInv, CardsFit, RowPairs
    <3> QED
      BY <1>4, <3>1, <3>2 DEF Grows, PairShows
  <2> QED
    BY <2>1, <2>2
<1>9. RowPairs'
  BY <1>8 DEF RowPairs
<1> QED
  BY <1>2, <1>4, <1>5, <1>7, <1>9

\* The event of a request is taken from the inbox, and the transaction changes the store.
LEMMA HandleRequestStep ==
  ASSUME IInv, HandleRequest
  PROVE  IInv'
<1>0. /\ CodexOK /\ SessionOK /\ StoreOK /\ turn \in Turns
  BY DEF IInv, TypeOK, CodexOK
<1>1. /\ inbox # <<>> /\ inbox' = Tail(inbox) /\ CreateMinimalApproval(turn)
      /\ UNCHANGED <<origin, session, alive, turn, asked, events, cards, sender, callback, started,
                     faults, told>>
  BY DEF HandleRequest, Event
<1>2. CodexOK' /\ SessionOK'
  <2>1. inbox' \in Seq([kind : {"request", "resolved"}, turn : Turns])
    BY <1>0, <1>1 DEF CodexOK
  <2> QED
    BY <1>0, <1>1, <2>1 DEF CodexOK, SessionOK
<1>3. rows \in [Turns -> Rows] /\ Fades(rows) /\ Len(pairs) \in Nat
  BY <1>0 DEF StoreOK, Fades
<1>4. /\ KillCurrentRow \in [Turns -> Rows] /\ Fades(KillCurrentRow)
      /\ KillRow(turn) \in [Turns -> Rows] /\ Fades(KillRow(turn))
  BY <1>0, KillForms DEF StoreOK
<1>5. PICK p : p = SetPairs({"active", "claimed"}, "expired")
  OBVIOUS
<1>6. /\ p \in Seq(Pairs) /\ DOMAIN p = DOMAIN pairs /\ Len(p) = Len(pairs)
      /\ \A k \in DOMAIN pairs : p[k].turn = pairs[k].turn /\ p[k].status \notin {"active", "claimed"}
  BY <1>0, <1>5, SetPairsForms DEF PairStates, StoreOK
<1>7. ~Pending => \A k \in DOMAIN pairs : pairs[k].status \notin {"active", "claimed"}
  BY DEF IInv, ButtonsFit, Usable, InState
<1>8. /\ NewApproval(turn) \in Approvals /\ NewApproval(turn).message = 0
      /\ NewApproval(turn).status = "pending"
  BY <1>0, NewForms
<1>9. ASSUME approval.turn # turn, approval' = NewApproval(turn),
             NEW q \in {p, pairs}, Pending => q = p, pairs' = Append(q, NewPair(turn)),
             NEW old \in [Turns -> Rows], Fades(old),
             rows' = [old EXCEPT ![turn] = NewRow(Len(pairs) + 1)],
             \/ UNCHANGED edits
             \/ approval.turn \in Turns /\ edits' = EnqueueInactiveEdit("inactive")
      PROVE  IInv'
  <2>1. /\ q \in Seq(Pairs) /\ DOMAIN q = DOMAIN pairs /\ Len(q) = Len(pairs)
        /\ \A k \in DOMAIN pairs : q[k].turn = pairs[k].turn /\ q[k].status \notin {"active", "claimed"}
    <3>1. CASE q = p
      BY <1>6, <3>1
    <3>2. CASE q = pairs /\ ~Pending
      BY <1>0, <1>7, <3>2 DEF StoreOK
    <3> QED
      BY <1>9, <3>1, <3>2
  <2>2. RequestInv'
    BY <1>1, <1>9, <2>1, NewRequest
  <2>3. /\ pairs' \in Seq(Pairs) /\ rows' \in [Turns -> Rows] /\ Grows /\ RowPairs'
        /\ \A t \in Turns : rows'[t].status \in {"pending", "retry"} => rows'[t].attempts < MaxAttempts
    BY <1>1, <1>9, <2>1, NewPairAndRow
  <2>4. edits' \subseteq Edits /\ EditCards' /\ EditsTrue'
    <3>1. "inactive" \in Texts /\ SaysTrue("inactive", approval.turn)
      BY DEF Texts, SaysTrue
    <3>2. CASE UNCHANGED edits
      BY <1>0, <2>3, <3>2, CardsKept, ResultsKept DEF StoreOK
    <3>3. CASE approval.turn \in Turns /\ edits' = EnqueueInactiveEdit("inactive")
      BY <2>3, <3>1, <3>3, QueuedEdit
    <3> QED
      BY <1>9, <3>2, <3>3
  <2>5. StoreOK'
    BY <1>8, <1>9, <2>3, <2>4 DEF StoreOK
  <2>6. RequestCard' /\ RequestTrue'
    BY <1>8, <1>9 DEF RequestCard, RequestTrue, SaysTrue
  <2> QED
    BY <1>1, <1>2, <2>2, <2>3, <2>4, <2>5, <2>6, StoreStep
<1>10. CASE InsertApproval(turn)
  <2>1. /\ approval.status = "absent" /\ approval' = NewApproval(turn)
        /\ pairs' = Append(pairs, NewPair(turn))
        /\ rows' = [rows EXCEPT ![turn] = NewRow(Len(pairs) + 1)] /\ UNCHANGED edits
    BY <1>10 DEF InsertApproval
  <2>2. approval.turn # turn /\ ~Pending
    BY <1>0, <2>1, ApprovalBounds DEF IInv, TurnsFit, Turns, Pending
  <2> QED
    BY <1>3, <1>9, <2>1, <2>2
<1>11. CASE ReplaceApproval(turn)
  <2>1. /\ approval.status # "absent" /\ approval.turn # turn /\ approval' = NewApproval(turn)
        /\ pairs' = Append(IF Pending THEN p ELSE pairs, NewPair(turn))
        /\ rows' = [KillCurrentRow EXCEPT ![turn] = NewRow(Len(pairs) + 1)]
        /\ edits' \in {edits, EnqueueInactiveEdit("inactive")}
    BY <1>5, <1>11 DEF ReplaceApproval
  <2>2. approval.turn \in Turns
    BY <2>1, RequestTurn, ApprovalBounds DEF IInv, TurnsFit, Turns
  <2>3. CASE Pending
    BY <1>4, <1>9, <2>1, <2>2, <2>3
  <2>4. CASE ~Pending
    BY <1>4, <1>9, <2>1, <2>2, <2>4
  <2> QED
    BY <2>3, <2>4
<1>12. CASE ReplaySettled(turn)
  <2>1. rows' = KillRow(turn) /\ UNCHANGED <<approval, pairs, edits>>
    BY <1>12 DEF ReplaySettled
  <2>2. Grows
    BY <1>1, <2>1, NothingGrows
  <2>3. /\ RequestCard' /\ EditCards' /\ EditsTrue' /\ RequestTrue'
        /\ RowPairs'
        /\ \A t \in Turns : rows'[t].status \in {"pending", "retry"} => rows'[t].attempts < MaxAttempts
    BY <1>4, <2>1, <2>2, CardsKept, ResultsKept, FadedRows
  <2>4. RequestInv'
    BY <1>0, <1>1, <2>1, SameRequest DEF Turns
  <2>5. StoreOK'
    BY <1>0, <1>4, <2>1 DEF StoreOK
  <2> QED
    BY <1>1, <1>2, <2>2, <2>3, <2>4, <2>5, StoreStep
<1>13. CASE ReplayPending(turn)
  <2>1. /\ approval.turn = turn /\ Pending /\ approval' = [approval EXCEPT !.session = session]
        /\ UNCHANGED edits
        /\ \/ UNCHANGED <<pairs, rows>>
           \/ /\ pairs' = Append(p, NewPair(turn))
              /\ rows' = [rows EXCEPT ![turn] = NewRow(Len(pairs) + 1)]
    BY <1>5, <1>13 DEF ReplayPending
  <2>2. /\ approval' \in Approvals /\ approval'.turn = approval.turn
        /\ approval'.status = approval.status /\ approval'.message = approval.message
    <3>1. session \in 0 .. MaxSessions
      BY <1>0, ApprovalBounds DEF SessionOK
    <3> QED
      BY <1>0, <2>1, <3>1 DEF StoreOK, Approvals
  <2>3. RequestInv'
    BY <1>1, <1>5, <2>1, SamePending
  <2>4. /\ pairs' \in Seq(Pairs) /\ rows' \in [Turns -> Rows] /\ Grows /\ RowPairs'
        /\ \A t \in Turns : rows'[t].status \in {"pending", "retry"} => rows'[t].attempts < MaxAttempts
    <3>1. CASE UNCHANGED <<pairs, rows>>
      <4>1. Grows
        BY <1>1, <3>1, NothingGrows
      <4>2. Fades(rows')
        BY <1>3, <3>1
      <4> QED
        BY <1>0, <3>1, <4>1, <4>2, FadedRows DEF StoreOK
    <3>2. CASE /\ pairs' = Append(p, NewPair(turn))
               /\ rows' = [rows EXCEPT ![turn] = NewRow(Len(pairs) + 1)]
      BY <1>1, <1>3, <1>6, <3>2, NewPairAndRow
    <3> QED
      BY <2>1, <3>1, <3>2
  <2>5. RequestCard' /\ EditCards' /\ EditsTrue' /\ RequestTrue'
    BY <2>1, <2>2, <2>4, CardsKept, ResultsKept
  <2>6. StoreOK'
    BY <1>0, <2>1, <2>2, <2>4 DEF StoreOK
  <2> QED
    BY <1>1, <1>2, <2>3, <2>4, <2>5, <2>6, StoreStep
<1> QED
  BY <1>1, <1>10, <1>11, <1>12, <1>13 DEF CreateMinimalApproval

\* A request that expires, with or without a claim, leaves nothing to press.
LEMMA ExpiredStore ==
  ASSUME IInv, Pending, UNCHANGED <<turn, told, callback>>,
         NEW from, from = {"active", "claimed"} \/ (from = {"active"} /\ Idle),
         approval' = [approval EXCEPT !.status = "expired", !.claim = "idle"],
         pairs' = SetPairs(from, "expired")
  PROVE  /\ RequestInv' /\ approval' \in Approvals /\ pairs' \in Seq(Pairs)
         /\ approval'.message = approval.message /\ approval'.turn = approval.turn
         /\ approval'.status = "expired"
         /\ \A k \in DOMAIN pairs : k \in DOMAIN pairs' /\ pairs'[k].turn = pairs[k].turn
<1>1. /\ approval' \in Approvals /\ approval'.message = approval.message
      /\ approval'.turn = approval.turn /\ approval'.status = "expired" /\ approval'.claim = "idle"
  BY DEF IInv, TypeOK, StoreOK, Approvals, ApprovalStates
<1>2. pairs' \in Seq(Pairs)
  BY SetPairsForms DEF IInv, TypeOK, StoreOK, PairStates
<1>3. /\ DOMAIN pairs' = DOMAIN pairs
      /\ \A k \in DOMAIN pairs :
           pairs'[k].turn = pairs[k].turn /\ pairs'[k].status \notin {"active", "claimed"}
  BY PairsSpent
<1>4. RequestInv'
  BY <1>1, <1>3, SettledRequest DEF ApprovalStates
<1> QED
  BY <1>1, <1>2, <1>3, <1>4

\* The release of a worker.
LEMMA ExpireForSessionStep ==
  ASSUME IInv, ExpireForSession
  PROVE  IInv'
<1>0. CodexOK /\ SessionOK /\ StoreOK
  BY DEF IInv, TypeOK
<1>1. /\ Pending /\ approval' = [approval EXCEPT !.status = "expired", !.claim = "idle"]
      /\ pairs' = SetPairs({"active", "claimed"}, "expired") /\ rows' = KillCurrentRow
      /\ UNCHANGED <<session, alive, codex, edits, cards, sender, callback, started, faults>>
  BY DEF ExpireForSession
<1>2. /\ RequestInv' /\ approval' \in Approvals /\ pairs' \in Seq(Pairs)
      /\ approval'.message = approval.message /\ approval'.turn = approval.turn
      /\ approval'.status = "expired"
      /\ \A k \in DOMAIN pairs : k \in DOMAIN pairs' /\ pairs'[k].turn = pairs[k].turn
  BY <1>1, ExpiredStore DEF codex
<1>3. Grows
  BY <1>1, <1>2 DEF Grows, Told, codex
<1>4. KillCurrentRow \in [Turns -> Rows] /\ Fades(rows')
  BY <1>0, <1>1, KillForms DEF StoreOK
<1>5. StoreOK' /\ CodexOK' /\ SessionOK'
  BY <1>0, <1>1, <1>2, <1>4 DEF StoreOK, CodexOK, SessionOK, codex
<1>6. RequestCard' /\ EditCards' /\ EditsTrue' /\ RequestTrue'
  BY <1>1, <1>2, <1>3, CardsKept, ResultsKept
<1>7. /\ RowPairs'
      /\ \A t \in Turns : rows'[t].status \in {"pending", "retry"} => rows'[t].attempts < MaxAttempts
  BY <1>3, <1>4, FadedRows
<1> QED
  BY <1>1, <1>2, <1>3, <1>5, <1>6, <1>7, StoreStep DEF codex

\* A request that nobody has claimed expires.
LEMMA ExpiresIdle ==
  ASSUME IInv, Expirable, UNCHANGED <<turn, told, callback>>,
         approval' = [approval EXCEPT !.status = "expired"], pairs' = SetPairs({"active"}, "expired")
  PROVE  /\ RequestInv' /\ approval' \in Approvals /\ pairs' \in Seq(Pairs)
         /\ approval'.message = approval.message /\ approval'.turn = approval.turn
         /\ approval'.status = "expired"
         /\ \A k \in DOMAIN pairs : k \in DOMAIN pairs' /\ pairs'[k].turn = pairs[k].turn
<1>1. approval' = [approval EXCEPT !.status = "expired", !.claim = "idle"]
  BY DEF IInv, TypeOK, StoreOK, Approvals, Expirable, Idle
<1> QED
  BY <1>1, ExpiredStore DEF Expirable

\* serverRequest/resolved.
LEMMA HandleResolvedStep ==
  ASSUME IInv, HandleResolved
  PROVE  IInv'
<1>0. CodexOK /\ SessionOK /\ StoreOK /\ BotOK /\ turn \in Turns /\ approval.message \in 0 .. Len(cards)
  BY DEF IInv, TypeOK, CodexOK
<1>1. /\ inbox # <<>> /\ inbox' = Tail(inbox)
      /\ UNCHANGED <<origin, session, alive, turn, asked, events, edits, sender, callback, started, told>>
  BY DEF HandleResolved, Event
<1>2. CodexOK'
  <2>1. inbox' \in Seq([kind : {"request", "resolved"}, turn : Turns])
    BY <1>0, <1>1 DEF CodexOK
  <2> QED
    BY <1>0, <1>1, <2>1 DEF CodexOK
<1>3. CASE UNCHANGED <<approval, pairs, rows, cards, faults>>
  <2>1. SessionOK' /\ turn' \in Turns /\ turn' >= turn
    BY <1>0, <1>1, <1>3 DEF SessionOK, Turns
  <2> QED
    BY <1>1, <1>2, <1>3, <2>1, QuietStep DEF store
<1>4. CASE Expirable /\ Expire /\ EditCard(approval.message, "inactive")
  <2>1. /\ approval' = [approval EXCEPT !.status = "expired"]
        /\ pairs' = SetPairs({"active"}, "expired") /\ rows' = KillCurrentRow
    BY <1>4 DEF Expire
  <2>2. /\ RequestInv' /\ approval' \in Approvals /\ pairs' \in Seq(Pairs)
        /\ approval'.message = approval.message /\ approval'.turn = approval.turn
        /\ approval'.status = "expired"
        /\ \A k \in DOMAIN pairs : k \in DOMAIN pairs' /\ pairs'[k].turn = pairs[k].turn
    BY <1>1, <1>4, <2>1, ExpiresIdle
  <2>3. PICK m \in 0 .. Len(cards) : m = approval.message
    BY <1>0
  <2>4. /\ Grows /\ CardsExist' /\ CardsTrue' /\ cards' \in Seq(Cards) /\ faults' \in 0 .. MaxFaults
    <3>1. "inactive" \in Texts /\ (m # 0 => SaysUpTo("inactive", pairs[cards[m].pair].turn))
      BY <2>3, InactiveSays
    <3> QED
      BY <1>1, <1>4, <2>2, <2>3, <3>1, EditedCards
  <2>5. KillCurrentRow \in [Turns -> Rows] /\ Fades(rows')
    BY <1>0, <2>1, KillForms DEF StoreOK
  <2>6. TablesOK'
    BY <1>0, <1>1, <1>2, <2>1, <2>2, <2>4, <2>5 DEF TablesOK, StoreOK, SessionOK, BotOK
  <2>7. RequestCard' /\ EditCards' /\ SenderCard' /\ CallbackCard'
    BY <1>1, <2>2, <2>4, CardsKept
  <2>8. RequestTrue' /\ EditsTrue' /\ AnswerTrue'
    BY <1>1, <2>2, <2>4, ResultsKept
  <2>9. RowPairs' /\ AttemptsFit'
    BY <1>1, <2>4, <2>5, FadedRows DEF IInv, AttemptsFit
  <2> QED
    BY <2>2, <2>4, <2>6, <2>7, <2>8, <2>9, PartsMakeInv DEF CardsFit, ResultsTrue
<1> QED
  BY <1>3, <1>4 DEF HandleResolved

-----------------------------------------------------------------------------
(***************************************************************************)
(* The delivery loop.                                                      *)
(***************************************************************************)

\* A step of the delivery loop that leaves the request and the queue of edits alone.
LEMMA SenderStep ==
  ASSUME IInv, UNCHANGED <<session, alive, codex, approval, pairs, edits, callback, started>>,
         faults' \in 0 .. MaxFaults, rows' \in [Turns -> Rows], cards' \in Seq(Cards),
         sender' \in Sends, Grows, CardsExist', RowPairs', SenderCard', AttemptsFit', CardsTrue'
  PROVE  IInv'
<1>1. TablesOK'
  BY DEF IInv, TypeOK, TablesOK, CodexOK, SessionOK, StoreOK, BotOK, codex
<1>2. UNCHANGED <<turn, told>> /\ turn \in Turns
  BY DEF codex, IInv, TypeOK, CodexOK
<1>3. RequestInv'
  BY <1>2, SameRequest DEF Turns
<1>4. RequestCard' /\ EditCards' /\ CallbackCard'
  BY CardsKept
<1>5. RequestTrue' /\ EditsTrue' /\ AnswerTrue'
  BY ResultsKept
<1> QED
  BY <1>1, <1>3, <1>4, <1>5, PartsMakeInv DEF CardsFit, ResultsTrue

\* The cards of such a step that sends nothing and edits nothing.
LEMMA SameCards ==
  ASSUME IInv, UNCHANGED <<pairs, cards, told>>
  PROVE  Grows /\ CardsExist' /\ CardsTrue' /\ cards' \in Seq(Cards)
<1>1. Grows /\ cards \in Seq(Cards)
  BY NothingGrows DEF IInv, TypeOK, BotOK
<1> QED
  BY <1>1, CardsKept, ResultsKept

\* ClaimDeliveryBatch.
LEMMA ClaimRowStep ==
  ASSUME IInv, NEW t \in Turns, ClaimRow(t)
  PROVE  IInv'
<1>0. rows \in [Turns -> Rows] /\ rows[t] \in Rows /\ faults \in 0 .. MaxFaults
  BY DEF IInv, TypeOK, StoreOK, SessionOK
<1>1. /\ rows[t].status \in {"pending", "retry"} /\ rows[t].pair # 0
      /\ rows' = [rows EXCEPT ![t].status = "processing"]
      /\ sender' = [NoSend EXCEPT !.pc = "claimed", !.turn = t, !.pair = rows[t].pair,
                                  !.attempts = rows[t].attempts]
      /\ UNCHANGED <<session, alive, codex, approval, pairs, edits, cards, callback, started, faults>>
  BY DEF ClaimRow
<1>2. rows[t].pair \in Nat /\ rows[t].attempts \in 0 .. MaxAttempts /\ t \in 0 .. MaxTurns
  BY <1>0, RowFields, ApprovalBounds DEF Turns
<1>3. /\ sender' \in Sends /\ sender'.turn = t /\ sender'.pair = rows[t].pair
      /\ sender'.attempts = rows[t].attempts /\ sender'.message = 0
  BY <1>1, <1>2 DEF NoSend, Sends, Errors
<1>4. /\ rows' \in [Turns -> Rows]
      /\ \A u \in Turns : /\ rows'[u].pair = rows[u].pair /\ rows'[u].attempts = rows[u].attempts
                          /\ rows'[u].status \in {rows[u].status, "processing"}
  <2>1. [rows[t] EXCEPT !.status = "processing"] \in Rows
    BY <1>0 DEF Rows, Waiting
  <2>2. rows' = [rows EXCEPT ![t] = [rows[t] EXCEPT !.status = "processing"]]
    BY <1>1
  <2>3. /\ rows' \in [Turns -> Rows]
        /\ \A u \in Turns : rows'[u] = IF u = t THEN [rows[t] EXCEPT !.status = "processing"] ELSE rows[u]
    BY <1>0, <2>1, <2>2
  <2> QED
    BY <1>0, <2>3 DEF Rows
<1>5. AttemptsFit'
  BY <1>1, <1>3, <1>4 DEF IInv, AttemptsFit
<1>6. Grows /\ CardsExist' /\ CardsTrue' /\ cards' \in Seq(Cards)
  BY <1>1, SameCards DEF codex
<1>7. RowPairs'
  BY <1>4, <1>6, CardsKept
<1>8. SenderCard'
  BY <1>1, <1>3 DEF IInv, CardsFit, RowPairs, SenderCard, PairShows
<1> QED
  BY <1>0, <1>1, <1>3, <1>4, <1>5, <1>6, <1>7, <1>8, SenderStep

\* The steps of a delivery that do not touch the queue.
LEMMA SendSteps ==
  ASSUME IInv, BeginSend \/ Send \/ CompletionRefused
  PROVE  IInv'
<1>0. /\ rows \in [Turns -> Rows] /\ faults \in 0 .. MaxFaults /\ cards \in Seq(Cards) /\ sender \in Sends
      /\ Len(cards) \in Nat
  BY DEF IInv, TypeOK, StoreOK, SessionOK, BotOK
<1>1. UNCHANGED <<session, alive, codex, approval, pairs, edits, callback, started, rows>>
  BY DEF BeginSend, Send, CompletionRefused, store
<1>2. UNCHANGED <<pairs, told>> /\ faults' \in 0 .. MaxFaults
  <2>1. UNCHANGED faults \/ (faults < MaxFaults /\ faults' = faults + 1)
    BY DEF BeginSend, Send, CompletionRefused, Fault
  <2>2. faults' \in 0 .. MaxFaults
    BY <1>0, <2>1, ApprovalBounds
  <2> QED
    BY <1>1, <2>2 DEF codex
<1>3. sender.attempts < MaxAttempts /\ SenderCard
  BY DEF IInv, AttemptsFit, CardsFit
<1>4. ASSUME UNCHANGED cards, NEW pc \in {"sending", "failed", "cleanup"}, NEW error \in Errors,
             \/ sender' = NoSend
             \/ sender.pc # "idle" /\ sender' = [sender EXCEPT !.pc = pc]
             \/ sender.pc # "idle" /\ sender' = [sender EXCEPT !.pc = pc, !.error = error]
      PROVE  IInv'
  <2>1. Grows /\ CardsExist' /\ CardsTrue' /\ cards' \in Seq(Cards)
    BY <1>2, <1>4, SameCards
  <2>2. /\ sender' \in Sends /\ sender'.attempts < MaxAttempts
        /\ \/ sender' = NoSend
           \/ /\ sender.pc # "idle" /\ sender'.pair = sender.pair /\ sender'.turn = sender.turn
              /\ sender'.message = sender.message
    <3>1. CASE sender' = NoSend
      <4>1. 0 < MaxAttempts
        BY ApprovalBounds
      <4> QED
        BY <3>1, <4>1, NoForms
    <3>2. CASE sender.pc # "idle" /\ sender' = [sender EXCEPT !.pc = pc]
      BY <1>0, <1>3, <3>2 DEF Sends
    <3>3. CASE sender.pc # "idle" /\ sender' = [sender EXCEPT !.pc = pc, !.error = error]
      BY <1>0, <1>3, <3>3 DEF Sends
    <3> QED
      BY <1>4, <3>1, <3>2, <3>3
  <2>3. SenderCard'
    BY <1>2, <1>3, <1>4, <2>2, NoForms DEF SenderCard, CardShows, PairShows
  <2>4. RowPairs'
    BY <1>1, <2>1, CardsKept
  <2>5. AttemptsFit'
    BY <1>1, <2>2 DEF IInv, AttemptsFit
  <2> QED
    BY <1>0, <1>1, <1>2, <2>1, <2>2, <2>3, <2>4, <2>5, SenderStep
<1>5. ASSUME sender.pc # "idle", NEW pc \in {"accepted", "failed"}, NEW error \in Errors, Delivered(pc, error)
      PROVE  IInv'
  <2>1. PICK c : c = [pair |-> sender.pair, text |-> "buttons"]
    OBVIOUS
  <2>2. c \in Cards /\ c.pair = sender.pair /\ c.text = "buttons"
    BY <1>0, <2>1, SendFields DEF Cards, Texts
  <2> DEFINE n == Len(cards) + 1
  <2>3. cards' = Append(cards, c) /\ sender' = [sender EXCEPT !.pc = pc, !.error = error, !.message = n]
    BY <1>5, <2>1 DEF Delivered
  <2>4. /\ cards' \in Seq(Cards) /\ DOMAIN cards' = DOMAIN cards \cup {n}
        /\ \A i \in DOMAIN cards : cards'[i] = cards[i]
        /\ cards'[n] = c /\ n \in Nat
    BY <1>0, <2>2, <2>3, AppendForms
  <2> HIDE DEF n
  <2>5. /\ sender' \in Sends /\ sender'.attempts = sender.attempts /\ sender'.pair = sender.pair
        /\ sender'.turn = sender.turn /\ sender'.message = n
    BY <1>0, <2>3, <2>4 DEF Sends
  <2>6. PairShows(sender.pair, sender.turn)
    BY <1>3, <1>5 DEF SenderCard
  <2>7. Grows
    BY <1>2, <2>4 DEF Grows, Told
  <2>8. CardsExist'
    BY <1>2, <2>2, <2>4, <2>6 DEF CardsExist, PairShows, IInv, CardsFit
  <2>9. CardsTrue'
    <3>1. \A i \in DOMAIN cards : SaysUpTo(cards[i].text, pairs[cards[i].pair].turn)
      BY DEF IInv, ResultsTrue, CardsTrue
    <3>2. pairs[sender.pair].turn \in Turns /\ SaysTrue("buttons", pairs[sender.pair].turn)
      BY <2>6, RequestTurn DEF PairShows, SaysTrue
    <3>3. SaysUpTo("buttons", pairs[sender.pair].turn)
      BY <3>2, UpToStays
    <3> QED
      BY <1>2, <2>2, <2>4, <3>1, <3>3 DEF CardsTrue, SaysUpTo, SaysTrue, Told
  <2>10. SenderCard'
    BY <1>2, <2>2, <2>4, <2>5, <2>6 DEF SenderCard, CardShows, PairShows
  <2>11. RowPairs'
    BY <1>1, <2>7, CardsKept
  <2>12. AttemptsFit'
    BY <1>1, <1>3, <2>5 DEF IInv, AttemptsFit
  <2> QED
    BY <1>0, <1>1, <1>2, <2>4, <2>5, <2>7, <2>8, <2>9, <2>10, <2>11, <2>12, SenderStep
<1>6. "" \in Errors /\ "unsent" \in Errors /\ "unknown" \in Errors
  BY DEF Errors
<1>7. CASE BeginSend
  BY <1>4, <1>6, <1>7 DEF BeginSend
<1>8. CASE CompletionRefused
  BY <1>4, <1>6, <1>8 DEF CompletionRefused
<1>9. CASE Send
  BY <1>4, <1>5, <1>6, <1>9 DEF Send
<1> QED
  BY <1>7, <1>8, <1>9

\* A row after a delivery that failed.
LEMMA RowAfterFailure ==
  ASSUME IInv, sender.pc # "idle", Grows, NEW old \in [Turns -> Rows], Fades(old),
         NEW error \in Errors, NEW dead \in BOOLEAN, sender.attempts + 1 >= MaxAttempts => dead,
         rows' = [old EXCEPT ![sender.turn] = FailedRow(old[sender.turn], error, dead)]
  PROVE  /\ rows' \in [Turns -> Rows] /\ RowPairs'
         /\ \A t \in Turns : rows'[t].status \in {"pending", "retry"} => rows'[t].attempts < MaxAttempts
<1>1. sender.turn \in Turns /\ sender \in Sends /\ sender.attempts < MaxAttempts
  BY RequestTurn DEF IInv, CardsFit, SenderCard, PairShows, AttemptsFit, TypeOK, BotOK
<1> DEFINE f == FailedRow(old[sender.turn], error, dead)
<1>2. /\ f \in Rows /\ f.pair \in {0, old[sender.turn].pair}
      /\ f.status \in {"dead", "retry"} /\ (f.status = "retry" => f.attempts < MaxAttempts)
  BY <1>1, FailedRowForms
<1>3. rows' = [old EXCEPT ![sender.turn] = f]
  OBVIOUS
<1> HIDE DEF f
<1>4. rows' \in [Turns -> Rows] /\ \A t \in Turns : rows'[t] = IF t = sender.turn THEN f ELSE old[t]
  BY <1>1, <1>2, <1>3
<1>5. \A t \in Turns : rows'[t].pair \in {0, rows[t].pair}
  BY <1>2, <1>4 DEF Fades
<1>6. \A t \in Turns : rows'[t].status \in {"pending", "retry"} => rows'[t].attempts < MaxAttempts
  BY <1>2, <1>4 DEF Fades, IInv, AttemptsFit
<1> QED
  BY <1>4, <1>5, <1>6, CardsKept

\* FailDelivery.
LEMMA FailDeliveryStep ==
  ASSUME IInv, FailDelivery
  PROVE  IInv'
<1>0. /\ rows \in [Turns -> Rows] /\ Fades(rows) /\ faults \in 0 .. MaxFaults /\ sender \in Sends
  BY DEF IInv, TypeOK, StoreOK, SessionOK, BotOK, Fades
<1> DEFINE dead == sender.attempts + 1 >= MaxAttempts
<1>1. /\ sender.pc = "failed" /\ sender' = NoSend
      /\ rows' = [rows EXCEPT ![sender.turn] = FailedRow(rows[sender.turn], sender.error, dead)]
      /\ UNCHANGED <<session, alive, codex, approval, pairs, edits, cards, callback, started, faults>>
  BY DEF FailDelivery
<1>2. sender.error \in Errors /\ dead \in BOOLEAN
  BY <1>0, SendFields
<1>3. Grows /\ CardsExist' /\ CardsTrue' /\ cards' \in Seq(Cards)
  BY <1>1, SameCards DEF codex
<1>4. /\ rows' \in [Turns -> Rows] /\ RowPairs'
      /\ \A t \in Turns : rows'[t].status \in {"pending", "retry"} => rows'[t].attempts < MaxAttempts
  BY <1>0, <1>1, <1>2, <1>3, RowAfterFailure
<1>5. sender' \in Sends /\ sender'.attempts < MaxAttempts /\ SenderCard'
  <2>1. 0 < MaxAttempts
    BY ApprovalBounds
  <2> QED
    BY <1>1, <1>3, <2>1, NoForms, CardsKept
<1>6. AttemptsFit'
  BY <1>4, <1>5 DEF AttemptsFit
<1> QED
  BY <1>0, <1>1, <1>3, <1>4, <1>5, <1>6, SenderStep

\* CompleteMinimalApprovalDelivery.
LEMMA CompleteDeliveryStep ==
  ASSUME IInv, CompleteDelivery
  PROVE  IInv'
<1>0. /\ CodexOK /\ SessionOK /\ StoreOK /\ BotOK
  BY DEF IInv, TypeOK
<1>1. /\ sender.pc = "accepted" /\ approval.turn = sender.turn /\ sender' = NoSend
      /\ approval' = [approval EXCEPT !.message = sender.message]
      /\ pairs' = [k \in DOMAIN pairs |->
                    IF pairs[k].status = "active" THEN [pairs[k] EXCEPT !.message = sender.message]
                    ELSE pairs[k]]
      /\ rows' = [rows EXCEPT ![sender.turn].status = "delivered", ![sender.turn].pair = 0]
      /\ UNCHANGED <<session, alive, codex, edits, cards, callback, started, faults>>
  BY DEF CompleteDelivery, Completable
<1>2. sender.message \in Nat /\ sender.turn \in Turns
  BY <1>0, <1>1, SendFields, RequestTurn DEF BotOK, IInv, CardsFit, SenderCard, PairShows
<1>3. /\ approval' \in Approvals /\ approval'.turn = approval.turn /\ approval'.claim = approval.claim
      /\ approval'.status = approval.status /\ approval'.message = sender.message
  BY <1>0, <1>1, <1>2 DEF StoreOK, Approvals
<1>4. /\ pairs' \in Seq(Pairs) /\ DOMAIN pairs' = DOMAIN pairs
      /\ \A k \in DOMAIN pairs : pairs'[k].turn = pairs[k].turn /\ pairs'[k].status = pairs[k].status
  <2>1. /\ DOMAIN pairs = 1 .. Len(pairs) /\ Len(pairs) \in Nat
        /\ \A k \in DOMAIN pairs : pairs[k] \in Pairs
    BY <1>0 DEF StoreOK
  <2>2. \A k \in DOMAIN pairs :
          pairs'[k] = IF pairs[k].status = "active" THEN [pairs[k] EXCEPT !.message = sender.message]
                      ELSE pairs[k]
    BY <1>1
  <2>3. \A k \in DOMAIN pairs :
          pairs'[k] \in Pairs /\ pairs'[k].turn = pairs[k].turn /\ pairs'[k].status = pairs[k].status
    BY <1>2, <2>1, <2>2 DEF Pairs
  <2>4. pairs' = [k \in 1 .. Len(pairs) |-> pairs'[k]]
    BY <1>1, <2>1
  <2> QED
    BY <2>1, <2>3, <2>4
<1>5. RequestInv'
  BY <1>1, <1>3, <1>4, SameClaim DEF codex
<1>6. Grows
  BY <1>1, <1>4 DEF Grows, Told, codex
<1>7. /\ rows' \in [Turns -> Rows]
      /\ \A u \in Turns : rows'[u] = rows[u] \/ (rows'[u].pair = 0 /\ rows'[u].status = "delivered")
  <2> DEFINE r == [rows[sender.turn] EXCEPT !.status = "delivered", !.pair = 0]
  <2>1. r \in Rows /\ r.pair = 0 /\ r.status = "delivered"
    BY <1>0, <1>2 DEF StoreOK, Rows
  <2>2. rows' = [rows EXCEPT ![sender.turn] = r]
    BY <1>1
  <2> HIDE DEF r
  <2> QED
    BY <1>0, <1>2, <2>1, <2>2 DEF StoreOK
<1>8. TablesOK'
  BY <1>0, <1>1, <1>3, <1>4, <1>7, NoForms DEF TablesOK, CodexOK, SessionOK, StoreOK, BotOK, codex
<1>9. RequestCard'
  <2>1. PICK m, t : m = sender.message /\ t = approval.turn
    OBVIOUS
  <2>2. m # 0 => CardShows(m, t)
    BY <1>1, <2>1 DEF IInv, CardsFit, SenderCard
  <2>3. m # 0 => CardShows(m, t)'
    BY <1>6, <2>2, ShowsStays
  <2> QED
    BY <1>3, <2>1, <2>3 DEF RequestCard, CardShows, PairShows
<1>10. CardsExist' /\ EditCards' /\ RowPairs' /\ SenderCard' /\ CallbackCard'
  BY <1>1, <1>6, <1>7, CardsKept
<1>11. RequestTrue' /\ EditsTrue' /\ AnswerTrue' /\ CardsTrue'
  BY <1>1, <1>3, <1>6, ResultsKept
<1>12. AttemptsFit'
  <2>1. 0 < MaxAttempts
    BY ApprovalBounds
  <2> QED
    BY <1>1, <1>7, <2>1, NoForms DEF IInv, AttemptsFit
<1> QED
  BY <1>5, <1>8, <1>9, <1>10, <1>11, <1>12, PartsMakeInv DEF CardsFit, ResultsTrue

\* The card that could not be bound.
LEMMA CleanupStep ==
  ASSUME IInv, Cleanup
  PROVE  IInv'
<1>0. /\ CodexOK /\ SessionOK /\ StoreOK /\ BotOK
  BY DEF IInv, TypeOK
<1>1. PICK old : old = IF Expirable THEN KillCurrentRow ELSE rows
  OBVIOUS
<1>2. /\ sender.pc = "cleanup" /\ sender' = NoSend
      /\ rows' = [old EXCEPT ![sender.turn] = FailedRow(old[sender.turn], "persist", TRUE)]
      /\ EditCard(sender.message, "inactive")
      /\ UNCHANGED <<session, alive, codex, edits, callback, started>>
  BY <1>1 DEF Cleanup
<1>3. old \in [Turns -> Rows] /\ Fades(old)
  BY <1>0, <1>1, KillForms DEF StoreOK, Fades
<1>4. /\ RequestInv' /\ approval' \in Approvals /\ pairs' \in Seq(Pairs)
      /\ approval'.message = approval.message /\ approval'.turn = approval.turn
      /\ approval'.status \in {approval.status, "expired"}
      /\ \A k \in DOMAIN pairs : k \in DOMAIN pairs' /\ pairs'[k].turn = pairs[k].turn
  <2>1. CASE Expirable
    BY <1>2, <2>1, ExpiresIdle DEF Cleanup, codex
  <2>2. CASE ~Expirable
    <3>1. UNCHANGED <<approval, pairs>>
      BY <2>2 DEF Cleanup
    <3>2. RequestInv'
      BY <1>0, <1>2, <3>1, SameRequest DEF codex, CodexOK, Turns
    <3> QED
      BY <1>0, <3>1, <3>2 DEF StoreOK
  <2> QED
    BY <2>1, <2>2
<1>5. PICK m \in 0 .. Len(cards) : m = sender.message
  BY <1>0, SendFields DEF BotOK, IInv, CardsFit, SenderCard, CardShows
<1>6. /\ Grows /\ CardsExist' /\ CardsTrue' /\ cards' \in Seq(Cards) /\ faults' \in 0 .. MaxFaults
  <2>1. "inactive" \in Texts /\ (m # 0 => SaysUpTo("inactive", pairs[cards[m].pair].turn))
    BY <1>5, InactiveSays
  <2> QED
    BY <1>2, <1>4, <1>5, <2>1, EditedCards DEF codex
<1>7. /\ rows' \in [Turns -> Rows] /\ RowPairs'
      /\ \A t \in Turns : rows'[t].status \in {"pending", "retry"} => rows'[t].attempts < MaxAttempts
  <2>1. "persist" \in Errors
    BY DEF Errors
  <2> QED
    BY <1>2, <1>3, <1>6, <2>1, RowAfterFailure
<1>8. TablesOK'
  BY <1>0, <1>2, <1>4, <1>6, <1>7, NoForms DEF TablesOK, CodexOK, SessionOK, StoreOK, BotOK, codex
<1>9. RequestCard' /\ EditCards' /\ SenderCard' /\ CallbackCard'
  BY <1>2, <1>4, <1>6, CardsKept
<1>10. RequestTrue' /\ EditsTrue' /\ AnswerTrue'
  BY <1>2, <1>4, <1>6, ResultsKept
<1>11. AttemptsFit'
  <2>1. 0 < MaxAttempts
    BY ApprovalBounds
  <2> QED
    BY <1>2, <1>7, <2>1, NoForms DEF AttemptsFit
<1> QED
  BY <1>4, <1>6, <1>7, <1>8, <1>9, <1>10, <1>11, PartsMakeInv DEF CardsFit, ResultsTrue

\* processMinimalApprovalInactiveEdit.
LEMMA DeliverEditStep ==
  ASSUME IInv, DeliverEdit
  PROVE  IInv'
<1>0. /\ CodexOK /\ SessionOK /\ StoreOK /\ BotOK
  BY DEF IInv, TypeOK
<1>1. PICK e \in edits : /\ edits' = (edits \ {e}) \cup {[e EXCEPT !.done = TRUE]}
                         /\ EditCard(e.message, e.text)
  BY DEF DeliverEdit
<1>2. UNCHANGED <<session, alive, codex, approval, pairs, rows, sender, callback, started>>
  BY DEF DeliverEdit
<1> DEFINE d == [e EXCEPT !.done = TRUE]
<1>3. /\ e \in Edits /\ d \in Edits /\ d.message = e.message /\ d.turn = e.turn /\ d.text = e.text
      /\ e.text \in Texts /\ e.message \in Nat
  BY <1>0 DEF StoreOK, Edits
<1>4. edits' = (edits \ {e}) \cup {d}
  BY <1>1
<1> HIDE DEF d
<1>5. /\ e.message # 0 => CardShows(e.message, e.turn)
      /\ SaysTrue(e.text, e.turn)
  BY DEF IInv, CardsFit, EditCards, ResultsTrue, EditsTrue
<1>6. PICK m \in 0 .. Len(cards) : m = e.message
  BY <1>0, <1>3, <1>5 DEF BotOK, CardShows
<1>7. /\ Grows /\ CardsExist' /\ CardsTrue' /\ cards' \in Seq(Cards) /\ faults' \in 0 .. MaxFaults
  <2>1. m # 0 => SaysUpTo(e.text, pairs[cards[m].pair].turn)
    <3>1. e.turn \in Turns
      BY TurnsNamed
    <3> QED
      BY <1>5, <1>6, <3>1, UpToStays DEF CardShows, PairShows
  <2> QED
    BY <1>1, <1>2, <1>3, <1>6, <2>1, EditedCards DEF codex
<1>8. TablesOK'
  BY <1>0, <1>2, <1>3, <1>4, <1>7 DEF TablesOK, CodexOK, SessionOK, StoreOK, BotOK, codex
<1>9. ASSUME NEW x \in edits'
      PROVE  /\ x.turn # 0 /\ (x.message # 0 => CardShows(x.message, x.turn)')
             /\ SaysTrue(x.text, x.turn)'
  <2>1. PICK f \in edits : x.turn = f.turn /\ x.message = f.message /\ x.text = f.text
    BY <1>3, <1>4
  <2>2. f.turn # 0 /\ f.turn \in Turns /\ (f.message # 0 => CardShows(f.message, f.turn)) /\ SaysTrue(f.text, f.turn)
    BY TurnsNamed DEF IInv, CardsFit, EditCards, ResultsTrue, EditsTrue
  <2>3. (f.message # 0 => CardShows(f.message, f.turn)') /\ SaysTrue(f.text, f.turn)'
    BY <1>7, <2>2, ShowsStays, TrueStays
  <2> QED
    BY <2>1, <2>2, <2>3 DEF CardShows, PairShows, SaysTrue, Told
<1>10. EditCards' /\ EditsTrue'
  BY <1>9 DEF EditCards, EditsTrue
<1>11. RequestInv'
  BY <1>0, <1>2, SameRequest DEF codex, CodexOK, Turns
<1>12. RequestCard' /\ RowPairs' /\ SenderCard' /\ CallbackCard'
  BY <1>2, <1>7, CardsKept
<1>13. RequestTrue' /\ AnswerTrue'
  BY <1>2, <1>7, ResultsKept
<1>14. AttemptsFit'
  BY <1>2 DEF IInv, AttemptsFit
<1> QED
  BY <1>7, <1>8, <1>10, <1>11, <1>12, <1>13, <1>14, PartsMakeInv DEF CardsFit, ResultsTrue

-----------------------------------------------------------------------------
(***************************************************************************)
(* The callback handler and the restart.                                   *)
(***************************************************************************)

\* A step of the callback handler that sends and edits nothing.
LEMMA CallbackStep ==
  ASSUME IInv, UNCHANGED <<session, alive, rows, edits, cards, sender, started>>, CodexOK',
         faults' \in 0 .. MaxFaults, approval' \in Approvals, pairs' \in Seq(Pairs),
         callback' \in Callbacks, Grows, RequestInv', RequestCard', CallbackCard', RequestTrue',
         AnswerTrue'
  PROVE  IInv'
<1>1. TablesOK'
  BY DEF IInv, TypeOK, TablesOK, SessionOK, StoreOK, BotOK
<1>2. CardsExist' /\ EditCards' /\ RowPairs' /\ SenderCard'
  BY CardsKept DEF IInv, TypeOK, StoreOK
<1>3. EditsTrue' /\ CardsTrue'
  BY ResultsKept
<1>4. AttemptsFit'
  BY DEF IInv, AttemptsFit
<1> QED
  BY <1>1, <1>2, <1>3, <1>4, PartsMakeInv DEF CardsFit, ResultsTrue

\* A button is pressed.
LEMMA PressStep ==
  ASSUME IInv, NEW m \in DOMAIN cards, NEW action \in Actions, Press(m, action)
  PROVE  IInv'
<1>0. /\ CodexOK /\ SessionOK /\ StoreOK /\ BotOK
  BY DEF IInv, TypeOK
<1>1. /\ callback' = [NoCallback EXCEPT !.pc = "routed", !.pair = cards[m].pair, !.action = action,
                                        !.message = m, !.session = approval.session]
      /\ UNCHANGED <<session, alive, codex, store, cards, sender, started, faults>>
  BY DEF Press
<1>2. m \in Nat /\ cards[m].pair \in Nat /\ approval.session \in 0 .. MaxSessions
  <2>1. m \in Nat /\ cards[m] \in Cards
    BY <1>0 DEF BotOK
  <2>2. approval.session \in 0 .. MaxSessions
    BY <1>0, ApprovalFields DEF StoreOK
  <2> QED
    BY <2>1, <2>2 DEF Cards
<1>3. /\ callback' \in Callbacks /\ callback'.pc = "routed" /\ callback'.action = action
      /\ callback'.message = m /\ callback'.pair = cards[m].pair
  BY <1>1, <1>2 DEF NoCallback, Callbacks
<1>4. UNCHANGED <<approval, pairs, rows, edits, told, turn>> /\ CodexOK'
  BY <1>0, <1>1 DEF codex, store, CodexOK
<1>5. Grows
  BY <1>1, <1>4, NothingGrows
<1>6. RequestInv'
  BY <1>0, <1>3, <1>4, SameRequest DEF CodexOK, Turns
<1>7. CallbackCard'
  <2>1. cards[m].pair \in DOMAIN pairs /\ pairs[cards[m].pair].turn \in Turns
    BY TurnsNamed
  <2> QED
    BY <1>1, <1>3, <1>4, <2>1 DEF CallbackCard, CallbackTurn, Turns
<1>8. RequestCard' /\ RequestTrue' /\ AnswerTrue'
  BY <1>3, <1>4, <1>5, CardsKept, ResultsKept
<1> QED
  BY <1>0, <1>1, <1>3, <1>4, <1>5, <1>6, <1>7, <1>8, CallbackStep DEF StoreOK, SessionOK

\* The callback ends and nothing is stored.
LEMMA CallbackEnds ==
  ASSUME IInv, UNCHANGED <<session, alive, codex, store, cards, sender, started, faults>>,
         callback' = NoCallback
  PROVE  IInv'
<1>0. /\ CodexOK /\ SessionOK /\ StoreOK
  BY DEF IInv, TypeOK
<1>1. UNCHANGED <<approval, pairs, rows, edits, told, turn>> /\ CodexOK'
  BY <1>0 DEF codex, store, CodexOK
<1>2. Grows
  BY <1>1, NothingGrows
<1>3. RequestInv'
  BY <1>0, <1>1, SameRequest, NoForms DEF CodexOK, Turns
<1>4. RequestCard' /\ RequestTrue' /\ AnswerTrue' /\ CallbackCard'
  BY <1>1, <1>2, CardsKept, ResultsKept, NoForms
<1> QED
  BY <1>0, <1>1, <1>2, <1>3, <1>4, CallbackStep, NoForms DEF StoreOK, SessionOK

\* ClaimMinimalApproval.
LEMMA ClaimApprovalStep ==
  ASSUME IInv, ClaimApproval
  PROVE  IInv'
<1>0. /\ CodexOK /\ SessionOK /\ StoreOK /\ BotOK
  BY DEF IInv, TypeOK
<1>1. callback.pc = "routed" /\ UNCHANGED <<session, alive, codex, rows, edits, cards, sender, started, faults>>
  BY DEF ClaimApproval
<1>2. CASE callback' = NoCallback /\ UNCHANGED <<approval, pairs>>
  BY <1>1, <1>2, CallbackEnds DEF store
<1>3. CASE /\ Exact(callback.pair)
           /\ approval' = [approval EXCEPT !.claim = callback.action, !.message = callback.message]
           /\ pairs' = [k \in DOMAIN pairs |->
                          IF pairs[k].status = "active"
                          THEN [pairs[k] EXCEPT !.status = "claimed", !.message = callback.message]
                          ELSE pairs[k]]
           /\ callback' = [callback EXCEPT !.pc = "claimed"]
  <2>1. Pending /\ Idle /\ CallbackTurn = approval.turn
    BY <1>3 DEF Exact, CallbackTurn
  <2>2. callback.action \in Actions /\ callback.message \in Nat
    BY <1>0, <1>1, CallbackFields DEF IInv, ClaimInv, BotOK
  <2>3. /\ callback' \in Callbacks /\ callback'.pc = "claimed" /\ callback'.pair = callback.pair
        /\ callback'.action = callback.action /\ callback'.message = callback.message
    BY <1>0, <1>3 DEF BotOK, Callbacks
  <2>4. /\ approval' \in Approvals /\ approval'.turn = approval.turn /\ approval'.claim = callback.action
        /\ approval'.status = approval.status /\ approval'.message = callback.message
    BY <1>0, <1>3, <2>2 DEF StoreOK, Approvals
  <2>5. /\ pairs' \in Seq(Pairs) /\ DOMAIN pairs' = DOMAIN pairs
        /\ \A k \in DOMAIN pairs :
             /\ pairs'[k].turn = pairs[k].turn
             /\ pairs'[k].status = IF pairs[k].status = "active" THEN "claimed" ELSE pairs[k].status
    <3>1. /\ DOMAIN pairs = 1 .. Len(pairs) /\ Len(pairs) \in Nat
          /\ \A k \in DOMAIN pairs : pairs[k] \in Pairs
      BY <1>0 DEF StoreOK
    <3>2. \A k \in DOMAIN pairs :
            pairs'[k] = IF pairs[k].status = "active"
                        THEN [pairs[k] EXCEPT !.status = "claimed", !.message = callback.message]
                        ELSE pairs[k]
      BY <1>3
    <3>3. \A k \in DOMAIN pairs :
            /\ pairs'[k] \in Pairs /\ pairs'[k].turn = pairs[k].turn
            /\ pairs'[k].status = IF pairs[k].status = "active" THEN "claimed" ELSE pairs[k].status
      BY <2>2, <3>1, <3>2 DEF Pairs, PairStates
    <3>4. pairs' = [k \in 1 .. Len(pairs) |-> pairs'[k]]
      BY <1>3, <3>1
    <3> QED
      BY <3>1, <3>3, <3>4
  <2>6. RequestInv'
    BY <1>1, <2>1, <2>3, <2>4, <2>5, ClaimedRequest DEF codex
  <2>7. Grows
    BY <1>1, <2>5 DEF Grows, Told, codex
  <2>8. RequestCard'
    <3>1. PICK m, t : m = callback.message /\ t = approval.turn
      OBVIOUS
    <3>2. m \in DOMAIN cards /\ cards[m].pair = callback.pair /\ callback.pair \in DOMAIN pairs
      BY <1>1, <3>1, CallbackPair DEF IInv, CardsFit, CallbackCard
    <3>3. CardShows(m, t)'
      BY <1>1, <2>1, <2>5, <3>1, <3>2 DEF CardShows, PairShows, CallbackTurn
    <3> QED
      BY <2>4, <3>1, <3>3 DEF RequestCard, CardShows, PairShows
  <2>9. RequestTrue' /\ AnswerTrue' /\ CallbackCard'
    BY <1>1, <2>3, <2>4, <2>7, CardsKept, ResultsKept DEF SameCard
  <2>10. CodexOK' /\ faults' \in 0 .. MaxFaults
    BY <1>0, <1>1 DEF CodexOK, SessionOK, codex
  <2> QED
    BY <1>1, <2>3, <2>4, <2>5, <2>6, <2>7, <2>8, <2>9, <2>10, CallbackStep
<1> QED
  BY <1>2, <1>3 DEF ClaimApproval

\* RestoreMinimalApprovalClaim.
LEMMA RestoreClaimStep ==
  ASSUME IInv, RestoreClaim
  PROVE  IInv'
<1>0. /\ CodexOK /\ SessionOK /\ StoreOK /\ BotOK
  BY DEF IInv, TypeOK
<1>1. /\ callback.pc = "claimed" /\ callback' = NoCallback
      /\ UNCHANGED <<session, alive, codex, rows, edits, cards, sender, started, faults>>
  BY DEF RestoreClaim
<1>2. CASE UNCHANGED <<approval, pairs>>
  BY <1>1, <1>2, CallbackEnds DEF store
<1>3. CASE /\ Holds /\ approval' = [approval EXCEPT !.claim = "idle"]
           /\ pairs' = SetPairs({"claimed"}, "active")
  <2>1. /\ approval' \in Approvals /\ approval'.turn = approval.turn /\ approval'.claim = "idle"
        /\ approval'.status = approval.status /\ approval'.message = approval.message
    BY <1>0, <1>3 DEF StoreOK, Approvals
  <2>2. /\ pairs' \in Seq(Pairs) /\ DOMAIN pairs' = DOMAIN pairs
        /\ \A k \in DOMAIN pairs : pairs'[k].turn = pairs[k].turn
    BY <1>0, <1>3, SetPairsForms DEF StoreOK, PairStates
  <2>3. RequestInv'
    BY <1>1, <1>3, <2>1, NoForms, RestoredRequest DEF codex
  <2>4. Grows
    BY <1>1, <2>2 DEF Grows, Told, codex
  <2>5. RequestCard' /\ CallbackCard' /\ RequestTrue' /\ AnswerTrue'
    BY <1>1, <2>1, <2>4, CardsKept, ResultsKept, NoForms
  <2>6. CodexOK' /\ faults' \in 0 .. MaxFaults
    BY <1>0, <1>1 DEF CodexOK, SessionOK, codex
  <2> QED
    BY <1>1, <2>1, <2>2, <2>3, <2>4, <2>5, <2>6, NoForms, CallbackStep
<1> QED
  BY <1>2, <1>3 DEF RestoreClaim

\* RespondServerRequestExact.
LEMMA RespondStep ==
  ASSUME IInv, Respond
  PROVE  IInv'
<1>0. /\ CodexOK /\ SessionOK /\ StoreOK /\ BotOK /\ turn \in Turns
  BY DEF IInv, TypeOK, CodexOK
<1>1. /\ callback.pc = "claimed"
      /\ UNCHANGED <<origin, turn, inbox, events, session, alive, store, cards, sender, started>>
  BY DEF Respond
<1>2. UNCHANGED <<approval, pairs, rows, edits>>
  BY <1>1 DEF store
<1>3. /\ callback.action \in Actions /\ CallbackTurn \in Turns /\ callback.pair \in DOMAIN pairs
  BY <1>1, CallbackPair DEF IInv, ClaimInv
<1> DEFINE said == IF callback.action = "deny" THEN "denied" ELSE "approved"
<1>4. PICK o \in Outcomes :
        /\ Outcome(o) /\ asked' \in {asked, 0} /\ (UNCHANGED faults \/ Fault)
        /\ \/ UNCHANGED told /\ o \in {"cancelled", "expired"}
           \/ asked = CallbackTurn /\ Tell /\ o \in {said, "cancelled"}
  BY DEF Respond, Answer, NotRegistered, OtherTurn, BrokenPipe, Outcomes
<1>5. /\ callback' \in Callbacks /\ callback'.pc = "answered" /\ callback'.pair = callback.pair
      /\ callback'.action = callback.action /\ callback'.message = callback.message
      /\ callback'.outcome = o
  BY <1>0, <1>4 DEF Outcome, BotOK, Callbacks
<1>6. faults' \in 0 .. MaxFaults
  BY <1>0, <1>4, ApprovalBounds DEF SessionOK, Fault
<1>a. asked' \in 0 .. MaxTurns
  BY <1>0, <1>4, ApprovalBounds DEF CodexOK
<1>7. CallbackTurn' = CallbackTurn
  BY <1>2, <1>5 DEF CallbackTurn
<1>8. CASE UNCHANGED told /\ o \in {"cancelled", "expired"}
  <2>1. RequestInv'
    <3>1. turn' \in Nat /\ turn' >= turn
      BY <1>0, <1>1 DEF Turns
    <3>2. callback'.outcome \in Outcomes
      BY <1>5
    <3> QED
      BY <1>1, <1>2, <1>5, <1>8, <3>1, <3>2, SameRequest
  <2>2. Grows
    BY <1>1, <1>2, <1>8, NothingGrows
  <2>3. RequestCard' /\ RequestTrue'
    BY <1>2, <2>2, CardsKept, ResultsKept
  <2>4. CallbackCard' /\ AnswerTrue'
    BY <1>1, <1>5, <1>8, <2>2, CardsKept DEF SameCard, AnswerTrue, SaysTrue
  <2>5. CodexOK'
    BY <1>0, <1>1, <1>8, <1>a DEF CodexOK
  <2> QED
    BY <1>0, <1>1, <1>2, <1>5, <1>6, <2>1, <2>2, <2>3, <2>4, <2>5, CallbackStep DEF StoreOK
<1>9. CASE asked = CallbackTurn /\ Tell /\ o \in {said, "cancelled"}
  <2>1. RequestInv'
    BY <1>1, <1>2, <1>5, <1>9, ToldRequest
  <2>2. PICK u \in Turns : u = CallbackTurn
    BY <1>3
  <2> DEFINE D == [action : Actions, shown : Turns]
             d == [action |-> callback.action, shown |-> u]
  <2>3. d \in D /\ d.action = callback.action /\ told \in [Turns -> Seq(D)]
    BY <1>0, <1>3 DEF CodexOK
  <2>4. told' = [told EXCEPT ![u] = Append(told[u], d)]
    BY <1>9, <2>2 DEF Tell
  <2> HIDE DEF d, D
  <2>a. PICK s \in Seq(D) : s = told[u]
    BY <2>3
  <2>b. /\ Append(s, d) \in Seq(D) /\ Len(s) + 1 \in DOMAIN Append(s, d)
        /\ \A i \in DOMAIN s : i \in DOMAIN Append(s, d) /\ Append(s, d)[i] = s[i]
        /\ Append(s, d)[Len(s) + 1] = d
    BY <2>3, AppendForms
  <2>c. PICK new : new = Append(s, d)
    OBVIOUS
  <2>5. /\ told' \in [Turns -> Seq(D)] /\ told'[u] = new
        /\ \A t \in Turns : t # u => told'[t] = told[t]
    BY <2>3, <2>4, <2>a, <2>b, <2>c
  <2>6. /\ \A i \in DOMAIN told[u] : i \in DOMAIN told'[u] /\ told'[u][i] = told[u][i]
        /\ \E i \in DOMAIN told'[u] : told'[u][i] = d
    BY <2>5, <2>a, <2>b, <2>c
  <2>7. Grows
    <3>1. ASSUME NEW t \in Turns, NEW a \in Actions, Told(t, a)
          PROVE  Told(t, a)'
      BY <2>5, <2>6, <3>1 DEF Told
    <3> QED
      BY <1>1, <1>2, <3>1 DEF Grows
  <2>8. RequestCard' /\ RequestTrue'
    BY <1>2, <2>7, CardsKept, ResultsKept
  <2>9. Told(u, callback.action)'
    <3>1. PICK a : a = callback.action
      OBVIOUS
    <3>2. Told(u, a)'
      BY <2>3, <2>6, <3>1 DEF Told
    <3> QED
      BY <1>5, <3>1, <3>2 DEF Told
  <2>10. AnswerTrue'
    <3>1. Told(u, "approve")' \/ o # "approved"
      BY <1>3, <1>5, <1>9, <2>9 DEF Actions, Told
    <3>2. Told(u, "deny")' \/ o # "denied"
      BY <1>3, <1>5, <1>9, <2>9 DEF Actions, Told
    <3> QED
      BY <1>5, <1>7, <2>2, <3>1, <3>2 DEF AnswerTrue, SaysTrue, Told
  <2>11. CallbackCard'
    BY <1>1, <1>5, <2>7, CardsKept DEF SameCard
  <2>12. CodexOK'
    BY <1>0, <1>1, <1>a, <2>5 DEF CodexOK, D
  <2> QED
    BY <1>0, <1>1, <1>2, <1>5, <1>6, <2>1, <2>7, <2>8, <2>10, <2>11, <2>12, CallbackStep DEF StoreOK
<1> QED
  BY <1>4, <1>8, <1>9

\* A claim that is finished: the request is settled, and its pair is used up.
LEMMA FinishedStore ==
  ASSUME IInv, Pending, OnePair({"claimed"}), UNCHANGED <<turn, told>>,
         callback'.pc = "idle" \/ (Continues /\ callback'.pc # "unstored"),
         NEW status \in ApprovalStates \ {"absent", "pending"}, FinishClaim(status)
  PROVE  /\ RequestInv' /\ approval' \in Approvals /\ pairs' \in Seq(Pairs)
         /\ approval'.message = approval.message /\ approval'.turn = approval.turn
         /\ approval'.status = status
         /\ \A k \in DOMAIN pairs : k \in DOMAIN pairs' /\ pairs'[k].turn = pairs[k].turn
<1>1. /\ approval' = [approval EXCEPT !.status = status, !.claim = "idle"]
      /\ pairs' = SetPairs({"claimed"}, "consumed")
  BY DEF FinishClaim
<1>2. /\ approval' \in Approvals /\ approval'.message = approval.message
      /\ approval'.turn = approval.turn /\ approval'.status = status /\ approval'.claim = "idle"
  BY <1>1 DEF IInv, TypeOK, StoreOK, Approvals
<1>3. pairs' \in Seq(Pairs)
  BY <1>1, SetPairsForms DEF IInv, TypeOK, StoreOK, PairStates
<1>4. /\ DOMAIN pairs' = DOMAIN pairs
      /\ \A k \in DOMAIN pairs :
           pairs'[k].turn = pairs[k].turn /\ pairs'[k].status \notin {"active", "claimed"}
  BY <1>1, PairsSpent
<1>5. RequestInv'
  BY <1>2, <1>4, SettledRequest
<1> QED
  BY <1>2, <1>3, <1>4, <1>5

\* What the callback stores is what it was told for the request it holds.
LEMMA OutcomeTrue ==
  ASSUME IInv, callback.pc \in {"answered", "unstored"}, Holds
  PROVE  approval.turn \in Turns /\ SaysTrue(callback.outcome, approval.turn)
<1>1. approval.turn = CallbackTurn
  BY DEF IInv, ClaimInv, Claiming, Holds, Idle, Actions
<1>2. approval.turn \in Turns
  BY RequestTurn DEF Holds
<1>3. SaysTrue(callback.outcome, approval.turn)
  BY <1>1 DEF IInv, ResultsTrue, AnswerTrue, Answered
<1> QED
  BY <1>2, <1>3

\* FinishMinimalApprovalClaim.
LEMMA FinishStep ==
  ASSUME IInv, Finish
  PROVE  IInv'
<1>0. /\ CodexOK /\ SessionOK /\ StoreOK /\ BotOK
  BY DEF IInv, TypeOK
<1>1. /\ callback.pc = "answered" /\ Holds /\ OnePair({"claimed"}) /\ FinishClaim(callback.outcome)
      /\ UNCHANGED <<session, alive, codex, rows, edits, cards, sender, started, faults>>
  BY DEF Finish
<1>2. PICK pc \in {"edit", "show"} : callback' = [callback EXCEPT !.pc = pc]
  BY DEF Finish, Then
<1>3. /\ callback' \in Callbacks /\ Continues /\ SameCard /\ callback'.pc # "unstored"
  BY <1>0, <1>1, <1>2 DEF BotOK, Callbacks, Continues, Answered, SameCard
<1>4. callback.outcome \in ApprovalStates \ {"absent", "pending"}
  BY <1>1 DEF IInv, ClaimInv, Answered, Outcomes, ApprovalStates
<1>5. PICK status \in ApprovalStates \ {"absent", "pending"} : status = callback.outcome
  BY <1>4
<1>6. /\ RequestInv' /\ approval' \in Approvals /\ pairs' \in Seq(Pairs)
      /\ approval'.message = approval.message /\ approval'.turn = approval.turn
      /\ approval'.status = status
      /\ \A k \in DOMAIN pairs : k \in DOMAIN pairs' /\ pairs'[k].turn = pairs[k].turn
  BY <1>1, <1>3, <1>5, FinishedStore DEF Holds, codex
<1>7. Grows
  BY <1>1, <1>6 DEF Grows, Told, codex
<1>8. RequestCard' /\ CallbackCard' /\ AnswerTrue'
  BY <1>3, <1>6, <1>7, CardsKept, ResultsKept
<1>9. RequestTrue'
  <2>1. PICK t \in Turns : t = approval.turn
    BY <1>1, OutcomeTrue
  <2>2. SaysTrue(status, t)
    BY <1>1, <1>5, <2>1, OutcomeTrue
  <2>3. SaysTrue(status, t)'
    BY <1>7, <2>2, TrueStays
  <2> QED
    BY <1>6, <2>1, <2>3 DEF RequestTrue, SaysTrue, Told
<1>10. CodexOK' /\ faults' \in 0 .. MaxFaults
  BY <1>0, <1>1 DEF CodexOK, SessionOK, codex
<1> QED
  BY <1>1, <1>3, <1>6, <1>7, <1>8, <1>9, <1>10, CallbackStep

\* The callback goes on and nothing is stored; if it looks for another card, it finds the one
\* of the request that is stored by then.
LEMMA GoesOn ==
  ASSUME IInv, Unstored, faults' \in 0 .. MaxFaults, callback' \in Callbacks, Continues,
         callback'.message \in {callback.message, approval.message}, callback'.message # 0
  PROVE  IInv'
<1>0. CodexOK /\ StoreOK /\ turn \in Turns
  BY DEF IInv, TypeOK, CodexOK
<1>1. UNCHANGED <<session, alive, codex, approval, pairs, rows, edits, cards, sender, started>>
  BY DEF Unstored, store
<1>2. UNCHANGED <<turn, told>> /\ CodexOK'
  BY <1>0, <1>1 DEF codex, CodexOK
<1>3. Grows
  BY <1>1, <1>2, NothingGrows
<1>4. RequestInv'
  BY <1>0, <1>1, <1>2, SameRequest DEF Turns
<1>5. RequestCard' /\ RequestTrue' /\ AnswerTrue'
  BY <1>1, <1>3, CardsKept, ResultsKept
<1>6. CallbackCard'
  <2>1. callback.pc # "idle" /\ callback'.pc # "routed" /\ callback'.pair = callback.pair
    BY DEF Continues, Answered
  <2>2. CASE callback'.message = callback.message
    BY <1>3, <2>1, <2>2, CardsKept DEF SameCard
  <2>3. CASE callback'.message = approval.message
    <3>1. CardShows(approval.message, approval.turn)
      BY <2>3 DEF IInv, CardsFit, RequestCard
    <3>2. callback.pair \in DOMAIN pairs /\ CallbackTurn <= approval.turn /\ CallbackTurn' = CallbackTurn
      BY <1>1, <2>1, CallbackPair DEF CallbackTurn
    <3> QED
      BY <1>1, <2>1, <2>3, <3>1, <3>2 DEF CallbackCard, CardShows, PairShows
  <2> QED
    BY <2>2, <2>3
<1> QED
  BY <1>0, <1>1, <1>2, <1>3, <1>4, <1>5, <1>6, CallbackStep DEF StoreOK

\* The transaction fails, or the claim is gone; a lost decision finds an expired request, and a
\* decision the card of the row.
LEMMA GoOnSteps ==
  ASSUME IInv, FinishFails \/ FinishLost \/ CancelFails \/ ReadLost \/ ReadCard
  PROVE  IInv'
<1>0. /\ callback \in Callbacks /\ SessionOK /\ approval \in Approvals /\ approval.message \in Nat
  BY ApprovalFields DEF IInv, TypeOK, BotOK, StoreOK
<1>1. Unstored /\ Answered
  BY DEF FinishFails, FinishLost, CancelFails, ReadLost, ReadCard, Answered
<1>2. faults' \in 0 .. MaxFaults
  BY <1>0, ApprovalBounds DEF FinishFails, FinishLost, CancelFails, ReadLost, ReadCard, Fault, SessionOK
<1>3. callback.message # 0
  <2>1. callback.message \in DOMAIN cards /\ cards \in Seq(Cards)
    BY <1>1 DEF IInv, CardsFit, CallbackCard, Answered, TypeOK, BotOK
  <2> QED
    BY <2>1
<1>4. ASSUME NEW pc \in {"unstored", "lost", "edit", "show"}, Then(pc),
             pc = "unstored" => callback.pc = "answered" /\ Decided
      PROVE  IInv'
  <2>1. /\ callback' \in Callbacks /\ Continues /\ callback'.message = callback.message
    BY <1>0, <1>1, <1>4 DEF Then, Callbacks, Continues, Answered, Decided
  <2> QED
    BY <1>1, <1>2, <1>3, <2>1, GoesOn
<1>5. CASE FinishFails \/ FinishLost \/ CancelFails
  BY <1>4, <1>5 DEF FinishFails, FinishLost, CancelFails
<1>6. CASE ReadLost
  <2>1. CASE callback' = NoCallback
    BY <1>1, <1>6, <2>1, CallbackEnds DEF ReadLost, Unstored
  <2>2. CASE callback' = [callback EXCEPT !.pc = "edit", !.outcome = "expired"]
    <3>1. /\ callback' \in Callbacks /\ Continues /\ callback'.message = callback.message
      BY <1>0, <1>1, <2>2 DEF Callbacks, Continues, Answered, Outcomes
    <3> QED
      BY <1>1, <1>2, <1>3, <3>1, GoesOn
  <2> QED
    BY <1>6, <2>1, <2>2 DEF ReadLost
<1>7. CASE ReadCard
  <2>1. CASE callback' = NoCallback
    BY <1>1, <1>7, <2>1, CallbackEnds DEF ReadCard, Unstored
  <2>2. CASE approval.message # 0 /\ callback' = [callback EXCEPT !.pc = "show", !.message = approval.message]
    <3>1. /\ callback' \in Callbacks /\ Continues /\ callback'.message = approval.message
      BY <1>0, <1>1, <2>2 DEF Callbacks, Continues, Answered
    <3> QED
      BY <1>1, <1>2, <2>2, <3>1, GoesOn
  <2> QED
    BY <1>7, <2>1, <2>2 DEF ReadCard
<1> QED
  BY <1>5, <1>6, <1>7

\* The claim is cancelled, and the edit is queued.
LEMMA CancelClaimStep ==
  ASSUME IInv, CancelClaim
  PROVE  IInv'
<1>0. /\ CodexOK /\ SessionOK /\ StoreOK /\ BotOK
  BY DEF IInv, TypeOK
<1>1. /\ callback.pc = "unstored" /\ Holds /\ OnePair({"claimed"})
      /\ FinishClaim("cancelled") /\ edits' = EnqueueInactiveEdit(callback.outcome)
      /\ callback' = NoCallback
      /\ UNCHANGED <<session, alive, codex, rows, cards, sender, started, faults>>
  BY DEF CancelClaim
<1>2. "cancelled" \in ApprovalStates \ {"absent", "pending"} /\ callback.outcome \in Texts
  BY <1>1 DEF ApprovalStates, IInv, ClaimInv, Decided, Texts
<1>3. /\ RequestInv' /\ approval' \in Approvals /\ pairs' \in Seq(Pairs)
      /\ approval'.message = approval.message /\ approval'.turn = approval.turn
      /\ approval'.status = "cancelled"
      /\ \A k \in DOMAIN pairs : k \in DOMAIN pairs' /\ pairs'[k].turn = pairs[k].turn
  BY <1>1, <1>2, NoForms, FinishedStore DEF Holds, codex
<1>4. Grows
  BY <1>1, <1>3 DEF Grows, Told, codex
<1>5. edits' \subseteq Edits /\ EditCards' /\ EditsTrue'
  <2>1. PICK text \in Texts : text = callback.outcome
    BY <1>2
  <2> QED
    BY <1>1, <1>4, <2>1, OutcomeTrue, QueuedEdit
<1>6. TablesOK'
  BY <1>0, <1>1, <1>3, <1>5, NoForms DEF TablesOK, CodexOK, SessionOK, StoreOK, BotOK, codex
<1>7. CardsExist' /\ RequestCard' /\ RowPairs' /\ SenderCard' /\ CallbackCard'
  BY <1>0, <1>1, <1>3, <1>4, CardsKept DEF StoreOK
<1>8. CardsTrue' /\ RequestTrue' /\ AnswerTrue'
  BY <1>1, <1>3, <1>4, NoForms, ResultsKept
<1>9. AttemptsFit'
  BY <1>1 DEF IInv, AttemptsFit
<1> QED
  BY <1>3, <1>5, <1>6, <1>7, <1>8, <1>9, PartsMakeInv DEF CardsFit, ResultsTrue

\* The card is edited: it shows the turn of the decision or a later one.
LEMMA ShowResultStep ==
  ASSUME IInv, ShowResult
  PROVE  IInv'
<1>0. /\ CodexOK /\ SessionOK /\ StoreOK /\ BotOK /\ turn \in Turns
  BY DEF IInv, TypeOK, CodexOK
<1>1. PICK text : text = IF callback.outcome = "expired" THEN "inactive" ELSE callback.outcome
  OBVIOUS
<1>2. /\ callback.pc = "show" /\ callback' = NoCallback /\ EditCard(callback.message, text)
      /\ UNCHANGED <<session, alive, codex, store, sender, started>>
  BY <1>1 DEF ShowResult
<1>3. UNCHANGED <<approval, pairs, rows, edits, told, turn>>
  BY <1>2 DEF codex, store
<1>4. PICK m \in DOMAIN cards : m = callback.message
  BY <1>2 DEF IInv, CardsFit, CallbackCard
<1>5. m \in 0 .. Len(cards) /\ text \in Texts
  BY <1>0, <1>1, <1>2 DEF BotOK, IInv, ClaimInv, Answered, Outcomes, Texts
<1>6. SaysUpTo(text, pairs[cards[m].pair].turn)
  <2>1. PICK t \in Turns : t = pairs[cards[m].pair].turn
    BY TurnsNamed
  <2>2. CallbackTurn \in 1 .. t
    BY <1>2, <1>4, <2>1, CallbackPair DEF IInv, CardsFit, CallbackCard, Turns
  <2>3. SaysTrue(text, CallbackTurn)
    BY <1>1, <1>2 DEF IInv, ResultsTrue, AnswerTrue, Answered, SaysTrue
  <2> QED
    BY <2>1, <2>2, <2>3, UpToStays
<1>7. /\ Grows /\ CardsExist' /\ CardsTrue' /\ cards' \in Seq(Cards) /\ faults' \in 0 .. MaxFaults
  BY <1>2, <1>3, <1>4, <1>5, <1>6, EditedCards
<1>8. RequestInv'
  BY <1>0, <1>2, <1>3, SameRequest, NoForms DEF Turns
<1>9. TablesOK'
  BY <1>0, <1>2, <1>3, <1>7, NoForms DEF TablesOK, CodexOK, SessionOK, StoreOK, BotOK, codex
<1>10. RequestCard' /\ EditCards' /\ RowPairs' /\ SenderCard' /\ CallbackCard'
  BY <1>0, <1>2, <1>3, <1>7, CardsKept DEF StoreOK
<1>11. RequestTrue' /\ EditsTrue' /\ AnswerTrue'
  BY <1>2, <1>3, <1>7, NoForms, ResultsKept
<1>12. AttemptsFit'
  BY <1>2, <1>3 DEF IInv, AttemptsFit
<1> QED
  BY <1>7, <1>8, <1>9, <1>10, <1>11, <1>12, PartsMakeInv DEF CardsFit, ResultsTrue

\* The process dies and starts again.
LEMMA RestartStep ==
  ASSUME IInv, Restart
  PROVE  IInv'
<1>0. /\ CodexOK /\ SessionOK /\ StoreOK /\ BotOK /\ turn \in Turns
  BY DEF IInv, TypeOK, CodexOK
<1>1. /\ session < MaxSessions /\ session' = session + 1 /\ alive' = (origin = "live")
      /\ asked' = 0 /\ inbox' = <<>> /\ sender' = NoSend /\ callback' = NoCallback
      /\ rows' = [t \in Turns |-> IF rows[t].status = "processing"
                                  THEN [rows[t] EXCEPT !.status = "dead", !.pair = 0] ELSE rows[t]]
      /\ RecoverClaims
      /\ UNCHANGED <<origin, turn, events, cards, faults, told>>
  BY DEF Restart
<1>2. rows' \in [Turns -> Rows] /\ Fades(rows')
  <2>1. ASSUME NEW t \in Turns
        PROVE  /\ rows'[t] \in Rows
               /\ \/ rows'[t] = rows[t]
                  \/ rows'[t].status = "dead" /\ rows'[t].pair = 0 /\ rows'[t].attempts = rows[t].attempts
    BY <1>0, <1>1 DEF StoreOK, Rows, Waiting
  <2>2. rows' = [t \in Turns |-> rows'[t]]
    BY <1>1
  <2> QED
    BY <2>1, <2>2 DEF Fades
<1>3. started' \in BOOLEAN
  BY <1>1 DEF RecoverClaims
<1>4. /\ RequestInv' /\ approval' \in Approvals /\ pairs' \in Seq(Pairs)
      /\ approval'.message = approval.message /\ approval'.turn = approval.turn
      /\ approval'.status \in {approval.status, "cancelled"}
      /\ \A k \in DOMAIN pairs : k \in DOMAIN pairs' /\ pairs'[k].turn = pairs[k].turn
      /\ UNCHANGED edits \/ (approval.turn \in Turns /\ edits' = EnqueueInactiveEdit("cancelled"))
  <2>1. CASE Interrupted /\ OnePair({"claimed"})
    <3>1. FinishClaim("cancelled") /\ edits' = EnqueueInactiveEdit("cancelled") /\ Pending
      BY <1>1, <2>1 DEF RecoverClaims, Interrupted
    <3>2. "cancelled" \in ApprovalStates \ {"absent", "pending"} /\ approval.turn \in Turns
      BY <3>1, RequestTurn DEF ApprovalStates
    <3> QED
      BY <1>1, <2>1, <3>1, <3>2, NoForms, FinishedStore
  <2>2. CASE ~(Interrupted /\ OnePair({"claimed"}))
    <3>1. UNCHANGED <<approval, pairs, edits>>
      BY <1>1, <2>2 DEF RecoverClaims
    <3>2. turn' \in Nat /\ turn' >= turn /\ callback'.pc = "idle" /\ UNCHANGED told
      <4>1. turn' = turn /\ callback' = NoCallback /\ UNCHANGED told
        BY <1>1
      <4> QED
        BY <1>0, <4>1, NoForms DEF Turns
    <3>3. RequestInv'
      BY <3>1, <3>2, SameRequest
    <3> QED
      BY <1>0, <3>1, <3>3 DEF StoreOK
  <2> QED
    BY <2>1, <2>2
<1>5. Grows
  BY <1>1, <1>4 DEF Grows, Told
<1>6. edits' \subseteq Edits /\ EditCards' /\ EditsTrue'
  <2>1. "cancelled" \in Texts /\ SaysTrue("cancelled", approval.turn)
    BY DEF Texts, SaysTrue
  <2>2. CASE UNCHANGED edits
    BY <1>0, <1>5, <2>2, CardsKept, ResultsKept DEF StoreOK
  <2>3. CASE approval.turn \in Turns /\ edits' = EnqueueInactiveEdit("cancelled")
    BY <1>5, <2>1, <2>3, QueuedEdit
  <2> QED
    BY <1>4, <2>2, <2>3
<1>7. session' \in 1 .. MaxSessions /\ alive' \in BOOLEAN /\ asked' \in 0 .. MaxTurns
  <2>1. session' \in 1 .. MaxSessions
    <3>1. session' = session + 1 /\ session < MaxSessions
      BY <1>1
    <3> QED
      BY <1>0, <3>1, ApprovalBounds DEF SessionOK
  <2>2. alive' \in BOOLEAN
    BY <1>1, Zenon
  <2>3. asked' \in 0 .. MaxTurns
    <3>1. asked' = 0
      BY <1>1
    <3> QED
      BY <3>1, ApprovalBounds
  <2> QED
    BY <2>1, <2>2, <2>3
<1>8. CodexOK'
  <2>1. inbox' = <<>> /\ UNCHANGED <<origin, turn, events, told>>
    BY <1>1
  <2>2. inbox' \in Seq([kind : {"request", "resolved"}, turn : Turns])
    BY <2>1
  <2> QED
    BY <1>0, <1>7, <2>1, <2>2 DEF CodexOK
<1>9. TablesOK'
  BY <1>0, <1>1, <1>2, <1>3, <1>4, <1>6, <1>7, <1>8, NoForms DEF TablesOK, SessionOK, StoreOK, BotOK
<1>10. CardsExist' /\ RequestCard' /\ SenderCard' /\ CallbackCard'
  BY <1>1, <1>4, <1>5, CardsKept
<1>11. RowPairs' /\ AttemptsFit'
  <2>1. 0 < MaxAttempts
    BY ApprovalBounds
  <2> QED
    BY <1>1, <1>2, <1>5, <2>1, NoForms, FadedRows DEF AttemptsFit
<1>12. CardsTrue' /\ RequestTrue' /\ AnswerTrue'
  BY <1>1, <1>4, <1>5, NoForms, ResultsKept
<1> QED
  BY <1>4, <1>6, <1>9, <1>10, <1>11, <1>12, PartsMakeInv DEF CardsFit, ResultsTrue

-----------------------------------------------------------------------------
(***************************************************************************)
(* The theorems.                                                           *)
(***************************************************************************)

\* Nothing has happened yet.
LEMMA InitIInv ==
  ASSUME Init
  PROVE  IInv
<1>1. /\ CodexOK /\ SessionOK
  <2>1. 1 \in Turns /\ 0 \in 0 .. MaxTurns /\ 0 \in 0 .. MaxEvents /\ 1 \in 1 .. MaxSessions /\ 0 \in 0 .. MaxFaults
    BY ApprovalBounds DEF Turns
  <2>2. \A S : <<>> \in Seq(S)
    OBVIOUS
  <2> QED
    BY <2>1, <2>2 DEF Init, CodexOK, SessionOK
<1>2. StoreOK /\ BotOK
  BY NoForms DEF Init, StoreOK, BotOK
<1>3. approval.message = 0 /\ approval.turn = 0 /\ approval.status = "absent" /\ approval.claim = "idle"
  BY DEF Init, NoApproval
<1>4. pairs = <<>> /\ cards = <<>> /\ edits = {} /\ sender = NoSend /\ callback = NoCallback
      /\ \A t \in Turns : rows[t] = NoRow /\ told[t] = <<>>
  BY DEF Init
<1>5. CardsFit
  BY <1>3, <1>4, NoForms DEF CardsFit, CardsExist, RequestCard, EditCards, RowPairs, SenderCard,
     CallbackCard
<1>6. TypeOK
  <2>1. 0 \in 0 .. Len(cards)
    BY <1>4
  <2> QED
    BY <1>1, <1>2, <1>3, <1>5, <2>1 DEF TypeOK, CardsFit, CardsExist
<1>7. AttemptsFit
  <2>1. 0 < MaxAttempts
    BY ApprovalBounds
  <2> QED
    BY <1>4, <2>1, NoForms DEF AttemptsFit
<1>8. TurnsFit
  <2>1. turn = 1
    BY DEF Init
  <2> QED
    BY <1>3, <1>4, <2>1 DEF TurnsFit
<1>9. ClaimInv /\ ToldIsSpent
  BY <1>3, <1>4, NoForms DEF ClaimInv, Claiming, Answered, Idle, Pending, ToldIsSpent
<1>10. ButtonsFit
  BY <1>3, <1>4 DEF ButtonsFit, Usable, InState, Pending
<1>11. ResultsTrue
  BY <1>3, <1>4, NoForms DEF ResultsTrue, RequestTrue, CardsTrue, EditsTrue, AnswerTrue, Answered, SaysTrue
<1>12. AnsweredOnceByItsCard
  BY <1>4 DEF AnsweredOnceByItsCard
<1> QED
  BY <1>5, <1>6, <1>7, <1>8, <1>9, <1>10, <1>11, <1>12 DEF IInv

\* Every step keeps the invariant.
LEMMA NextIInv ==
  ASSUME IInv, [Next]_vars
  PROVE  IInv'
<1>1. CASE Codex \/ EventLoop
  BY <1>1, CodexSteps, HandleRequestStep, HandleResolvedStep, ExpireForSessionStep DEF EventLoop
<1>2. CASE Delivery
  BY <1>2, ClaimRowStep, SendSteps, FailDeliveryStep, CompleteDeliveryStep, CleanupStep,
     DeliverEditStep DEF Delivery
<1>3. CASE Callback
  BY <1>3, PressStep, ClaimApprovalStep, RestoreClaimStep, RespondStep, FinishStep, GoOnSteps,
     CancelClaimStep, ShowResultStep DEF Callback
<1>4. CASE Restart
  BY <1>4, RestartStep
<1>5. CASE UNCHANGED vars
  <2>1. /\ UNCHANGED <<store, cards, sender, callback, told, turn>>
        /\ UNCHANGED <<origin, asked, inbox, events, session, alive, started, faults>>
    BY <1>5 DEF vars, store
  <2>2. CodexOK /\ SessionOK
    BY DEF IInv, TypeOK
  <2>3. CodexOK'
    BY <2>1, <2>2 DEF CodexOK
  <2>4. SessionOK'
    BY <2>1, <2>2 DEF SessionOK
  <2>5. turn \in Turns
    BY <2>2 DEF CodexOK
  <2>6. turn' \in Turns /\ turn' >= turn
    BY <2>1, <2>5 DEF Turns
  <2> QED
    BY <2>1, <2>3, <2>4, <2>6, QuietStep
<1> QED
  BY <1>1, <1>2, <1>3, <1>4, <1>5 DEF Next

\* The invariant holds in every state that replays, replacements, ambiguous sends, broken
\* pipes, lost sessions, releases and restarts can lead to.
THEOREM Invariance == Spec => []IInv
BY InitIInv, NextIInv, PTL DEF Spec

\* Codex hears at most one decision for a turn, from a card that showed this turn.
THEOREM AnsweredOnce == Spec => []AnsweredOnceByItsCard
<1>1. IInv => AnsweredOnceByItsCard
  BY DEF IInv
<1> QED
  BY <1>1, Invariance, PTL

\* Once Codex may have been told, the request cannot be claimed again.
THEOREM NothingToldTwice == Spec => []ToldIsSpent
<1>1. IInv => ToldIsSpent
  BY DEF IInv
<1> QED
  BY <1>1, Invariance, PTL

\* What the database says was decided is what Codex was told for that turn; what a card says was
\* told for the card's turn or for an earlier one of the same request id.
THEOREM ResultsAreTrue == Spec => []StatusIsTrue
<1>1. IInv => StatusIsTrue
  BY DEF IInv, ResultsTrue, RequestTrue, CardsTrue, SaysUpTo, SaysTrue, StatusIsTrue, ToldUpTo
<1> QED
  BY <1>1, Invariance, PTL

\* The tables are well typed, and an unclaimed request has exactly one pair of buttons, which
\* shows its turn; a settled one has none.
THEOREM ButtonsAreRight == Spec => []ButtonsInv
<1>1. ASSUME IInv
      PROVE  ButtonsInv
  <2>1. ButtonsFit /\ TypeOK
    BY <1>1 DEF IInv
  <2>2. ASSUME Pending, Idle
        PROVE  OnePair({"active"}) /\ InState({"claimed"}) = {}
    <3>1. PICK k \in DOMAIN pairs : Usable = {k}
      BY <2>1, <2>2 DEF ButtonsFit
    <3>2. pairs[k].status = "active"
      BY <2>1, <2>2, <3>1 DEF ButtonsFit
    <3>3. InState({"active"}) = {k} /\ InState({"claimed"}) = {}
      BY <3>1, <3>2 DEF Usable, InState
    <3> QED
      BY <3>3, FS_Singleton DEF OnePair
  <2>3. /\ ~Pending => InState({"active", "claimed"}) = {}
        /\ \A k \in InState({"active", "claimed"}) : pairs[k].turn = approval.turn
    BY <2>1 DEF ButtonsFit, Usable
  <2> QED
    BY <2>1, <2>2, <2>3 DEF ButtonsInv, ButtonsMatchRequest
<1> QED
  BY <1>1, Invariance, PTL

\* A settled request changes only when another turn replaces it.
THEOREM SettledStays == Spec => SettledIsFinal
<1> DEFINE Final == approval.status \notin {"absent", "pending"} /\ approval'.turn = approval.turn
                    => approval'.status = approval.status
<1>1. ASSUME IInv, [Next]_vars
      PROVE  [Final]_vars
  <2>0. SUFFICES ASSUME approval.status \notin {"absent", "pending"}, approval'.turn = approval.turn
                 PROVE  approval' = approval
    OBVIOUS
  <2>1. ~Pending /\ ~Expirable /\ ~Holds /\ ~Interrupted
    BY <2>0 DEF Pending, Expirable, Holds, Interrupted
  <2>2. CASE Codex
    BY <2>2 DEF Codex, Ask, Resolve, LoseSession, RegainSession, store
  <2>3. CASE HandleRequest
    <3>1. turn \in Turns /\ CreateMinimalApproval(turn)
      BY <1>1, <2>3 DEF HandleRequest, IInv, TypeOK, CodexOK
    <3>2. NewApproval(turn).turn = turn
      BY DEF NewApproval
    <3> QED
      BY <2>0, <2>1, <3>1, <3>2 DEF CreateMinimalApproval, InsertApproval, ReplaceApproval,
         ReplaySettled, ReplayPending
  <2>4. CASE DropRequest \/ HandleResolved \/ ExpireForSession
    BY <2>1, <2>4 DEF DropRequest, HandleResolved, ExpireForSession, store
  <2>5. CASE Delivery
    BY <2>1, <2>5 DEF Delivery, ClaimRow, BeginSend, Send, FailDelivery, CompleteDelivery,
       CompletionRefused, Cleanup, DeliverEdit, Completable, store
  <2>6. CASE Callback
    <3>1. ~Exact(callback.pair)
      BY <2>1 DEF Exact
    <3> QED
      BY <2>1, <2>6, <3>1 DEF Callback, Press, ClaimApproval, RestoreClaim, Respond, Finish,
         FinishFails, FinishLost, CancelClaim, CancelFails, ReadLost, ReadCard, ShowResult, Unstored, store
  <2>7. CASE Restart
    BY <2>1, <2>7 DEF Restart, RecoverClaims
  <2>8. CASE UNCHANGED vars
    BY <2>8 DEF vars
  <2> QED
    BY <1>1, <2>2, <2>3, <2>4, <2>5, <2>6, <2>7, <2>8 DEF Next, EventLoop
<1> QED
  BY <1>1, Invariance, PTL DEF Spec, SettledIsFinal

=============================================================================
