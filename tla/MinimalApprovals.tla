-------------------------- MODULE MinimalApprovals --------------------------
(***************************************************************************)
(* Telegram approval of one Codex request (one request_id of                *)
(* minimal_approvals) in the minimal profile.                               *)
(*                                                                         *)
(* Codex asks for permission; the event loop stores the request with a pair *)
(* of buttons (approve and deny tokens) and a queue row; the delivery loop  *)
(* sends the card; the user presses a button; the callback handler claims   *)
(* the request, answers Codex through the session it came from, and stores  *)
(* the result. Each transaction is one step, so the three goroutines, the   *)
(* release of a worker, a lost session and a process death interleave       *)
(* between any two of them. Only the delivery loop and the handler of       *)
(* serverRequest/resolved take minimalApprovalMu.                           *)
(*                                                                         *)
(* A request id can come again: as an exact replay (same turn), or for a    *)
(* later turn, which replaces the stored request. Both tokens of a pair     *)
(* always change together, so a pair has one status. The notice that asks   *)
(* the user to decide on the PC and its cleanup are not part of the model.  *)
(***************************************************************************)
EXTENDS Naturals, Sequences, FiniteSets

CONSTANTS
  MaxTurns,     \* bound: turns that may ask under this request id
  MaxSessions,  \* bound: generations of the session, process restarts included
  MaxEvents,    \* bound: events the session delivers
  MaxPairs,     \* bound: button pairs stored
  MaxCards,     \* bound: cards that Telegram accepts
  MaxAttempts,  \* DeliveryMaxAttempts
  MaxFaults     \* bound: failed transactions and broken pipes

ASSUME ApprovalBounds ==
  {MaxTurns, MaxSessions, MaxEvents, MaxPairs, MaxCards, MaxAttempts} \subseteq Nat \ {0} /\ MaxFaults \in Nat

VARIABLES
  origin,    \* "live" or "worker": the kind of session the request came through
  session,   \* generation of the current session
  alive,     \* is that session registered and connected?
  turn,      \* latest turn of the conversation
  asked,     \* Client.serverRequests[request_id]: the turn it belongs to, 0 if absent
  inbox,     \* events read from the session and not yet handled
  events,    \* events delivered so far
  approval,  \* the minimal_approvals row
  pairs,     \* minimal_approval_routes, one entry for each pair
  rows,      \* the delivery_queue row of each turn's card
  edits,     \* delivery_queue rows of kind minimal_approval_inactive_edit
  cards,     \* Telegram: the accepted cards, in message-id order
  sender,    \* processMinimalApprovalDelivery
  callback,  \* handleMinimalApprovalCallback
  started,   \* FALSE when newWithStore refuses to start
  faults,
  told       \* Codex: the decisions received for each turn, with the turn the card showed

codex == <<origin, turn, asked, inbox, events, told>>
store == <<approval, pairs, rows, edits>>
vars == <<origin, session, alive, turn, asked, inbox, events, approval, pairs, rows, edits,
          cards, sender, callback, started, faults, told>>

Turns == 1..MaxTurns
Actions == {"approve", "deny"}
Waiting == {"pending", "retry", "processing"}
NoApproval == [turn |-> 0, session |-> 0, status |-> "absent", claim |-> "idle", message |-> 0]
NoRow == [status |-> "absent", attempts |-> 0, error |-> "", pair |-> 0]
NoSend == [pc |-> "idle", turn |-> 0, pair |-> 0, attempts |-> 0, error |-> "", message |-> 0]
NoCallback == [pc |-> "idle", pair |-> 0, action |-> "", message |-> 0, session |-> 0, outcome |-> ""]

Fault == faults < MaxFaults /\ faults' = faults + 1

-----------------------------------------------------------------------------
(* Tables. *)

InState(states) == {k \in DOMAIN pairs : pairs[k].status \in states}
\* "... WHERE status IN (from)" on the routes of the request.
SetPairs(from, to) ==
  [k \in DOMAIN pairs |-> IF pairs[k].status \in from THEN [pairs[k] EXCEPT !.status = to] ELSE pairs[k]]
\* "want 2": the statement must have changed exactly one pair.
OnePair(states) == Cardinality(InState(states)) = 1

Pending == approval.status = "pending"
Idle == approval.claim = "idle"

\* "UPDATE delivery_queue SET status='dead',payload_json=NULL ... WHERE status IN (...)".
KillRow(t) ==
  [rows EXCEPT ![t] = IF t # 0 /\ @.status \in Waiting THEN [@ EXCEPT !.status = "dead", !.pair = 0] ELSE @]
KillCurrentRow == IF approval.turn = 0 THEN rows ELSE KillRow(approval.turn)

\* enqueueMinimalApprovalInactiveEditTx: one edit for each turn and session.
EnqueueInactiveEdit(text) ==
  IF \E e \in edits : e.turn = approval.turn /\ e.session = approval.session
  THEN edits
  ELSE edits \cup {[turn |-> approval.turn, session |-> approval.session,
                    message |-> approval.message, text |-> text, done |-> FALSE]}

\* editMinimalApprovalTarget: the edit reaches Telegram or fails.
EditCard(m, text) ==
  \/ cards' = (IF m = 0 THEN cards ELSE [cards EXCEPT ![m].text = text]) /\ UNCHANGED faults
  \/ m # 0 /\ UNCHANGED cards /\ Fault

-----------------------------------------------------------------------------
Init ==
  /\ origin \in {"live", "worker"}
  /\ session = 1 /\ alive = TRUE
  /\ turn = 1 /\ asked = 0 /\ inbox = <<>> /\ events = 0
  /\ approval = NoApproval /\ pairs = <<>>
  /\ rows = [t \in Turns |-> NoRow] /\ edits = {}
  /\ cards = <<>> /\ sender = NoSend /\ callback = NoCallback
  /\ started = TRUE /\ faults = 0
  /\ told = [t \in Turns |-> <<>>]

-----------------------------------------------------------------------------
(* Codex and its session. *)

\* Codex asks, or asks again, for the latest turn or for the one it starts with.
\* The client registers the request and publishes the event.
Ask(t) ==
  /\ alive /\ events < MaxEvents /\ told[t] = <<>>
  /\ t \in {turn, turn + 1} /\ turn' = t
  /\ asked' = t
  /\ inbox' = Append(inbox, [kind |-> "request", turn |-> t])
  /\ events' = events + 1
  /\ UNCHANGED <<origin, session, alive, store, cards, sender, callback, started, faults, told>>

\* The request is over for Codex: answered, withdrawn or decided on the PC.
Resolve ==
  /\ alive /\ events < MaxEvents
  /\ asked # 0 \/ told[turn] # <<>>
  /\ asked' = 0
  /\ inbox' = Append(inbox, [kind |-> "resolved", turn |-> turn])
  /\ events' = events + 1
  /\ UNCHANGED <<origin, session, alive, turn, store, cards, sender, callback, started, faults, told>>

\* The App Server process ends, or the worker is closed after its turn: the
\* client forgets its requests and the event loop its events.
LoseSession ==
  /\ alive /\ started
  /\ alive' = FALSE /\ asked' = 0 /\ inbox' = <<>>
  /\ UNCHANGED <<origin, session, turn, events, store, cards, sender, callback, started, faults, told>>

\* The live session is replaced under the next generation. A worker's request
\* ids carry its identity, so a later worker never has this request id.
RegainSession ==
  /\ origin = "live" /\ ~alive /\ started /\ session < MaxSessions
  /\ session' = session + 1 /\ alive' = TRUE
  /\ UNCHANGED <<codex, store, cards, sender, callback, started, faults>>

-----------------------------------------------------------------------------
(* The event loop. *)

NewPair(t) == [turn |-> t, status |-> "active", message |-> 0]
NewRow(k) == [status |-> "pending", attempts |-> 0, error |-> "", pair |-> k]
NewApproval(t) == [turn |-> t, session |-> session, status |-> "pending", claim |-> "idle", message |-> 0]

\* The first request under this id.
InsertApproval(t) ==
  /\ approval.status = "absent"
  /\ approval' = NewApproval(t)
  /\ pairs' = Append(pairs, NewPair(t))
  /\ rows' = [rows EXCEPT ![t] = NewRow(Len(pairs) + 1)]
  /\ UNCHANGED edits

ReplaceKeepingClaimed(t) ==
  /\ approval.status # "absent" /\ approval.turn # t
  /\ edits' = IF approval.message > 0 THEN EnqueueInactiveEdit("inactive") ELSE edits
  /\ approval' = NewApproval(t)
  /\ pairs' = Append(IF Pending THEN SetPairs({"active"}, "expired") ELSE pairs, NewPair(t))
  /\ rows' = [KillCurrentRow EXCEPT ![t] = NewRow(Len(pairs) + 1)]

\* The id comes back for another turn: the stored request is replaced.
ReplaceApproval(t) ==
  /\ approval.status # "absent" /\ approval.turn # t
  /\ Pending => OnePair({"active", "claimed"})
  /\ edits' = IF approval.message > 0 THEN EnqueueInactiveEdit("inactive") ELSE edits
  /\ approval' = NewApproval(t)
  /\ pairs' = Append(IF Pending THEN SetPairs({"active", "claimed"}, "expired") ELSE pairs, NewPair(t))
  /\ rows' = [KillCurrentRow EXCEPT ![t] = NewRow(Len(pairs) + 1)]

\* The same request again after it was settled.
ReplaySettled(t) ==
  /\ approval.turn = t /\ ~Pending
  /\ rows' = KillRow(t)
  /\ UNCHANGED <<approval, pairs, edits>>

\* rearmMinimalApprovalDeliveryIfDeadTx: when must the card be sent again?
Rearmable(t) == rows[t].status = "dead" /\ rows[t].error = "unsent"

\* The same request again while it is pending.
ReplayPending(t) ==
  /\ approval.turn = t /\ Pending
  /\ Rearmable(t) => OnePair({"active", "claimed"})
  /\ approval' = [approval EXCEPT !.session = session]
  /\ IF Rearmable(t)
     THEN /\ pairs' = Append(SetPairs({"active", "claimed"}, "expired"), NewPair(t))
          /\ rows' = [rows EXCEPT ![t] = NewRow(Len(pairs) + 1)]
     ELSE UNCHANGED <<pairs, rows>>
  /\ UNCHANGED edits

CreateMinimalApproval(t) ==
  \/ InsertApproval(t) \/ ReplaceApproval(t) \/ ReplaySettled(t) \/ ReplayPending(t)

\* An event is handled only while its session is the current one.
Event(kind) == started /\ inbox # <<>> /\ Head(inbox).kind = kind

\* A request is stored when the conversation can be read and its turn is still
\* the latest one.
HandleRequest ==
  /\ Event("request") /\ Len(pairs) < MaxPairs
  /\ Head(inbox).turn = turn
  /\ CreateMinimalApproval(turn)
  /\ inbox' = Tail(inbox)
  /\ UNCHANGED <<origin, session, alive, turn, asked, events, cards, sender, callback, started, faults, told>>

\* The read fails, the turn is not the latest one any more, or the
\* transaction fails.
DropRequest ==
  /\ Event("request")
  /\ inbox' = Tail(inbox)
  /\ (Head(inbox).turn # turn /\ UNCHANGED faults) \/ Fault
  /\ UNCHANGED <<origin, session, alive, turn, asked, events, store, cards, sender, callback, started, told>>

\* minimalApprovalMu
MutexFree == sender.pc \in {"idle", "claimed"}

\* Is there something to expire: ExpireMinimalApproval and
\* ExpireMinimalApprovalForSession leave a claimed request alone.
Expirable == Pending /\ Idle /\ OnePair({"active"})
Expire ==
  /\ approval' = [approval EXCEPT !.status = "expired"]
  /\ pairs' = SetPairs({"active"}, "expired")
  /\ rows' = KillCurrentRow

HandleResolved ==
  /\ Event("resolved") /\ MutexFree
  /\ inbox' = Tail(inbox)
  /\ IF approval.session = session /\ Expirable
     THEN Expire /\ EditCard(approval.message, "inactive")
     ELSE UNCHANGED <<approval, pairs, rows, cards, faults>>
  /\ UNCHANGED <<origin, session, alive, turn, asked, events, edits, sender, callback, started, told>>

ExpireSettledToo ==
  /\ started /\ origin = "worker" /\ ~alive
  /\ approval.status # "absent" /\ approval.session = session
  /\ approval' = [approval EXCEPT !.status = "expired", !.claim = "idle"]
  /\ pairs' = SetPairs({"active", "claimed"}, "expired")
  /\ rows' = KillCurrentRow
  /\ UNCHANGED <<session, alive, codex, edits, cards, sender, callback, started, faults>>

\* The release of a worker expires what is pending under its identity, claimed
\* or not, without the mutex.
ExpireForSession ==
  /\ started /\ origin = "worker" /\ ~alive
  /\ Pending /\ approval.session = session
  /\ approval' = [approval EXCEPT !.status = "expired", !.claim = "idle"]
  /\ pairs' = SetPairs({"active", "claimed"}, "expired")
  /\ rows' = KillCurrentRow
  /\ UNCHANGED <<session, alive, codex, edits, cards, sender, callback, started, faults>>

-----------------------------------------------------------------------------
(* The delivery loop. *)

\* ClaimDeliveryBatch; a row without payload cannot be claimed.
ClaimRow(t) ==
  /\ started /\ sender.pc = "idle"
  /\ rows[t].status \in {"pending", "retry"} /\ rows[t].pair # 0
  /\ rows' = [rows EXCEPT ![t].status = "processing"]
  /\ sender' = [NoSend EXCEPT !.pc = "claimed", !.turn = t, !.pair = rows[t].pair, !.attempts = rows[t].attempts]
  /\ UNCHANGED <<session, alive, codex, approval, pairs, edits, cards, callback, started, faults>>

\* MinimalApprovalDeliveryActive
DeliveryActive(t) == approval.turn = t /\ Pending /\ Idle /\ rows[t].status = "processing"

\* The mutex is taken; a card that is not wanted any more is not sent.
BeginSend ==
  /\ sender.pc = "claimed"
  /\ sender' = IF DeliveryActive(sender.turn) THEN [sender EXCEPT !.pc = "sending"] ELSE NoSend
  /\ UNCHANGED <<session, alive, codex, store, cards, callback, started, faults>>

Delivered(pc, error) ==
  /\ Len(cards) < MaxCards
  /\ cards' = Append(cards, [pair |-> sender.pair, text |-> "buttons"])
  /\ sender' = [sender EXCEPT !.pc = pc, !.error = error, !.message = Len(cards) + 1]

\* Telegram accepts the card, accepts it and loses the answer, refuses it with a
\* 4xx status, or fails in a way that says nothing.
Send ==
  /\ sender.pc = "sending"
  /\ \/ Delivered("accepted", "")
     \/ Delivered("failed", "unknown")
     \/ \E e \in {"unsent", "unknown"} : UNCHANGED cards /\ sender' = [sender EXCEPT !.pc = "failed", !.error = e]
  /\ UNCHANGED <<session, alive, codex, store, callback, started, faults>>

\* FailDelivery does not look at the row's status.
FailedRow(row, error, dead) ==
  [status |-> IF dead THEN "dead" ELSE "retry", attempts |-> sender.attempts + 1,
   error |-> error, pair |-> IF dead THEN 0 ELSE row.pair]
FailDelivery ==
  /\ sender.pc = "failed"
  /\ rows' = [rows EXCEPT ![sender.turn] = FailedRow(@, sender.error, sender.attempts + 1 >= MaxAttempts)]
  /\ sender' = NoSend
  /\ UNCHANGED <<session, alive, codex, approval, pairs, edits, cards, callback, started, faults>>

\* CompleteMinimalApprovalDelivery binds the card's message to the request.
Completable ==
  /\ approval.turn = sender.turn /\ Pending
  /\ rows[sender.turn].status = "processing" /\ OnePair({"active"})
CompleteDelivery ==
  /\ sender.pc = "accepted" /\ Completable
  /\ approval' = [approval EXCEPT !.message = sender.message]
  /\ pairs' = [k \in DOMAIN pairs |->
                 IF pairs[k].status = "active" THEN [pairs[k] EXCEPT !.message = sender.message] ELSE pairs[k]]
  /\ rows' = [rows EXCEPT ![sender.turn].status = "delivered", ![sender.turn].pair = 0]
  /\ sender' = NoSend
  /\ UNCHANGED <<session, alive, codex, edits, cards, callback, started, faults>>

CompletionRefused ==
  /\ sender.pc = "accepted"
  /\ (~Completable /\ UNCHANGED faults) \/ Fault
  /\ sender' = [sender EXCEPT !.pc = "cleanup"]
  /\ UNCHANGED <<session, alive, codex, store, cards, callback, started>>

\* The card cannot be bound: expire the request, disarm the card, give up.
Cleanup ==
  /\ sender.pc = "cleanup"
  /\ LET expired == IF Expirable THEN KillCurrentRow ELSE rows IN
       rows' = [expired EXCEPT ![sender.turn] = FailedRow(@, "persist", TRUE)]
  /\ IF Expirable
     THEN /\ approval' = [approval EXCEPT !.status = "expired"]
          /\ pairs' = SetPairs({"active"}, "expired")
     ELSE UNCHANGED <<approval, pairs>>
  /\ EditCard(sender.message, "inactive")
  /\ sender' = NoSend
  /\ UNCHANGED <<session, alive, codex, edits, callback, started>>

\* processMinimalApprovalInactiveEdit: done, or given up after the last attempt.
DeliverEdit ==
  /\ started /\ sender.pc = "idle"
  /\ \E e \in edits :
       /\ ~e.done
       /\ edits' = (edits \ {e}) \cup {[e EXCEPT !.done = TRUE]}
       /\ EditCard(e.message, e.text)
  /\ UNCHANGED <<session, alive, codex, approval, pairs, rows, sender, callback, started>>

-----------------------------------------------------------------------------
(* The callback handler; the bot handles one update at a time. *)

\* A button of any card is pressed, however old. The handler reads the route and
\* the session of its request; a route that is not active ends it.
Press(m, action) ==
  /\ started /\ callback.pc = "idle"
  /\ LET k == cards[m].pair IN
       /\ pairs[k].status = "active"
       /\ callback' = [NoCallback EXCEPT !.pc = "routed", !.pair = k, !.action = action,
                                         !.message = m, !.session = approval.session]
  /\ UNCHANGED <<session, alive, codex, store, cards, sender, started, faults>>

\* ClaimMinimalApproval: everything must match; a card whose message was never
\* stored binds itself.
Unbound(k) == pairs[k].message = 0 /\ approval.message = 0
Exact(k) ==
  /\ approval.session = callback.session
  /\ pairs[k].status = "active" /\ Pending /\ Idle
  /\ \/ pairs[k].message = callback.message /\ approval.message = callback.message
     \/ Unbound(k)
  /\ pairs[k].turn = approval.turn
ClaimApproval ==
  /\ callback.pc = "routed"
  /\ IF Exact(callback.pair) /\ OnePair({"active"})
     THEN /\ approval' = [approval EXCEPT !.claim = callback.action, !.message = callback.message]
          /\ pairs' = [k \in DOMAIN pairs |->
                         IF pairs[k].status = "active"
                         THEN [pairs[k] EXCEPT !.status = "claimed", !.message = callback.message]
                         ELSE pairs[k]]
          /\ callback' = [callback EXCEPT !.pc = "claimed"]
     ELSE callback' = NoCallback /\ UNCHANGED <<approval, pairs>>
  /\ UNCHANGED <<session, alive, codex, rows, edits, cards, sender, started, faults>>

\* Does the callback still hold the claim?
Holds == Pending /\ approval.claim = callback.action

\* RestoreMinimalApprovalClaim: the session is gone or not the one that asked.
RestoreClaim ==
  /\ callback.pc = "claimed"
  /\ ~alive \/ callback.session # session
  /\ IF Holds /\ OnePair({"claimed"})
     THEN /\ approval' = [approval EXCEPT !.claim = "idle"]
          /\ pairs' = SetPairs({"claimed"}, "active")
     ELSE UNCHANGED <<approval, pairs>>
  /\ callback' = NoCallback
  /\ UNCHANGED <<session, alive, codex, rows, edits, cards, sender, started, faults>>

\* RespondServerRequestExact: the answer is written; or the request is not
\* registered; or it is another turn's; or the pipe breaks, and Codex may or
\* may not have read the answer.
CallbackTurn == pairs[callback.pair].turn
Outcome(o) == callback' = [callback EXCEPT !.pc = "answered", !.outcome = o]
Tell == told' = [told EXCEPT ![asked] = Append(@, [action |-> callback.action, shown |-> CallbackTurn])]
AnswerAnyTurn ==
  /\ asked # 0
  /\ Tell /\ asked' = 0
  /\ Outcome(IF callback.action = "deny" THEN "denied" ELSE "approved")
  /\ UNCHANGED faults

Answer ==
  /\ asked = CallbackTurn
  /\ Tell /\ asked' = 0
  /\ Outcome(IF callback.action = "deny" THEN "denied" ELSE "approved")
  /\ UNCHANGED faults
NotRegistered == asked = 0 /\ Outcome("expired") /\ UNCHANGED <<asked, told, faults>>
OtherTurn == asked \notin {0, CallbackTurn} /\ Outcome("cancelled") /\ UNCHANGED <<asked, told, faults>>
BrokenPipeTrusted ==
  /\ asked = CallbackTurn /\ Fault
  /\ Tell \/ UNCHANGED told
  /\ Outcome(IF callback.action = "deny" THEN "denied" ELSE "approved") /\ UNCHANGED asked

BrokenPipe ==
  /\ asked = CallbackTurn /\ Fault
  /\ Tell \/ UNCHANGED told
  /\ Outcome("cancelled") /\ UNCHANGED asked
Respond ==
  /\ callback.pc = "claimed" /\ alive /\ callback.session = session
  /\ Answer \/ NotRegistered \/ OtherTurn \/ BrokenPipe
  /\ UNCHANGED <<origin, turn, inbox, events, session, alive, store, cards, sender, started>>

\* FinishMinimalApprovalClaim. What follows is not part of the transaction: the
\* card is edited later, and the result of a decision goes to the message that
\* the request's row names by then.
FinishClaim(status) ==
  /\ approval' = [approval EXCEPT !.status = status, !.claim = "idle"]
  /\ pairs' = SetPairs({"claimed"}, "consumed")

Decided == callback.outcome \in {"approved", "denied"}
Then(pc) == callback' = [callback EXCEPT !.pc = pc]
Unstored == UNCHANGED <<session, alive, codex, store, cards, sender, started>>

\* The claim is finished with the outcome.
Finish ==
  /\ callback.pc = "answered" /\ Holds /\ OnePair({"claimed"})
  /\ FinishClaim(callback.outcome)
  /\ Then(IF Decided THEN "edit" ELSE "show")
  /\ UNCHANGED <<session, alive, codex, rows, edits, cards, sender, started, faults>>

\* The transaction fails: a decision is cancelled next, and any other outcome is
\* only shown, while the claim stays.
FinishFails ==
  /\ callback.pc = "answered"
  /\ (Holds /\ ~OnePair({"claimed"}) /\ UNCHANGED faults) \/ Fault
  /\ Then(IF Decided THEN "unstored" ELSE "show")
  /\ Unstored

\* The claim is gone: nothing is stored.
FinishLost ==
  /\ callback.pc = "answered" /\ ~Holds
  /\ Then(IF Decided THEN "lost" ELSE "show")
  /\ Unstored /\ UNCHANGED faults

\* CancelMinimalApprovalClaimWithInactiveEdit leaves the edit to the queue;
\* without the claim, or when it fails too, the handler edits itself.
CancelClaim ==
  /\ callback.pc = "unstored" /\ Holds /\ OnePair({"claimed"})
  /\ FinishClaim("cancelled")
  /\ edits' = EnqueueInactiveEdit(callback.outcome)
  /\ callback' = NoCallback
  /\ UNCHANGED <<session, alive, codex, rows, cards, sender, started, faults>>

CancelFails ==
  /\ callback.pc = "unstored"
  /\ (~(Holds /\ OnePair({"claimed"})) /\ UNCHANGED faults) \/ Fault
  /\ Then("edit")
  /\ Unstored

\* A decision whose claim was gone is shown as inactive when the request has
\* expired, and not at all otherwise.
ReadLost ==
  /\ callback.pc = "lost"
  /\ callback' = IF approval.status = "expired"
                 THEN [callback EXCEPT !.pc = "edit", !.outcome = "expired"]
                 ELSE NoCallback
  /\ Unstored /\ UNCHANGED faults

\* editMinimalApprovalMessage reads the row again, then edits.
ReadCard ==
  /\ callback.pc = "edit"
  /\ callback' = IF approval.message = 0 THEN NoCallback
                 ELSE [callback EXCEPT !.pc = "show", !.message = approval.message]
  /\ Unstored /\ UNCHANGED faults

ShowResult ==
  /\ callback.pc = "show"
  /\ EditCard(callback.message, IF callback.outcome = "expired" THEN "inactive" ELSE callback.outcome)
  /\ callback' = NoCallback
  /\ UNCHANGED <<session, alive, codex, store, sender, started>>

-----------------------------------------------------------------------------
\* RecoverMinimalApprovalClaims: what Codex was told is unknown, so the claim is
\* cancelled; an error stops the start.
Interrupted == Pending /\ ~Idle
RecoverRestoring ==
  /\ started' = TRUE
  /\ IF Interrupted
     THEN approval' = [approval EXCEPT !.claim = "idle"] /\ pairs' = SetPairs({"claimed"}, "active")
     ELSE UNCHANGED <<approval, pairs>>
  /\ UNCHANGED edits
RecoverClaims ==
  /\ started' = (Interrupted => OnePair({"claimed"}))
  /\ IF Interrupted /\ OnePair({"claimed"})
     THEN FinishClaim("cancelled") /\ edits' = EnqueueInactiveEdit("cancelled")
     ELSE UNCHANGED <<approval, pairs, edits>>

\* The process dies and starts again: open gives up the card that was being sent,
\* and newWithStore recovers the claims.
Restart ==
  /\ started /\ session < MaxSessions
  /\ session' = session + 1 /\ alive' = (origin = "live")
  /\ asked' = 0 /\ inbox' = <<>>
  /\ sender' = NoSend /\ callback' = NoCallback
  /\ rows' = [t \in Turns |->
                IF rows[t].status = "processing" THEN [rows[t] EXCEPT !.status = "dead", !.pair = 0] ELSE rows[t]]
  /\ RecoverClaims
  /\ UNCHANGED <<origin, turn, events, cards, faults, told>>

Codex == (\E t \in Turns : Ask(t)) \/ Resolve \/ LoseSession \/ RegainSession
EventLoop == HandleRequest \/ DropRequest \/ HandleResolved \/ ExpireForSession
Delivery ==
  \/ \E t \in Turns : ClaimRow(t)
  \/ BeginSend \/ Send \/ FailDelivery \/ CompleteDelivery \/ CompletionRefused \/ Cleanup \/ DeliverEdit
Callback ==
  \/ \E m \in DOMAIN cards, action \in Actions : Press(m, action)
  \/ ClaimApproval \/ RestoreClaim \/ Respond \/ Finish \/ FinishFails \/ FinishLost
  \/ CancelClaim \/ CancelFails \/ ReadLost \/ ReadCard \/ ShowResult

Next == Codex \/ EventLoop \/ Delivery \/ Callback \/ Restart
Spec == Init /\ [][Next]_vars
-----------------------------------------------------------------------------
(* Properties. *)

PairStates == {"active", "claimed", "consumed", "expired"}
Texts == {"buttons", "approved", "denied", "inactive", "cancelled"}
Errors == {"", "unsent", "unknown", "persist"}
ApprovalStates == {"absent", "pending", "approved", "denied", "cancelled", "expired"}
Approvals == [turn : 0..MaxTurns, session : 0..MaxSessions, status : ApprovalStates,
              claim : {"idle"} \cup Actions, message : Nat]
Pairs == [turn : Turns, status : PairStates, message : Nat]
Rows == [status : Waiting \cup {"absent", "dead", "delivered"}, attempts : 0..MaxAttempts,
         error : Errors, pair : Nat]
Edits == [turn : 0..MaxTurns, session : 0..MaxSessions, message : Nat, text : Texts, done : BOOLEAN]
Cards == [pair : Nat, text : Texts]
Sends == [pc : {"idle", "claimed", "sending", "accepted", "failed", "cleanup"}, turn : 0..MaxTurns,
          pair : Nat, attempts : 0..MaxAttempts, error : Errors, message : Nat]
Outcomes == {"approved", "denied", "cancelled", "expired"}
Callbacks == [pc : {"idle", "routed", "claimed", "answered", "unstored", "lost", "edit", "show"}, pair : Nat, action : {""} \cup Actions,
              message : Nat, session : 0..MaxSessions,
              outcome : {""} \cup Outcomes]

CodexOK ==
  /\ origin \in {"live", "worker"} /\ turn \in Turns /\ asked \in 0..MaxTurns
  /\ inbox \in Seq([kind : {"request", "resolved"}, turn : Turns]) /\ events \in 0..MaxEvents
  /\ told \in [Turns -> Seq([action : Actions, shown : Turns])]

SessionOK ==
  session \in 1..MaxSessions /\ alive \in BOOLEAN /\ started \in BOOLEAN /\ faults \in 0..MaxFaults

StoreOK ==
  /\ approval \in Approvals /\ pairs \in Seq(Pairs)
  /\ rows \in [Turns -> Rows] /\ edits \subseteq Edits

BotOK == cards \in Seq(Cards) /\ sender \in Sends /\ callback \in Callbacks

\* Every variable keeps its type, and messages and buttons exist.
TypeOK ==
  /\ CodexOK /\ SessionOK /\ StoreOK /\ BotOK
  /\ approval.message \in 0..Len(cards)
  /\ \A m \in DOMAIN cards : cards[m].pair \in DOMAIN pairs

\* Codex hears at most one decision for a turn, and from a card that showed this
\* very turn: no retry, replay, replacement, restart or stale card answers twice
\* or for another request.
AnsweredOnceByItsCard ==
  \A t \in Turns : Len(told[t]) <= 1 /\ \A i \in DOMAIN told[t] : told[t][i].shown = t

Told(t, action) == \E i \in DOMAIN told[t] : told[t][i].action = action

ToldUpTo(t, action) == \E u \in 1..t : Told(u, action)

\* "approved" and "denied" are stored only for a decision that Codex has received
\* for that turn, and shown on a card only for one it has received for the card's
\* turn or, when the request was replaced before the handler read its row again,
\* for an earlier turn of the same request id.
StatusIsTrue ==
  /\ approval.status = "approved" => Told(approval.turn, "approve")
  /\ approval.status = "denied" => Told(approval.turn, "deny")
  /\ \A m \in DOMAIN cards :
       /\ cards[m].text = "approved" => ToldUpTo(pairs[cards[m].pair].turn, "approve")
       /\ cards[m].text = "denied" => ToldUpTo(pairs[cards[m].pair].turn, "deny")

\* A request can be claimed through exactly one pair of buttons, which belongs
\* to its turn; a settled request has none.
ButtonsMatchRequest ==
  /\ Pending /\ Idle => OnePair({"active"}) /\ InState({"claimed"}) = {}
  /\ ~Pending => InState({"active", "claimed"}) = {}
  /\ \A k \in InState({"active", "claimed"}) : pairs[k].turn = approval.turn

\* The tables are well typed, and the buttons match the request.
ButtonsInv == TypeOK /\ ButtonsMatchRequest

\* Once Codex may have been told, nobody can press again: the claim stays taken
\* until the request is settled, also across a crash or a broken pipe.
ToldIsSpent ==
  Pending /\ Idle => told[approval.turn] = <<>>

\* A settled request changes only when another turn replaces it: the resolved
\* event, the release and the callback do not override one another.
SettledIsFinal ==
  [][approval.status \notin {"absent", "pending"} /\ approval'.turn = approval.turn
       => approval'.status = approval.status]_vars

=============================================================================
