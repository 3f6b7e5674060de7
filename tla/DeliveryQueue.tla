--------------------------- MODULE DeliveryQueue ----------------------------
(***************************************************************************)
(* The durable Telegram outbox: the delivery_queue and terminal_events      *)
(* tables, the single deliveryLoop goroutine that drains them               *)
(* (processDeliveryBatch), and what a process restart does to them.         *)
(*                                                                         *)
(* A terminal event owns one or more parts (one Telegram message each) that *)
(* must arrive in order. The loop claims a batch, sends each row, and       *)
(* stores the outcome in a transaction of its own; Telegram may accept a    *)
(* message and lose the answer, the transaction may fail, and the process   *)
(* may die anywhere in between. Approval rows can also be killed by the     *)
(* expiry of their request, in another goroutine, at any time.              *)
(*                                                                         *)
(* Payload contents, chats and message ids are abstracted; a back-off is a  *)
(* delay that elapses, so its length is not modelled.                      *)
(***************************************************************************)
EXTENDS Integers, FiniteSets

CONSTANTS
  Items,        \* rows of delivery_queue, numbered by their AUTOINCREMENT id
  Groups,       \* terminal_key of the terminal events
  GroupOf,      \* the row's group_id, or NoGroup
  SeqNo,        \* the row's sequence_no
  KindOf,       \* "notifier_terminal", "terminal", "observer" or "minimal_approval"
  NoGroup,
  Protected,    \* is the store opened with a protector (minimal, notifier)?
  ClaimLimit,   \* rows claimed per batch
  MaxAttempts,  \* DeliveryMaxAttempts
  StoreFaults,  \* bound: failed outcome transactions
  MaxRestarts   \* bound: process deaths

ASSUME LayoutAssumption ==
  /\ Items \subseteq Nat
  /\ NoGroup \notin Groups
  /\ GroupOf \in [Items -> Groups \cup {NoGroup}]
  /\ SeqNo \in [Items -> Nat]
  /\ KindOf \in [Items -> {"notifier_terminal", "terminal", "observer", "minimal_approval"}]
ASSUME DistinctPartsAssumption ==
  \A i, j \in Items :
    (i # j /\ GroupOf[i] = GroupOf[j] /\ GroupOf[i] # NoGroup) => SeqNo[i] # SeqNo[j]
ASSUME KindAssumption ==
  \A i \in Items :
    /\ GroupOf[i] = NoGroup <=> KindOf[i] \in {"observer", "minimal_approval"}
    /\ \A j \in Items : (GroupOf[i] = GroupOf[j] /\ GroupOf[i] # NoGroup) => KindOf[i] = KindOf[j]
ASSUME BoundsAssumption ==
  /\ Protected \in BOOLEAN
  /\ ClaimLimit \in Nat \ {0} /\ MaxAttempts \in Nat \ {0}
  /\ StoreFaults \in Nat /\ MaxRestarts \in Nat

VARIABLES
  status,     \* delivery_queue.status; "absent" before the insert
  payload,    \* is payload_json non-NULL?
  retryCount, \* delivery_queue.retry_count
  available,  \* has available_at passed?
  event,      \* terminal_events.delivery_status; "absent" before the insert
  approval,   \* minimal_approvals.status of an approval row
  route,      \* does telegram_message_routes hold the row's message?
  migrated,   \* daemon_state notifier migration "done"
  sent,       \* Telegram: messages accepted for the row
  batch,      \* rows claimed by the running processDeliveryBatch
  stage,      \* progress on the first row of the batch
  restarts,   \* process deaths so far
  storeFaults \* failed outcome transactions so far

rowVars == <<status, payload, retryCount, available>>
tables == <<rowVars, event, approval, route, migrated>>
worker == <<batch, stage>>
vars == <<tables, sent, worker, restarts, storeFaults>>

-----------------------------------------------------------------------------
Live == {"pending", "retry", "processing"}

Part(i, g) == g # NoGroup /\ GroupOf[i] = g

IsApproval(i) == KindOf[i] = "minimal_approval"

\* j is an earlier part of the same event as i.
Earlier(j, i) == GroupOf[i] # NoGroup /\ GroupOf[j] = GroupOf[i] /\ SeqNo[j] < SeqNo[i]

\* sequence_no = sequence_count
IsLast(i) == GroupOf[i] # NoGroup /\ \A j \in Items : ~Earlier(i, j)

Init ==
  /\ status = [i \in Items |-> "absent"]
  /\ payload = [i \in Items |-> FALSE]
  /\ retryCount = [i \in Items |-> 0]
  /\ available = [i \in Items |-> TRUE]
  /\ event = [g \in Groups |-> "absent"]
  /\ approval = [i \in Items |-> "absent"]
  /\ route = [i \in Items |-> FALSE]
  /\ migrated = FALSE
  /\ sent = [i \in Items |-> 0]
  /\ batch = {} /\ stage = "claimed"
  /\ restarts = 0 /\ storeFaults = 0

-----------------------------------------------------------------------------
(***************************************************************************)
(* Enqueueing. Ids grow, so a row goes in after all rows with smaller ids.  *)
(***************************************************************************)

NextIds(I) == \A i \in I, j \in Items : j < i => (j \in I \/ status[j] # "absent")

\* EnqueueTerminalEvent: the event and all its parts in one transaction. It
\* needs a protector, and does nothing when the event is already there.
EnqueueTerminalEvent(g) ==
  /\ Protected
  /\ event[g] = "absent"
  /\ NextIds({i \in Items : Part(i, g)})
  /\ event' = [event EXCEPT ![g] = "pending"]
  /\ status' = [i \in Items |-> IF Part(i, g) THEN "pending" ELSE status[i]]
  /\ payload' = [i \in Items |-> IF Part(i, g) THEN TRUE ELSE payload[i]]
  /\ UNCHANGED <<retryCount, available, approval, route, migrated, sent, worker, restarts, storeFaults>>

\* EnqueueDelivery, or the row that CreateMinimalApproval inserts with its
\* request.
EnqueueDelivery(i) ==
  /\ GroupOf[i] = NoGroup
  /\ IsApproval(i) => Protected
  /\ status[i] = "absent"
  /\ NextIds({i})
  /\ status' = [status EXCEPT ![i] = "pending"]
  /\ payload' = [payload EXCEPT ![i] = TRUE]
  /\ approval' = [approval EXCEPT ![i] = IF IsApproval(i) THEN "pending" ELSE @]
  /\ UNCHANGED <<retryCount, available, event, route, migrated, sent, worker, restarts, storeFaults>>

\* The request of an approval row is over before it was answered
\* (expireMinimalApprovalsForSessionTx): a live row dies.
ExpireApproval(i) ==
  /\ approval[i] = "pending"
  /\ approval' = [approval EXCEPT ![i] = "expired"]
  /\ status' = [status EXCEPT ![i] = IF @ \in Live THEN "dead" ELSE @]
  /\ payload' = [payload EXCEPT ![i] = IF status[i] \in Live THEN FALSE ELSE @]
  /\ UNCHANGED <<retryCount, available, event, route, migrated, sent, worker, restarts, storeFaults>>

-----------------------------------------------------------------------------
(***************************************************************************)
(* processDeliveryBatch.                                                   *)
(***************************************************************************)

\* Mutant: a part does not wait for the earlier ones.
ClaimableOutOfOrder(i) == status[i] \in {"pending", "retry"} /\ available[i]

\* Mutant: a row that is already processing can be claimed again.
ClaimableInFlight(i) ==
  /\ status[i] \in Live
  /\ available[i]
  /\ \A j \in Items : Earlier(j, i) => status[j] = "delivered"

\* The WHERE clause of ClaimDeliveryBatch.
Claimable(i) ==
  /\ status[i] \in {"pending", "retry"}
  /\ available[i]
  /\ \A j \in Items : Earlier(j, i) => status[j] = "delivered"

\* ORDER BY id LIMIT ?
ClaimWindow ==
  {i \in Items : /\ Claimable(i)
                 /\ Cardinality({j \in Items : Claimable(j) /\ j < i}) < ClaimLimit}

\* Scanning a NULL payload fails, and with it the whole claim.
ClaimDeliveryBatch ==
  /\ batch = {}
  /\ ClaimWindow # {}
  /\ \A i \in ClaimWindow : payload[i]
  /\ status' = [i \in Items |-> IF i \in ClaimWindow THEN "processing" ELSE status[i]]
  /\ batch' = ClaimWindow
  /\ UNCHANGED <<payload, retryCount, available, event, approval, route, migrated,
                 sent, stage, restarts, storeFaults>>

AtHead(i) == i \in batch /\ \A j \in batch : i <= j

\* The next row of the batch is taken up.
Advance(i) == batch' = batch \ {i} /\ stage' = "claimed"

\* MinimalApprovalDeliveryActive
DeliveryActive(i) == IsApproval(i) => (approval[i] = "pending" /\ status[i] = "processing")

SkipInactive(i) ==
  /\ AtHead(i) /\ stage = "claimed"
  /\ ~DeliveryActive(i)
  /\ Advance(i)
  /\ UNCHANGED <<tables, sent, restarts, storeFaults>>

\* The Bot API call: accepted, accepted with a lost answer, or refused.
Send(i) ==
  /\ AtHead(i) /\ stage = "claimed"
  /\ DeliveryActive(i)
  /\ \/ sent' = [sent EXCEPT ![i] = @ + 1] /\ stage' \in {"sent", "failed"}
     \/ sent' = sent /\ stage' = "failed"
  /\ UNCHANGED <<tables, batch, restarts, storeFaults>>

\* Mutant: the delivery is stored without its reply route.
CompleteWithoutRoute(i) ==
  /\ AtHead(i) /\ stage = "sent"
  /\ DeliveryActive(i)
  /\ status' = [status EXCEPT ![i] = "delivered"]
  /\ payload' = [payload EXCEPT ![i] = IF Protected THEN FALSE ELSE @]
  /\ event' = [g \in Groups |-> IF Part(i, g) /\ IsLast(i) THEN "delivered" ELSE event[g]]
  /\ Advance(i)
  /\ UNCHANGED <<route, retryCount, available, approval, migrated, sent, restarts, storeFaults>>

\* completeDelivery, and CompleteMinimalApprovalDelivery for approval rows.
\* The code has two more branches that no row it writes can reach: a payload
\* that is not JSON (decode_error) and one without a thread (delivered, no
\* route). Every enqueuer marshals a DeliveryPayload that names its thread.
CompleteDelivery(i) ==
  /\ AtHead(i) /\ stage = "sent"
  /\ DeliveryActive(i)
  /\ status' = [status EXCEPT ![i] = "delivered"]
  /\ payload' = [payload EXCEPT ![i] = IF Protected THEN FALSE ELSE @]
  /\ route' = [route EXCEPT ![i] = TRUE]
  /\ event' = [g \in Groups |-> IF Part(i, g) /\ IsLast(i) THEN "delivered" ELSE event[g]]
  /\ Advance(i)
  /\ UNCHANGED <<retryCount, available, approval, migrated, sent, restarts, storeFaults>>

StoreFault == storeFaults < StoreFaults /\ storeFaults' = storeFaults + 1

\* The completing transaction fails: treated like a failed send.
CompletionFails(i) ==
  /\ AtHead(i) /\ stage = "sent"
  /\ ~IsApproval(i)
  /\ StoreFault
  /\ stage' = "failed"
  /\ UNCHANGED <<tables, sent, batch, restarts>>

\* Mutant: the other parts of the event stay in the queue.
KilledAlone(i) == {i}

\* Mutant: the whole group dies, delivered parts too.
KilledWithDelivered(i) == {j \in Items : j = i \/ Part(j, GroupOf[i])}

\* FailDelivery(dead): the row and the undelivered rest of its group die.
Killed(i) == {j \in Items : j = i \/ (Part(j, GroupOf[i]) /\ status[j] # "delivered")}

KillRow(i) ==
  /\ status' = [j \in Items |-> IF j \in Killed(i) THEN "dead" ELSE status[j]]
  /\ payload' = [j \in Items |-> IF j \in Killed(i)
                                   THEN payload[j] /\ ~Protected /\ j = i ELSE payload[j]]
  /\ event' = [g \in Groups |-> IF Part(i, g) THEN "dead" ELSE event[g]]

\* The message of an approval that expired during its send: the request is
\* expired, the message edited, and the row killed.
ApprovalGone(i) ==
  /\ AtHead(i) /\ stage = "sent"
  /\ IsApproval(i)
  /\ \/ ~DeliveryActive(i) /\ UNCHANGED storeFaults
     \/ StoreFault
  /\ KillRow(i)
  /\ retryCount' = [retryCount EXCEPT ![i] = @ + 1]
  /\ approval' = [approval EXCEPT ![i] = "expired"]
  /\ Advance(i)
  /\ UNCHANGED <<available, route, migrated, sent, restarts>>

\* Mutant: the text is erased with a retry.
FailErasing(i) ==
  /\ AtHead(i) /\ stage = "failed"
  /\ retryCount' = [retryCount EXCEPT ![i] = @ + 1]
  /\ IF retryCount[i] + 1 >= MaxAttempts
     THEN KillRow(i) /\ UNCHANGED available
     ELSE /\ status' = [status EXCEPT ![i] = "retry"]
          /\ available' = [available EXCEPT ![i] = FALSE]
          /\ payload' = [payload EXCEPT ![i] = FALSE]
          /\ UNCHANGED event
  /\ Advance(i)
  /\ UNCHANGED <<approval, route, migrated, sent, restarts, storeFaults>>

\* A failed attempt: FailDelivery reschedules the row, or kills it once the
\* attempts are used up. The update is not conditional on the row's status.
FailDelivery(i) ==
  /\ AtHead(i) /\ stage = "failed"
  /\ retryCount' = [retryCount EXCEPT ![i] = @ + 1]
  /\ IF retryCount[i] + 1 >= MaxAttempts
     THEN KillRow(i) /\ UNCHANGED available
     ELSE /\ status' = [status EXCEPT ![i] = "retry"]
          /\ available' = [available EXCEPT ![i] = FALSE]
          /\ UNCHANGED <<payload, event>>
  /\ Advance(i)
  /\ UNCHANGED <<approval, route, migrated, sent, restarts, storeFaults>>

\* The transaction of FailDelivery fails; its error is discarded.
FailureLost(i) ==
  /\ AtHead(i) /\ stage = "failed"
  /\ StoreFault
  /\ Advance(i)
  /\ UNCHANGED <<tables, sent, restarts>>

\* The back-off of a retry is over.
BackoffElapses(i) ==
  /\ ~available[i]
  /\ available' = [available EXCEPT ![i] = TRUE]
  /\ UNCHANGED <<status, payload, retryCount, event, approval, route, migrated,
                 sent, worker, restarts, storeFaults>>

-----------------------------------------------------------------------------
(***************************************************************************)
(* The process dies and the store is opened again.                         *)
(***************************************************************************)

\* Mutant: interrupted claims are not recovered.
RecoveredNever(i) == status[i]

\* migrateProtectedDeliveryPayloads: what an interrupted claim becomes. Rows
\* without a payload are not looked at.
Recovered(i) ==
  IF status[i] = "processing" /\ payload[i] /\ Protected
  THEN IF IsApproval(i) THEN "dead" ELSE "retry"
  ELSE status[i]

\* MigrateNotifierProfile: the first start in the notifier profile retires
\* every waiting row that is not a notifier notice, with its event.
Retired(i) == Recovered(i) \in {"pending", "retry"} /\ KindOf[i] # "notifier_terminal"

Restart(retire) ==
  /\ restarts < MaxRestarts
  /\ retire => Protected /\ ~migrated
  /\ restarts' = restarts + 1
  /\ status' = [i \in Items |-> IF retire /\ Retired(i) THEN "dead" ELSE Recovered(i)]
  /\ payload' = [i \in Items |-> payload[i] /\ ~(retire /\ Retired(i))
                                   /\ ~(Protected /\ status'[i] \in {"delivered", "dead"})]
  /\ event' = [g \in Groups |->
                IF retire /\ \E i \in Items : Part(i, g) /\ Retired(i) THEN "dead" ELSE event[g]]
  /\ migrated' = (migrated \/ retire)
  /\ batch' = {} /\ stage' = "claimed"
  /\ UNCHANGED <<retryCount, available, approval, route, sent, storeFaults>>

-----------------------------------------------------------------------------
Loop(i) ==
  \/ SkipInactive(i) \/ Send(i) \/ CompleteDelivery(i) \/ CompletionFails(i)
  \/ ApprovalGone(i) \/ FailDelivery(i) \/ FailureLost(i)

Next ==
  \/ \E g \in Groups : EnqueueTerminalEvent(g)
  \/ \E i \in Items : EnqueueDelivery(i) \/ ExpireApproval(i) \/ BackoffElapses(i) \/ Loop(i)
  \/ ClaimDeliveryBatch
  \/ \E retire \in BOOLEAN : Restart(retire)

Spec == Init /\ [][Next]_vars

\* deliveryLoop ticks every second, each Bot API call and each transaction
\* returns, and every back-off elapses. Nothing forces Telegram to accept
\* anything, nor the process to live.
FairSpec ==
  /\ Spec
  /\ WF_vars(ClaimDeliveryBatch)
  /\ \A i \in Items : WF_vars(Loop(i)) /\ WF_vars(BackoffElapses(i))

-----------------------------------------------------------------------------
(***************************************************************************)
(* Properties.                                                             *)
(***************************************************************************)

\* Every variable keeps its type.
TypeOK ==
  /\ status \in [Items -> {"absent", "pending", "processing", "retry", "delivered", "dead"}]
  /\ payload \in [Items -> BOOLEAN]
  /\ retryCount \in [Items -> Nat]
  /\ available \in [Items -> BOOLEAN]
  /\ event \in [Groups -> {"absent", "pending", "delivered", "dead"}]
  /\ approval \in [Items -> {"absent", "pending", "expired"}]
  /\ route \in [Items -> BOOLEAN]
  /\ migrated \in BOOLEAN
  /\ sent \in [Items -> Nat]
  /\ batch \in SUBSET Items
  /\ stage \in {"claimed", "sent", "failed"}
  /\ restarts \in Nat /\ storeFaults \in Nat

\* Telegram never receives a part of a terminal event before every earlier
\* part has been stored as delivered, whatever was retried, lost or
\* interrupted meanwhile.
PartsInOrder ==
  \A i, j \in Items : (Earlier(j, i) /\ sent[i] > 0) => status[j] = "delivered"

\* terminal_events agrees with the parts: delivered only when every part is,
\* dead only when no part is left waiting, pending while one is.
EventMatchesParts ==
  \A i \in Items : \A g \in Groups :
    Part(i, g) =>
      /\ event[g] = "absent" <=> status[i] = "absent"
      /\ event[g] = "pending" => status[i] \in Live \cup {"delivered"}
      /\ event[g] = "delivered" => status[i] = "delivered"
      /\ event[g] = "dead" => status[i] \in {"delivered", "dead"}

\* Every message beyond the first that Telegram accepts for a row is
\* accounted for by a stored failed attempt or by a process death.
DuplicatesAccounted ==
  \A i \in Items : sent[i] <= 1 + retryCount[i] + restarts

\* A reply route is stored exactly for delivered rows, and only for messages
\* Telegram accepted (ADR-002: "written only after successful delivery").
RouteIffDelivered ==
  \A i \in Items : /\ route[i] <=> status[i] = "delivered"
                   /\ route[i] => sent[i] > 0

\* The protected store keeps no message text of a settled row.
SettledIsErased ==
  Protected => \A i \in Items : status[i] \in {"delivered", "dead"} => ~payload[i]

\* A row that can still be claimed has a payload: a waiting row without one
\* would fail every later claim, its own and everybody else's.
WaitingHasPayload ==
  \A i \in Items : status[i] \in {"pending", "retry"} => payload[i]

\* Attempts stop at the configured maximum.
AttemptsBounded ==
  \A i \in Items : /\ retryCount[i] <= MaxAttempts
                   /\ status[i] \in Live => retryCount[i] < MaxAttempts

\* A delivered row is never sent again, and stays delivered.
DeliveredIsFinal ==
  [][\A i \in Items : status[i] = "delivered" =>
       status'[i] = "delivered" /\ sent'[i] = sent[i]]_vars

\* Every enqueued row is eventually delivered or given up, even if Telegram
\* refuses everything.
EventuallySettled ==
  \A i \in Items : status[i] \in Live ~> status[i] \in {"delivered", "dead"}

=============================================================================
