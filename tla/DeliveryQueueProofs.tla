------------------------ MODULE DeliveryQueueProofs -------------------------
(***************************************************************************)
(* Safety of the outbox for every layout of rows and groups, every batch    *)
(* size, every number of attempts, restarts and failed transactions.       *)
(***************************************************************************)
EXTENDS DeliveryQueue, TLAPS

-----------------------------------------------------------------------------
(***************************************************************************)
(* The inductive invariant.                                                *)
(***************************************************************************)

\* A claimed row is processing, unless its approval expired meanwhile.
BatchProcessing ==
  \A i \in batch : status[i] = "processing"
                     \/ (IsApproval(i) /\ status[i] = "dead")

\* The stage describes the first row of the batch.
StageFitsBatch ==
  /\ batch = {} => stage = "claimed"
  /\ stage = "sent" => \A i \in Items : AtHead(i) => sent[i] > 0

\* Nothing of a part has happened before the earlier parts were delivered.
Sequential ==
  \A i, j \in Items :
    (Earlier(j, i) /\ (sent[i] > 0 \/ status[i] \in {"processing", "retry", "delivered"}))
      => status[j] = "delivered"

\* Only an approval row can lose its payload while it waits.
LiveHasPayload ==
  \A i \in Items : (~IsApproval(i) /\ status[i] \in Live) => payload[i]

\* A row in the batch has attempts left.
BatchHasAttempts ==
  \A i \in batch : retryCount[i] < MaxAttempts

\* Only approval rows have an approval request.
ApprovalRows ==
  \A i \in Items : approval[i] # "absent" => IsApproval(i)

\* A row not yet inserted has no attempts.
Fresh ==
  \A i \in Items : status[i] = "absent" => retryCount[i] = 0

\* A row whose next send has not started has one accepted message less.
SendBudget ==
  \A i \in Items :
    (\/ status[i] \in {"absent", "pending", "retry"}
     \/ i \in batch /\ ~(AtHead(i) /\ stage # "claimed"))
      => sent[i] <= retryCount[i] + restarts

IInv ==
  /\ TypeOK
  /\ BatchProcessing
  /\ StageFitsBatch
  /\ Sequential
  /\ LiveHasPayload
  /\ EventMatchesParts
  /\ RouteIffDelivered
  /\ SettledIsErased
  /\ AttemptsBounded
  /\ BatchHasAttempts
  /\ Fresh
  /\ ApprovalRows
  /\ DuplicatesAccounted
  /\ SendBudget

-----------------------------------------------------------------------------
(***************************************************************************)
(* One lemma per action: it preserves the inductive invariant.             *)
(***************************************************************************)
\* Inserting an event with its parts preserves the invariant.
LEMMA EnqueueTerminalEventKeeps ==
  ASSUME IInv, NEW g \in Groups, EnqueueTerminalEvent(g)
  PROVE  IInv'
<1> USE LayoutAssumption, BoundsAssumption
<1> USE DEF IInv, TypeOK, EnqueueTerminalEvent, Part, vars, tables, rowVars, worker, Live
<1>1. \A i \in Items : Part(i, g) => status[i] = "absent" /\ ~IsApproval(i)
  BY KindAssumption DEF EventMatchesParts, IsApproval
<1>2. TypeOK'
  OBVIOUS
<1>3. BatchProcessing'
  BY <1>1 DEF BatchProcessing
<1>4. Sequential'
  BY <1>1 DEF Sequential, Earlier
<1>5. LiveHasPayload'
  BY DEF LiveHasPayload, IsApproval, BatchProcessing, AtHead
<1>6. EventMatchesParts'
  BY DEF EventMatchesParts, Part, BatchProcessing, AtHead, IsApproval
<1>7. RouteIffDelivered'
  BY <1>1 DEF RouteIffDelivered
<1>8. SettledIsErased'
  BY DEF SettledIsErased, BatchProcessing, AtHead
<1>9. AttemptsBounded'
  BY <1>1 DEF AttemptsBounded, Fresh
<1>10. Fresh'
  BY DEF Fresh, BatchProcessing, AtHead
<1>11. SendBudget'
  BY <1>1 DEF SendBudget, AtHead
<1>12. (StageFitsBatch /\ BatchHasAttempts /\ DuplicatesAccounted /\ ApprovalRows)'
  BY DEF StageFitsBatch, BatchHasAttempts, DuplicatesAccounted, ApprovalRows, AtHead
<1>13. QED
  BY <1>2, <1>3, <1>4, <1>5, <1>6, <1>7, <1>8, <1>9, <1>10, <1>11, <1>12

\* Inserting a single row preserves the invariant.
LEMMA EnqueueDeliveryKeeps ==
  ASSUME IInv, NEW k \in Items, EnqueueDelivery(k)
  PROVE  IInv'
<1> USE LayoutAssumption, BoundsAssumption
<1> USE DEF IInv, TypeOK, EnqueueDelivery, vars, tables, rowVars, worker, Live
<1>1. TypeOK'
  OBVIOUS
<1>2. BatchProcessing'
  BY DEF BatchProcessing, IsApproval
<1>3. Sequential'
  BY DEF Sequential, Earlier, BatchProcessing, AtHead
<1>4. LiveHasPayload'
  BY DEF LiveHasPayload, IsApproval, BatchProcessing, AtHead
<1>5. EventMatchesParts'
  BY DEF EventMatchesParts, Part, BatchProcessing, AtHead, IsApproval
<1>6. RouteIffDelivered'
  BY DEF RouteIffDelivered, BatchProcessing, AtHead, StageFitsBatch
<1>7. SettledIsErased'
  BY DEF SettledIsErased, BatchProcessing, AtHead
<1>8. AttemptsBounded'
  BY DEF AttemptsBounded, BatchHasAttempts, Fresh, BatchProcessing, AtHead
<1>9. Fresh'
  BY DEF Fresh, BatchProcessing, AtHead
<1>10. SendBudget'
  BY DEF SendBudget, DuplicatesAccounted, BatchProcessing, AtHead, StageFitsBatch
<1>11. ApprovalRows'
  BY DEF ApprovalRows, IsApproval
<1>12. (StageFitsBatch /\ BatchHasAttempts /\ DuplicatesAccounted)'
  BY DEF StageFitsBatch, BatchHasAttempts, DuplicatesAccounted, AtHead
<1>13. QED
  BY <1>1, <1>2, <1>3, <1>4, <1>5, <1>6, <1>7, <1>8, <1>9, <1>10, <1>11, <1>12

\* The expiry of an approval, which may hit a row in the middle of its send, preserves the invariant.
LEMMA ExpireApprovalKeeps ==
  ASSUME IInv, NEW k \in Items, ExpireApproval(k)
  PROVE  IInv'
<1> USE LayoutAssumption, BoundsAssumption
<1> USE DEF IInv, TypeOK, ExpireApproval, vars, tables, rowVars, worker, Live
<1>1. IsApproval(k) /\ GroupOf[k] = NoGroup
  BY KindAssumption DEF ApprovalRows, IsApproval
<1>2. TypeOK'
  OBVIOUS
<1>3. BatchProcessing'
  BY <1>1 DEF BatchProcessing
<1>4. Sequential'
  BY DEF Sequential, Earlier, BatchProcessing, AtHead
<1>5. LiveHasPayload'
  BY DEF LiveHasPayload, IsApproval, BatchProcessing, AtHead
<1>6. EventMatchesParts'
  BY <1>1 DEF EventMatchesParts, Part
<1>7. RouteIffDelivered'
  BY DEF RouteIffDelivered, BatchProcessing, AtHead, StageFitsBatch
<1>8. SettledIsErased'
  BY DEF SettledIsErased, BatchProcessing, AtHead
<1>9. AttemptsBounded'
  BY DEF AttemptsBounded, BatchHasAttempts, Fresh, BatchProcessing, AtHead
<1>10. Fresh'
  BY DEF Fresh, BatchProcessing, AtHead
<1>11. SendBudget'
  BY DEF SendBudget, DuplicatesAccounted, BatchProcessing, AtHead, StageFitsBatch
<1>12. ApprovalRows'
  BY DEF ApprovalRows, IsApproval
<1>13. (StageFitsBatch /\ BatchHasAttempts /\ DuplicatesAccounted)'
  BY DEF StageFitsBatch, BatchHasAttempts, DuplicatesAccounted, AtHead
<1>14. QED
  BY <1>2, <1>3, <1>4, <1>5, <1>6, <1>7, <1>8, <1>9, <1>10, <1>11, <1>12, <1>13

\* Claiming a batch preserves the invariant.
LEMMA ClaimDeliveryBatchKeeps ==
  ASSUME IInv, ClaimDeliveryBatch
  PROVE  IInv'
<1> USE LayoutAssumption, BoundsAssumption
<1> USE DEF IInv, TypeOK, ClaimDeliveryBatch, ClaimWindow, Claimable, vars, tables, rowVars, worker, Live
<1>1. TypeOK'
  OBVIOUS
<1>2. BatchProcessing'
  BY DEF BatchProcessing, IsApproval
<1>3. StageFitsBatch'
  BY DEF StageFitsBatch, AtHead
<1>4. Sequential'
  BY DEF Sequential, Earlier, BatchProcessing, AtHead
<1>5. LiveHasPayload'
  BY DEF LiveHasPayload, IsApproval, BatchProcessing, AtHead
<1>6. EventMatchesParts'
  BY DEF EventMatchesParts, Part, BatchProcessing, AtHead, IsApproval
<1>7. RouteIffDelivered'
  BY DEF RouteIffDelivered, BatchProcessing, AtHead, StageFitsBatch
<1>8. SettledIsErased'
  BY DEF SettledIsErased, BatchProcessing, AtHead
<1>9. AttemptsBounded'
  BY DEF AttemptsBounded, BatchHasAttempts, Fresh, BatchProcessing, AtHead
<1>10. BatchHasAttempts'
  BY DEF BatchHasAttempts, AttemptsBounded, AtHead
<1>11. Fresh'
  BY DEF Fresh, BatchProcessing, AtHead
<1>12. SendBudget'
  BY DEF SendBudget, DuplicatesAccounted, BatchProcessing, AtHead, StageFitsBatch
<1>13. (DuplicatesAccounted /\ ApprovalRows)'
  BY DEF DuplicatesAccounted, ApprovalRows
<1>14. QED
  BY <1>1, <1>2, <1>3, <1>4, <1>5, <1>6, <1>7, <1>8, <1>9, <1>10, <1>11, <1>12, <1>13

\* Skipping a row whose approval is over preserves the invariant.
LEMMA SkipInactiveKeeps ==
  ASSUME IInv, NEW k \in Items, SkipInactive(k)
  PROVE  IInv'
<1> USE LayoutAssumption, BoundsAssumption
<1> USE DEF IInv, TypeOK, SkipInactive, Advance, DeliveryActive, vars, tables, rowVars, worker, Live
<1>1. TypeOK'
  OBVIOUS
<1>2. BatchProcessing'
  BY DEF BatchProcessing, IsApproval
<1>3. StageFitsBatch'
  BY DEF StageFitsBatch, AtHead
<1>4. BatchHasAttempts'
  BY DEF BatchHasAttempts, AttemptsBounded, AtHead
<1>5. SendBudget'
  BY DEF SendBudget, DuplicatesAccounted, BatchProcessing, AtHead, StageFitsBatch
<1>6. (Sequential /\ LiveHasPayload /\ EventMatchesParts /\ RouteIffDelivered /\ SettledIsErased /\ AttemptsBounded /\ Fresh /\ DuplicatesAccounted /\ ApprovalRows)'
  BY DEF Sequential, LiveHasPayload, EventMatchesParts, RouteIffDelivered, SettledIsErased, AttemptsBounded, Fresh, DuplicatesAccounted, ApprovalRows
<1>7. QED
  BY <1>1, <1>2, <1>3, <1>4, <1>5, <1>6

\* A Bot API call, answered or not, preserves the invariant.
LEMMA SendKeeps ==
  ASSUME IInv, NEW k \in Items, Send(k)
  PROVE  IInv'
<1> USE LayoutAssumption, BoundsAssumption
<1> USE DEF IInv, TypeOK, Send, DeliveryActive, vars, tables, rowVars, worker, Live
<1>1. TypeOK'
  OBVIOUS
<1>2. StageFitsBatch'
  BY DEF StageFitsBatch, AtHead
<1>3. Sequential'
  BY DEF Sequential, Earlier, BatchProcessing, AtHead
<1>4. RouteIffDelivered'
  BY DEF RouteIffDelivered, BatchProcessing, AtHead, StageFitsBatch
<1>5. DuplicatesAccounted'
  BY DEF DuplicatesAccounted, SendBudget, AtHead
<1>6. SendBudget'
  BY DEF SendBudget, DuplicatesAccounted, BatchProcessing, AtHead, StageFitsBatch
<1>7. (BatchProcessing /\ LiveHasPayload /\ EventMatchesParts /\ SettledIsErased /\ AttemptsBounded /\ BatchHasAttempts /\ Fresh /\ ApprovalRows)'
  BY DEF BatchProcessing, LiveHasPayload, EventMatchesParts, SettledIsErased, AttemptsBounded, BatchHasAttempts, Fresh, ApprovalRows
<1>8. QED
  BY <1>1, <1>2, <1>3, <1>4, <1>5, <1>6, <1>7

\* Storing a delivery preserves the invariant.
LEMMA CompleteDeliveryKeeps ==
  ASSUME IInv, NEW k \in Items, CompleteDelivery(k)
  PROVE  IInv'
<1> USE LayoutAssumption, BoundsAssumption
<1> USE DEF IInv, TypeOK, CompleteDelivery, Advance, DeliveryActive, IsLast, vars, tables, rowVars, worker, Live
<1>1. TypeOK'
  OBVIOUS
<1>2. BatchProcessing'
  BY DEF BatchProcessing, IsApproval
<1>3. StageFitsBatch'
  BY DEF StageFitsBatch, AtHead
<1>4. Sequential'
  BY DEF Sequential, Earlier, BatchProcessing, AtHead
<1>5. LiveHasPayload'
  BY DEF LiveHasPayload, IsApproval, BatchProcessing, AtHead
<1>6. EventMatchesParts'
  <2>1. k \in batch /\ status[k] = "processing"
    BY DEF BatchProcessing, AtHead
  <2>2. \A g \in Groups : Part(k, g) => event[g] = "pending"
    BY <2>1 DEF EventMatchesParts
  <2>3. ASSUME NEW g \in Groups, NEW j \in Items, Part(k, g), Part(j, g), IsLast(k), j # k
        PROVE  status[j] = "delivered"
    <3>1. SeqNo[j] # SeqNo[k] /\ ~(SeqNo[k] < SeqNo[j])
      BY <2>3, DistinctPartsAssumption DEF Part, IsLast, Earlier
    <3>2. SeqNo[j] \in Nat /\ SeqNo[k] \in Nat
      OBVIOUS
    <3>3. Earlier(j, k)
      BY <2>3, <3>1, <3>2 DEF Part, Earlier
    <3>4. QED
      BY <2>1, <3>3 DEF Sequential
  <2>4. QED
    BY <2>1, <2>2, <2>3 DEF EventMatchesParts, Part
<1>7. RouteIffDelivered'
  BY DEF RouteIffDelivered, BatchProcessing, AtHead, StageFitsBatch
<1>8. SettledIsErased'
  BY DEF SettledIsErased, BatchProcessing, AtHead
<1>9. AttemptsBounded'
  BY DEF AttemptsBounded, BatchHasAttempts, Fresh, BatchProcessing, AtHead
<1>10. BatchHasAttempts'
  BY DEF BatchHasAttempts, AttemptsBounded, AtHead
<1>11. Fresh'
  BY DEF Fresh, BatchProcessing, AtHead
<1>12. SendBudget'
  BY DEF SendBudget, DuplicatesAccounted, BatchProcessing, AtHead, StageFitsBatch
<1>13. (DuplicatesAccounted /\ ApprovalRows)'
  BY DEF DuplicatesAccounted, ApprovalRows
<1>14. QED
  BY <1>1, <1>2, <1>3, <1>4, <1>5, <1>6, <1>7, <1>8, <1>9, <1>10, <1>11, <1>12, <1>13

\* A failed completing transaction preserves the invariant.
LEMMA CompletionFailsKeeps ==
  ASSUME IInv, NEW k \in Items, CompletionFails(k)
  PROVE  IInv'
<1> USE LayoutAssumption, BoundsAssumption
<1> USE DEF IInv, TypeOK, CompletionFails, StoreFault, vars, tables, rowVars, worker, Live
<1>1. TypeOK'
  OBVIOUS
<1>2. StageFitsBatch'
  BY DEF StageFitsBatch, AtHead
<1>3. SendBudget'
  BY DEF SendBudget, DuplicatesAccounted, BatchProcessing, AtHead, StageFitsBatch
<1>4. (BatchProcessing /\ Sequential /\ LiveHasPayload /\ EventMatchesParts /\ RouteIffDelivered /\ SettledIsErased /\ AttemptsBounded /\ BatchHasAttempts /\ Fresh /\ DuplicatesAccounted /\ ApprovalRows)'
  BY DEF BatchProcessing, Sequential, LiveHasPayload, EventMatchesParts, RouteIffDelivered, SettledIsErased, AttemptsBounded, BatchHasAttempts, Fresh, DuplicatesAccounted, ApprovalRows
<1>5. QED
  BY <1>1, <1>2, <1>3, <1>4

\* Killing an approval that expired during its send preserves the invariant.
LEMMA ApprovalGoneKeeps ==
  ASSUME IInv, NEW k \in Items, ApprovalGone(k)
  PROVE  IInv'
<1> USE LayoutAssumption, BoundsAssumption
<1> USE DEF IInv, TypeOK, ApprovalGone, KillRow, Killed, Advance, DeliveryActive, StoreFault, vars, tables, rowVars, worker, Live
<1>1. k \in batch /\ (status[k] = "processing" \/ (IsApproval(k) /\ status[k] = "dead"))
  BY DEF BatchProcessing, AtHead
<1>2. \A j \in batch : j # k => j \notin Killed(k)
  BY <1>1, KindAssumption, DistinctPartsAssumption DEF BatchProcessing, Sequential, Earlier, Part, IsApproval
<1>3. TypeOK'
  <2>1. payload' \in [Items -> BOOLEAN]
    OBVIOUS
  <2>2. status' \in [Items -> {"absent", "pending", "processing", "retry", "delivered", "dead"}]
    OBVIOUS
  <2>3. event' \in [Groups -> {"absent", "pending", "delivered", "dead"}]
    OBVIOUS
  <2>4. QED
    BY <2>1, <2>2, <2>3
<1>4. BatchProcessing'
  BY <1>1, <1>2 DEF BatchProcessing, IsApproval
<1>5. StageFitsBatch'
  BY DEF StageFitsBatch, AtHead
<1>6. Sequential'
  BY DEF Sequential, Earlier, BatchProcessing, AtHead
<1>7. LiveHasPayload'
  BY DEF LiveHasPayload, IsApproval, BatchProcessing, AtHead
<1>8. EventMatchesParts'
  BY DEF EventMatchesParts, Part, BatchProcessing, AtHead, IsApproval
<1>9. RouteIffDelivered'
  BY DEF RouteIffDelivered, BatchProcessing, AtHead, StageFitsBatch
<1>10. SettledIsErased'
  BY DEF SettledIsErased, BatchProcessing, AtHead
<1>11. AttemptsBounded'
  BY DEF AttemptsBounded, BatchHasAttempts, Fresh, BatchProcessing, AtHead
<1>12. BatchHasAttempts'
  BY DEF BatchHasAttempts, AttemptsBounded, AtHead
<1>13. Fresh'
  BY DEF Fresh, BatchProcessing, AtHead
<1>14. DuplicatesAccounted'
  BY DEF DuplicatesAccounted, SendBudget, AtHead
<1>15. SendBudget'
  BY DEF SendBudget, DuplicatesAccounted, BatchProcessing, AtHead, StageFitsBatch
<1>16. ApprovalRows'
  BY DEF ApprovalRows, IsApproval
<1>17. QED
  BY <1>3, <1>4, <1>5, <1>6, <1>7, <1>8, <1>9, <1>10, <1>11, <1>12, <1>13, <1>14, <1>15, <1>16

\* Storing a failed attempt preserves the invariant.
LEMMA FailDeliveryKeeps ==
  ASSUME IInv, NEW k \in Items, FailDelivery(k)
  PROVE  IInv'
<1> USE LayoutAssumption, BoundsAssumption
<1> USE DEF IInv, TypeOK, FailDelivery, KillRow, Killed, Advance, vars, tables, rowVars, worker, Live
<1>1. k \in batch /\ (status[k] = "processing" \/ (IsApproval(k) /\ status[k] = "dead"))
  BY DEF BatchProcessing, AtHead
<1>2. ASSUME NEW j \in batch, j # k
      PROVE  j \notin Killed(k)
  <2>1. SUFFICES ASSUME Part(j, GroupOf[k]) PROVE FALSE
    BY <1>2 DEF BatchProcessing, Killed
  <2>2. ~IsApproval(j) /\ ~IsApproval(k)
    BY <2>1, <1>1, KindAssumption DEF Part, IsApproval
  <2>3. status[j] = "processing" /\ status[k] = "processing"
    BY <1>1, <2>2 DEF BatchProcessing
  <2>4. Earlier(j, k) \/ Earlier(k, j)
    <3>1. SeqNo[j] \in Nat /\ SeqNo[k] \in Nat
      OBVIOUS
    <3>2. SeqNo[j] # SeqNo[k]
      BY <1>2, <2>1, DistinctPartsAssumption DEF Part
    <3>3. QED
      BY <2>1, <3>1, <3>2 DEF Part, Earlier
  <2>5. QED
    BY <1>1, <2>3, <2>4 DEF Sequential
<1>3. TypeOK'
  <2>1. payload' \in [Items -> BOOLEAN]
    OBVIOUS
  <2>2. status' \in [Items -> {"absent", "pending", "processing", "retry", "delivered", "dead"}]
    OBVIOUS
  <2>3. event' \in [Groups -> {"absent", "pending", "delivered", "dead"}]
    OBVIOUS
  <2>4. retryCount' \in [Items -> Nat]
    OBVIOUS
  <2>5. available' \in [Items -> BOOLEAN]
    OBVIOUS
  <2>6. QED
    BY <2>1, <2>2, <2>3, <2>4, <2>5
<1>4. BatchProcessing'
  BY <1>1, <1>2 DEF BatchProcessing, IsApproval
<1>5. StageFitsBatch'
  BY DEF StageFitsBatch, AtHead
<1>6. Sequential'
  <2>1. \A j \in Items : status[j] = "delivered" => status'[j] = "delivered"
    BY <1>1
  <2>2. \A j \in Items : Earlier(j, k) => status[j] = "delivered"
    BY <1>1, KindAssumption DEF Sequential, Earlier, IsApproval
  <2>3. QED
    BY <2>1, <2>2 DEF Sequential
<1>7. LiveHasPayload'
  BY DEF LiveHasPayload, IsApproval, BatchProcessing, AtHead
<1>8. EventMatchesParts'
  <2>1. \A g \in Groups : Part(k, g) => event[g] = "pending"
    BY <1>1, KindAssumption DEF EventMatchesParts, Part, IsApproval
  <2>2. QED
    BY <1>1, <2>1 DEF EventMatchesParts, Part
<1>9. RouteIffDelivered'
  BY DEF RouteIffDelivered, BatchProcessing, AtHead, StageFitsBatch
<1>10. SettledIsErased'
  <2>1. SUFFICES ASSUME Protected, NEW j \in Items, status'[j] \in {"delivered", "dead"}
                 PROVE  ~payload'[j]
    BY DEF SettledIsErased
  <2>2. CASE retryCount[k] + 1 >= MaxAttempts
    <3>1. CASE j \in Killed(k)
      BY <2>1, <2>2, <3>1
    <3>2. CASE j \notin Killed(k)
      BY <2>1, <2>2, <3>2 DEF SettledIsErased
    <3>3. QED
      BY <3>1, <3>2
  <2>3. CASE ~(retryCount[k] + 1 >= MaxAttempts)
    BY <2>1, <2>3 DEF SettledIsErased
  <2>4. QED
    BY <2>2, <2>3
<1>11. AttemptsBounded'
  BY DEF AttemptsBounded, BatchHasAttempts, Fresh, BatchProcessing, AtHead
<1>12. BatchHasAttempts'
  BY DEF BatchHasAttempts, AttemptsBounded, AtHead
<1>13. Fresh'
  BY DEF Fresh, BatchProcessing, AtHead
<1>14. DuplicatesAccounted'
  BY DEF DuplicatesAccounted, SendBudget, AtHead
<1>15. SendBudget'
  BY DEF SendBudget, DuplicatesAccounted, BatchProcessing, AtHead, StageFitsBatch
<1>16. ApprovalRows'
  BY DEF ApprovalRows
<1>17. QED
  BY <1>3, <1>4, <1>5, <1>6, <1>7, <1>8, <1>9, <1>10, <1>11, <1>12, <1>13, <1>14, <1>15, <1>16

\* Losing a failed attempt preserves the invariant.
LEMMA FailureLostKeeps ==
  ASSUME IInv, NEW k \in Items, FailureLost(k)
  PROVE  IInv'
<1> USE LayoutAssumption, BoundsAssumption
<1> USE DEF IInv, TypeOK, FailureLost, Advance, StoreFault, vars, tables, rowVars, worker, Live
<1>1. TypeOK'
  OBVIOUS
<1>2. BatchProcessing'
  BY DEF BatchProcessing, IsApproval
<1>3. StageFitsBatch'
  BY DEF StageFitsBatch, AtHead
<1>4. BatchHasAttempts'
  BY DEF BatchHasAttempts, AttemptsBounded, AtHead
<1>5. SendBudget'
  BY DEF SendBudget, DuplicatesAccounted, BatchProcessing, AtHead, StageFitsBatch
<1>6. (Sequential /\ LiveHasPayload /\ EventMatchesParts /\ RouteIffDelivered /\ SettledIsErased /\ AttemptsBounded /\ Fresh /\ DuplicatesAccounted /\ ApprovalRows)'
  BY DEF Sequential, LiveHasPayload, EventMatchesParts, RouteIffDelivered, SettledIsErased, AttemptsBounded, Fresh, DuplicatesAccounted, ApprovalRows
<1>7. QED
  BY <1>1, <1>2, <1>3, <1>4, <1>5, <1>6

\* The end of a back-off preserves the invariant.
LEMMA BackoffElapsesKeeps ==
  ASSUME IInv, NEW k \in Items, BackoffElapses(k)
  PROVE  IInv'
<1> USE LayoutAssumption, BoundsAssumption
<1> USE DEF IInv, TypeOK, BackoffElapses, vars, tables, rowVars, worker, Live
<1>1. TypeOK'
  OBVIOUS
<1>2. (BatchProcessing /\ StageFitsBatch /\ Sequential /\ LiveHasPayload /\ EventMatchesParts /\ RouteIffDelivered /\ SettledIsErased /\ AttemptsBounded /\ BatchHasAttempts /\ Fresh /\ DuplicatesAccounted /\ SendBudget /\ ApprovalRows)'
  BY DEF BatchProcessing, StageFitsBatch, Sequential, LiveHasPayload, EventMatchesParts, RouteIffDelivered, SettledIsErased, AttemptsBounded, BatchHasAttempts, Fresh, DuplicatesAccounted, SendBudget, ApprovalRows, AtHead
<1>3. QED
  BY <1>1, <1>2

\* A process death and the recovery of the next start preserves the invariant.
LEMMA RestartKeeps ==
  ASSUME IInv, NEW retire \in BOOLEAN, Restart(retire)
  PROVE  IInv'
<1> USE LayoutAssumption, BoundsAssumption
<1> USE DEF IInv, TypeOK, Restart, Recovered, Retired, vars, tables, rowVars, worker, Live
<1>1. TypeOK'
  OBVIOUS
<1>2. BatchProcessing'
  BY DEF BatchProcessing, IsApproval
<1>3. StageFitsBatch'
  BY DEF StageFitsBatch, AtHead
<1>4. Sequential'
  BY DEF Sequential, Earlier, BatchProcessing, AtHead
<1>5. LiveHasPayload'
  BY DEF LiveHasPayload, IsApproval, BatchProcessing, AtHead
<1>6. EventMatchesParts'
  <2>1. \A i \in Items : \A g \in Groups : Part(i, g) => ~IsApproval(i)
    BY KindAssumption DEF Part, IsApproval
  <2>2. QED
    BY <2>1, KindAssumption DEF EventMatchesParts, Part, LiveHasPayload, IsApproval
<1>7. RouteIffDelivered'
  BY DEF RouteIffDelivered, BatchProcessing, AtHead, StageFitsBatch
<1>8. SettledIsErased'
  BY DEF SettledIsErased, BatchProcessing, AtHead
<1>9. AttemptsBounded'
  BY DEF AttemptsBounded, BatchHasAttempts, Fresh, BatchProcessing, AtHead
<1>10. BatchHasAttempts'
  BY DEF BatchHasAttempts, AttemptsBounded, AtHead
<1>11. Fresh'
  BY DEF Fresh, BatchProcessing, AtHead
<1>12. DuplicatesAccounted'
  BY DEF DuplicatesAccounted, SendBudget, AtHead
<1>13. SendBudget'
  BY DEF SendBudget, DuplicatesAccounted, BatchProcessing, AtHead, StageFitsBatch
<1>14. ApprovalRows'
  BY DEF ApprovalRows
<1>15. QED
  BY <1>1, <1>2, <1>3, <1>4, <1>5, <1>6, <1>7, <1>8, <1>9, <1>10, <1>11, <1>12, <1>13, <1>14

-----------------------------------------------------------------------------
(***************************************************************************)
(* The invariant holds for ever.                                           *)
(***************************************************************************)

\* The empty outbox of a new store satisfies the inductive invariant.
LEMMA InitEstablishes == Init => IInv
<1> USE LayoutAssumption, BoundsAssumption DEF Init
<1>1. Init => TypeOK
  <2>1. Init => payload \in [Items -> BOOLEAN]
    OBVIOUS
  <2>2. Init => available \in [Items -> BOOLEAN]
    OBVIOUS
  <2>3. Init => route \in [Items -> BOOLEAN]
    OBVIOUS
  <2>4. Init => migrated \in BOOLEAN
    OBVIOUS
  <2>5. QED
    BY <2>1, <2>2, <2>3, <2>4 DEF TypeOK
<1>2. Init => BatchProcessing /\ StageFitsBatch /\ Sequential /\ LiveHasPayload
  BY DEF BatchProcessing, StageFitsBatch, Sequential, LiveHasPayload, Live, AtHead
<1>3. Init => EventMatchesParts /\ RouteIffDelivered /\ SettledIsErased
  BY DEF EventMatchesParts, RouteIffDelivered, SettledIsErased
<1>4. Init => AttemptsBounded /\ BatchHasAttempts /\ Fresh /\ ApprovalRows
  BY DEF AttemptsBounded, BatchHasAttempts, Fresh, ApprovalRows, Live
<1>5. Init => DuplicatesAccounted /\ SendBudget
  BY DEF DuplicatesAccounted, SendBudget
<1>6. QED
  BY <1>1, <1>2, <1>3, <1>4, <1>5 DEF IInv

\* Every step of the outbox, the delivery loop, the expiries and the restarts
\* preserves the inductive invariant.
LEMMA NextPreserves == IInv /\ [Next]_vars => IInv'
<1> SUFFICES ASSUME IInv, [Next]_vars PROVE IInv'
  OBVIOUS
<1>1. CASE UNCHANGED vars
  BY <1>1 DEF vars, tables, rowVars, worker, IInv, TypeOK, BatchProcessing, StageFitsBatch,
     Sequential, LiveHasPayload, EventMatchesParts, RouteIffDelivered, SettledIsErased,
     AttemptsBounded, BatchHasAttempts, Fresh, ApprovalRows, DuplicatesAccounted, SendBudget, AtHead
<1>2. ASSUME NEW g \in Groups, EnqueueTerminalEvent(g) PROVE IInv'
  BY <1>2, EnqueueTerminalEventKeeps
<1>3. ASSUME NEW i \in Items, EnqueueDelivery(i) PROVE IInv'
  BY <1>3, EnqueueDeliveryKeeps
<1>4. ASSUME NEW i \in Items, ExpireApproval(i) PROVE IInv'
  BY <1>4, ExpireApprovalKeeps
<1>5. ASSUME NEW i \in Items, BackoffElapses(i) PROVE IInv'
  BY <1>5, BackoffElapsesKeeps
<1>6. ASSUME NEW i \in Items, Loop(i) PROVE IInv'
  BY <1>6, SkipInactiveKeeps, SendKeeps, CompleteDeliveryKeeps, CompletionFailsKeeps,
     ApprovalGoneKeeps, FailDeliveryKeeps, FailureLostKeeps DEF Loop
<1>7. CASE ClaimDeliveryBatch
  BY <1>7, ClaimDeliveryBatchKeeps
<1>8. ASSUME NEW retire \in BOOLEAN, Restart(retire) PROVE IInv'
  BY <1>8, RestartKeeps
<1>9. QED
  BY <1>1, <1>2, <1>3, <1>4, <1>5, <1>6, <1>7, <1>8 DEF Next

\* The inductive invariant holds in every reachable state.
THEOREM Inductive == Spec => []IInv
<1>1. QED
  BY InitEstablishes, NextPreserves, PTL DEF Spec

-----------------------------------------------------------------------------
(***************************************************************************)
(* What it says of the outbox.                                             *)
(***************************************************************************)

\* Every variable keeps its type.
THEOREM TypeCorrect == Spec => []TypeOK
<1>1. IInv => TypeOK
  BY DEF IInv
<1>2. QED
  BY <1>1, Inductive, PTL

\* Telegram receives the parts of an event in order, however often sends,
\* transactions and the process fail.
THEOREM Ordered == Spec => []PartsInOrder
<1>1. IInv => PartsInOrder
  BY DEF IInv, Sequential, PartsInOrder
<1>2. QED
  BY <1>1, Inductive, PTL

\* The status of a terminal event agrees with the status of its parts.
THEOREM EventsAgree == Spec => []EventMatchesParts
<1>1. IInv => EventMatchesParts
  BY DEF IInv
<1>2. QED
  BY <1>1, Inductive, PTL

\* Duplicates are bounded by failed attempts and process deaths, and attempts
\* by the configured maximum: at-least-once delivery repeats a message only
\* where it has to.
THEOREM DuplicatesBounded == Spec => [](DuplicatesAccounted /\ AttemptsBounded)
<1>1. IInv => DuplicatesAccounted /\ AttemptsBounded
  BY DEF IInv
<1>2. QED
  BY <1>1, Inductive, PTL

\* Reply routes exist exactly for the rows stored as delivered, all of which
\* Telegram accepted.
THEOREM RoutesAreDelivered == Spec => []RouteIffDelivered
<1>1. IInv => RouteIffDelivered
  BY DEF IInv
<1>2. QED
  BY <1>1, Inductive, PTL

\* The protected store keeps no message text of a settled row.
THEOREM SettledErased == Spec => []SettledIsErased
<1>1. IInv => SettledIsErased
  BY DEF IInv
<1>2. QED
  BY <1>1, Inductive, PTL

\* Without approval rows (the notifier profile) no waiting row ever loses its
\* payload, so no claim can fail on one.
THEOREM ClaimsCanScan ==
  ASSUME \A i \in Items : ~IsApproval(i)
  PROVE  Spec => []WaitingHasPayload
<1>1. IInv => WaitingHasPayload
  BY DEF IInv, LiveHasPayload, WaitingHasPayload, Live
<1>2. QED
  BY <1>1, Inductive, PTL

\* A row stored as delivered stays delivered and is not sent again, across
\* retries, kills of its group, expiries and restarts.
THEOREM DeliveredForGood == Spec => DeliveredIsFinal
<1>1. IInv /\ [Next]_vars => [\A i \in Items : status[i] = "delivered" =>
                               status'[i] = "delivered" /\ sent'[i] = sent[i]]_vars
  <2> SUFFICES ASSUME IInv, Next, NEW i \in Items, status[i] = "delivered"
               PROVE  status'[i] = "delivered" /\ sent'[i] = sent[i]
    OBVIOUS
  <2> USE DEF IInv, TypeOK, tables, rowVars, Live
  <2>1. ASSUME NEW g \in Groups, EnqueueTerminalEvent(g)
        PROVE  status'[i] = "delivered" /\ sent'[i] = sent[i]
    BY <2>1 DEF EnqueueTerminalEvent, EventMatchesParts
  <2>2. ASSUME NEW k \in Items, EnqueueDelivery(k) \/ ExpireApproval(k) \/ BackoffElapses(k)
        PROVE  status'[i] = "delivered" /\ sent'[i] = sent[i]
    BY <2>2 DEF EnqueueDelivery, ExpireApproval, BackoffElapses
  <2>3. ASSUME NEW k \in Items, Loop(k)
        PROVE  status'[i] = "delivered" /\ sent'[i] = sent[i]
    <3>1. i # k
      BY <2>3 DEF Loop, SkipInactive, Send, CompleteDelivery, CompletionFails, ApprovalGone,
         FailDelivery, FailureLost, AtHead, BatchProcessing
    <3>2. i \notin Killed(k)
      BY <3>1 DEF Killed
    <3>3. CASE SkipInactive(k) \/ CompletionFails(k) \/ FailureLost(k)
      BY <3>3 DEF SkipInactive, CompletionFails, FailureLost
    <3>4. CASE Send(k)
      BY <3>4, <3>1 DEF Send
    <3>5. CASE CompleteDelivery(k)
      BY <3>5, <3>1 DEF CompleteDelivery
    <3>6. CASE ApprovalGone(k)
      BY <3>6, <3>2 DEF ApprovalGone, KillRow
    <3>7. CASE FailDelivery(k)
      BY <3>7, <3>1, <3>2 DEF FailDelivery, KillRow
    <3>8. QED
      BY <2>3, <3>3, <3>4, <3>5, <3>6, <3>7 DEF Loop
  <2>4. CASE ClaimDeliveryBatch
    BY <2>4 DEF ClaimDeliveryBatch, ClaimWindow, Claimable
  <2>5. ASSUME NEW retire \in BOOLEAN, Restart(retire)
        PROVE  status'[i] = "delivered" /\ sent'[i] = sent[i]
    BY <2>5 DEF Restart, Retired, Recovered
  <2>6. QED
    BY <2>1, <2>2, <2>3, <2>4, <2>5 DEF Next
<1>2. QED
  BY <1>1, Inductive, PTL DEF Spec, DeliveredIsFinal

=============================================================================
