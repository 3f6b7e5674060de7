-------------------------- MODULE MCDeliveryQueue ---------------------------
(* Small layouts of the outbox for TLC. *)
EXTENDS DeliveryQueue

\* A two-part terminal event of the minimal profile, a notifier notice, and a
\* row of its own: an approval request, or a message of the observer.
MixedItems == 1..4
MixedGroups == {"t", "n"}
MixedGroupOf == <<"t", "t", "n", "none">>
MixedSeqNo == <<1, 2, 1, 0>>
MixedKindOf == <<"terminal", "terminal", "notifier_terminal", "minimal_approval">>
LiveKindOf == <<"terminal", "terminal", "notifier_terminal", "observer">>

\* An approval request and a two-part terminal event.
ApprovalItems == 1..3
ApprovalGroups == {"t"}
ApprovalGroupOf == <<"none", "t", "t">>
ApprovalSeqNo == <<0, 1, 2>>
ApprovalKindOf == <<"minimal_approval", "terminal", "terminal">>
=============================================================================
