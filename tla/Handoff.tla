------------------------------ MODULE Handoff ------------------------------
(***************************************************************************)
(* What a linked thread promises its owner (ADR-020), without workers,     *)
(* locks, tables and observers.                                            *)
(*                                                                         *)
(* The thread is taken for Telegram, gets a turn, the turn's result goes   *)
(* to the outbox, and only then the thread is handed back with a notice.   *)
(* A restart of the daemon orphans a thread that was not handed back yet:  *)
(* nobody knows any more whether its worker has ended, so it is never      *)
(* handed back.  A failed thread stays failed.                             *)
(***************************************************************************)
EXTENDS Naturals

VARIABLES
  phase,      \* "none", "running", "pending", "ready" or "failed"
  turn,       \* the turn the thread was taken for, 0 while there is none
  outbox,     \* turns with a result in the outbox
  notices,    \* turns after which the owner was told to go on at the PC
  orphaned    \* a restart came before the thread was handed back

vars == <<phase, turn, outbox, notices, orphaned>>

Init ==
  /\ phase = "none" /\ turn = 0
  /\ outbox = {} /\ notices = {}
  /\ orphaned = FALSE

Take ==
  /\ phase \in {"none", "ready"}
  /\ phase' = "running" /\ turn' = 0
  /\ UNCHANGED <<outbox, notices, orphaned>>

Begin ==
  /\ phase = "running" /\ turn = 0
  /\ turn' \in Nat \ {0}
  /\ UNCHANGED <<phase, outbox, notices, orphaned>>

\* The result of the turn and the end of the ownership are one step.
Settle ==
  /\ phase = "running" /\ turn # 0 /\ turn \notin outbox
  /\ phase' = "pending"
  /\ outbox' = outbox \cup {turn}
  /\ UNCHANGED <<turn, notices, orphaned>>

\* A result that does not end the ownership: of a turn at the PC, of a turn
\* that was orphaned, or of one whose thread has failed.
Announce ==
  /\ phase # "running"
  /\ outbox \subseteq outbox'
  /\ UNCHANGED <<phase, turn, notices, orphaned>>

HandBack ==
  /\ phase = "pending" /\ ~orphaned
  /\ turn \in outbox
  /\ phase' = "ready" /\ turn' = 0
  /\ notices' = notices \cup {turn}
  /\ UNCHANGED <<outbox, orphaned>>

Orphan ==
  /\ phase \in {"running", "pending"}
  /\ phase' = "pending" /\ orphaned' = TRUE
  /\ UNCHANGED <<turn, outbox, notices>>

Fail ==
  /\ phase \in {"running", "pending"}
  /\ phase' = "failed" /\ turn' = 0
  /\ UNCHANGED <<outbox, notices, orphaned>>

Next == Take \/ Begin \/ Settle \/ Announce \/ HandBack \/ Orphan \/ Fail

Spec == Init /\ [][Next]_vars
=============================================================================
