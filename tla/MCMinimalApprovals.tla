------------------------- MODULE MCMinimalApprovals -------------------------
(* Small instances of MinimalApprovals for TLC. *)
EXTENDS MinimalApprovals
=============================================================================
