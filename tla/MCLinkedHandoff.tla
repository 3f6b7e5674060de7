-------------------------- MODULE MCLinkedHandoff --------------------------
(* LinkedHandoff for TLC: its constants are given in the configurations.   *)
EXTENDS LinkedHandoff
=============================================================================
