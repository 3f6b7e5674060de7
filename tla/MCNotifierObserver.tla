------------------------- MODULE MCNotifierObserver -------------------------
(* Small instances of NotifierObserver for TLC. *)
EXTENDS NotifierObserver
=============================================================================
