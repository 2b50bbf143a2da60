----------------------------- MODULE MCMonitor -----------------------------
(***************************************************************************)
(* Two runs over one log, of two configurations.                           *)
(***************************************************************************)
EXTENDS Monitor

=============================================================================
