-------------------------- MODULE MCCommandLedger --------------------------
(* Small instances of CommandLedger for TLC.                               *)
EXTENDS CommandLedger
=============================================================================
