----------------------------- MODULE MCEventHub -----------------------------
(* A small instance of EventHub for TLC.                                   *)
EXTENDS EventHub
=============================================================================
