---------------------------- MODULE MCGuiResume ----------------------------
(* Small instances of GuiResume for TLC.                                   *)
EXTENDS GuiResume
=============================================================================
