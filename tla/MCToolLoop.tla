----------------------------- MODULE MCToolLoop -----------------------------
EXTENDS ToolLoop, TLC

\* The first run may have a second round, the other one only disturbs it.
MCMaxRounds == 1 :> 2 @@ 2 :> 1
=============================================================================
