------------------------------ MODULE MCGuiRun ------------------------------
EXTENDS GuiRun, TLC
MCHome == [r \in Run |-> CHOOSE s \in Session : TRUE]
=============================================================================
