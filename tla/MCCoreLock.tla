----------------------------- MODULE MCCoreLock -----------------------------
EXTENDS CoreLock, TLC
CONSTANTS r1, r2, m1, m2, e1, none
MCRun == {r1, r2}
\* The first run names the selected model and an effort, the second another model
\* and no effort.
MCAskedModel == [r \in MCRun |-> IF r = r1 THEN m1 ELSE m2]
MCAskedEffort == [r \in MCRun |-> IF r = r1 THEN e1 ELSE none]
=============================================================================
