--------------------------- MODULE MCOAuthRefresh ---------------------------
EXTENDS OAuthRefresh, TLC
CONSTANTS c1, c2, c3, p1, p2
\* Two calls of one process and one of another.
MCHome == (c1 :> p1) @@ (c2 :> p1) @@ (c3 :> p2)
\* Every second token looks the same when masked.
MCMask == [t \in Token |-> t % 2]
=============================================================================
