----------------------------- MODULE MCConnLife -----------------------------
EXTENDS ConnLife
FewTries == [m \in Modes |-> IF m = "resolve" THEN 1 ELSE 2]
=============================================================================
