----------------------------- MODULE MCL2capChan -----------------------------
EXTENDS L2capChan
Pair(c, s) == [h \in {"client", "server"} |-> IF h = "server" THEN s ELSE c]
TwoBack == Pair(1, 2)
ShortAndLong == Pair({2}, {7})
==============================================================================
