SPECIFICATION FairSpec
CONSTANTS
  NULL = NULL
  ADDR_NONE = ADDR_NONE
  Slots = {1, 2}
  Peers = {p1, p2}
  Handles = {h1, h2}
  Apps = {a1}
  Modes = {"direct", "resolve", "auto"}
  Preempts = {TRUE, FALSE}
  CanFail = {"resolve"}
  Slow = FALSE
  Eager = FALSE
  MaxTries <- FewTries
  MaxLost = 1
CHECK_DEADLOCK FALSE
INVARIANTS RefsExact ToldOnce DeadIsDead
PROPERTIES AttemptEnds EndReported
