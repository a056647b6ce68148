SPECIFICATION FairSpec
CONSTANTS
  Reqs = {r1, r2, r3}
  Slots = 2
  MaxLinks = 2
  Rash = {}
  Locks = {TRUE, FALSE}
  Preempts = FALSE
  CANCEL = CANCEL
  NULL = NULL
CHECK_DEADLOCK FALSE
INVARIANTS AnswersMatch SlotsExact NothingBreaks
PROPERTIES RequestEnds
