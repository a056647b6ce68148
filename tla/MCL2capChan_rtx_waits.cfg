SPECIFICATION Spec
CONSTANTS
  Sizes <- ShortAndLong
  MPS = 4
  Room = 10
  Allocs = {"client"}
  MaxSdus <- TwoBack
  MaxConnects = 2
  MaxCredits = 65535
  Psms = {TRUE}
  Requires = {FALSE}
  CanRunOut = {}
  Rash = {}
  Overtakes = FALSE
  MayDrop = FALSE
  NULL = NULL
CHECK_DEADLOCK FALSE
INVARIANT NeverWaitsForItself
