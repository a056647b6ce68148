SPECIFICATION FairSpec
CONSTANTS
  Sizes <- ShortAndLong
  MPS = 4
  Room = 10
  Allocs = {"client"}
  MaxSdus <- TwoBack
  MaxConnects = 2
  MaxCredits = 65535
  Psms = {TRUE, FALSE}
  Requires = {TRUE, FALSE}
  CanRunOut = {"conn_rsp", "credits", "sdu"}
  Rash = {"connecting"}
  Overtakes = FALSE
  MayDrop = TRUE
  NULL = NULL
CHECK_DEADLOCK FALSE
INVARIANTS CreditsExact SdusExact NothingBreaks 
PROPERTIES SduDelivered NoHalfOpen
