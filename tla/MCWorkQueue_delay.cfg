SPECIFICATION FairSpec
CONSTANTS
  c1 = c1
  c2 = c2
  NULL = NULL
  Queues = {q1, q2}
  Works = {d1}
  Delayables = {d1}
  Clients = {c1, c2}
  Calls <- DelayCalls
  MaxCallbacks = 2
PROPERTIES WorkEnds SyncReturns
