SPECIFICATION Spec
CONSTANTS
  c1 = c1
  c2 = c2
  NULL = NULL
  Queues = {q1, q2}
  Works = {w1, w2}
  Delayables = {}
  Clients = {c1, c2}
  Calls <- AllCalls
  MaxCallbacks = 0
SYMMETRY QueueSymmetry
INVARIANTS NoReentrancy FlagsTruthful SyncExact NothingUnseen DrainExact
CHECK_DEADLOCK FALSE
