CONSTANTS
  t1 = t1
  t2 = t2
  t3 = t3
  Threads = {t1, t2, t3}
  QueueNodes = {n1, n2}
  Calls <- AllCalls
  Spurious = TRUE
  Timeout = 1
  NoNode = NoNode
SPECIFICATION QueueSpec
INVARIANTS NoStrandedWaiter 
PROPERTY FifoSpec
